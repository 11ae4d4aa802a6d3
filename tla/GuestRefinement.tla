--------------------------- MODULE GuestRefinement ---------------------------
(***************************************************************************)
(* GuestRuntime implements AbstractGuest: a start takes effect when the    *)
(* pid is stored, whether it is reported or undone, and a stop when the    *)
(* supervisor has been waited for.                                         *)
(***************************************************************************)
EXTENDS GuestRuntime

\* The supervisor just forked, which nobody knows of yet.
Secret(g) == pc = "store" /\ g = cur

LifeOf(g) ==
    CASE sup[g] = "unborn" \/ Secret(g) -> "unborn"
      [] SupAlive(g) /\ sigSup[g] /\ ~Secret(g) -> "ending"
      [] SupAlive(g) /\ ~sigSup[g] /\ ~Secret(g) -> "going"
      [] OTHER -> "gone"

\* A start whose pid is stored but which is being undone will not be reported.
AbsGuest == IF pc = "undo" THEN NoGuest ELSE guestPid
AbsOurs == {g \in own : ~Secret(g)}
AbsLife == [g \in Guest |-> LifeOf(g)]

Abs == INSTANCE AbstractGuest
           WITH guest <- AbsGuest, ours <- AbsOurs, life <- AbsLife

\* Whatever fails and whoever dies, the calls keep what they promise: a start
\* succeeds only when no other supervisor of this life of the application goes
\* on, one that fails after the fork has told its own to end (guest.rs:636-651),
\* and a stop forgets the pid only of a supervisor that has ended (guest.rs:709-738).
ImplementsGuest == Abs!Spec
------------------------------------------------------------------------------
(* The invariant behind it.                                                *)

\* The places of a call, by what GUEST_PID is there.
PidByPlace ==
    /\ pc \in {"prepare", "fork", "store", "clear", "cleared", "wiping"} => guestPid = NoGuest
    /\ pc = "wait" => guestPid # NoGuest
    /\ pc = "undo" => guestPid = cur /\ (SupAlive(cur) => sigSup[cur])

\* The pid just forked is that of a child not yet reaped, which has been told
\* nothing yet.
ForkedIsOwned ==
    /\ cur # NoGuest => cur \in own /\ process_alive(cur)
    /\ pc = "store" => ~sigSup[cur]

OwnAreForked == \A g \in own : sup[g] # "unborn"

\* A signal is pending for the living only.
ToldAlive == \A g \in Guest : sigSup[g] => SupAlive(g)

\* Without restarts and interrupted waits no supervisor is left behind.
NoneLeftBehind ==
    ~Restarts /\ ~Interrupts =>
        \A g \in Guest : SupAlive(g) => g = guestPid \/ (pc = "store" /\ cur = g)

GuestInv ==
    /\ TypeOK
    /\ GuestPidIsOwned /\ ForkedIsOwned /\ OwnAreForked /\ ToldAlive /\ PidByPlace
    /\ OneSupervisor /\ NoneLeftBehind
=============================================================================
