---------------------------- MODULE AbstractGuest ----------------------------
(***************************************************************************)
(* What start_guest and stop_guest (rust/src/guest.rs) promise their       *)
(* callers about supervisors: a start reports a guest only when no other   *)
(* one this life of the application has started goes on, a start that      *)
(* fails leaves none behind that goes on, and a guest is struck off only   *)
(* once it has ended.  A guest may end by itself at any time, and is then  *)
(* recorded as before.                                                     *)
(***************************************************************************)
CONSTANTS Guest, NoGuest

VARIABLES
    guest,    \* the guest last reported as started
    ours,     \* those forked in this life of the application
    life      \* what has become of each

vars == <<guest, ours, life>>

Init ==
    /\ guest = NoGuest /\ ours = {}
    /\ life = [g \in Guest |-> "unborn"]

Becomes(g, what) == life' = [life EXCEPT ![g] = what]

NoneGoesOn == \A g \in ours : life[g] # "going"

\* A new guest is reported; it may have ended already.
Started(g) ==
    /\ guest = NoGuest /\ NoneGoesOn /\ life[g] = "unborn"
    /\ guest' = g /\ ours' = ours \cup {g}
    /\ \E what \in {"going", "gone"} : Becomes(g, what)

\* A guest is forked and the start fails: it ends too.
NotStarted(g) ==
    /\ guest = NoGuest /\ NoneGoesOn /\ life[g] = "unborn"
    /\ ours' = ours \cup {g}
    /\ \E what \in {"ending", "gone"} : Becomes(g, what)
    /\ UNCHANGED guest

\* A stop has told it to end ...
Told(g) ==
    /\ guest = g /\ life[g] = "going"
    /\ Becomes(g, "ending")
    /\ UNCHANGED <<guest, ours>>

Ended(g) ==
    /\ life[g] \in {"going", "ending"}
    /\ Becomes(g, "gone")
    /\ UNCHANGED <<guest, ours>>

\* ... and succeeds when it has.
Stopped ==
    /\ guest # NoGuest /\ life[guest] = "gone"
    /\ guest' = NoGuest
    /\ UNCHANGED <<ours, life>>

\* The application dies, perhaps in a start whose guest then lives on.
Lost ==
    /\ guest' = NoGuest /\ ours' = {}
    /\ \/ UNCHANGED life
       \/ \E g \in Guest, what \in {"going", "gone"} :
            life[g] = "unborn" /\ Becomes(g, what)

Next ==
    \/ \E g \in Guest : Started(g) \/ NotStarted(g) \/ Told(g) \/ Ended(g)
    \/ Stopped \/ Lost

Spec == Init /\ [][Next]_vars
=============================================================================
