---------------------------- MODULE GuestRuntime ----------------------------
(***************************************************************************)
(* The guest runtime of the application process (rust/src/guest.rs): a     *)
(* supervisor process, which forks the payload and waits for it, and the   *)
(* calls that start and stop it.  The duress trigger (rust/src/lib.rs)     *)
(* stops the guest as well and then removes its files.                     *)
(*                                                                         *)
(* A Guest is one supervisor with the payload it forks.  All calls come    *)
(* from one thread of the application.  The application may die and be     *)
(* started again, GUEST_PID being lost; the guests live on as orphans.     *)
(* Of the runtime files only "status" is kept, which the application and   *)
(* the supervisor write; no process reads any of them.                     *)
(***************************************************************************)
EXTENDS Naturals

CONSTANTS
    Guest,       \* supervisors that can be forked; bounds the starts
    NoGuest,     \* GUEST_PID is 0
    Restarts,    \* whether the application may die and be started again
    Interrupts   \* whether waitpid may be interrupted

ASSUME GuestAssumption ==
    /\ NoGuest \notin Guest
    /\ Restarts \in BOOLEAN /\ Interrupts \in BOOLEAN

VARIABLES
    app,         \* the application process: "up" or "down"
    pc, op, cur, \* where its thread is, in which call, and the pid it forked
    guestPid,    \* GUEST_PID
    own,         \* the supervisors that are children of the application
    sup, pay,    \* where each supervisor and each payload is
    sigSup, sigPay, \* SIGTERM, of the application or of armed, is pending
    armed,       \* the payload gets SIGTERM when its supervisor ends
    tree, status \* instances/default exists; what its file "status" says

appVars == <<app, pc, op, cur, guestPid, own>>
procVars == <<sup, pay, sigSup, sigPay, armed>>
fileVars == <<tree, status>>
vars == <<appVars, procVars, fileVars>>

------------------------------------------------------------------------------
Absent == "absent"

\* One write of the status by a process at some place: what it writes, and the
\* place after it, the files of pids and of the payload included.
Write(v, next) == [value |-> v, next |-> next]

\* prepare_guest_filesystem, and the end of stop_guest.
AppWrites ==
    [prepare |-> Write("STOPPED", "fork"),
     clear   |-> Write("STOPPED", "cleared")]

\* run_supervisor: before its fork, after it, once the payload has ended, and
\* when fork or waitpid fails.
SupWrites ==
    [starting |-> Write("STARTING", "fork"),
     tell     |-> Write("RUNNING", "wait"),
     ended    |-> Write("STOPPED", "exit"),
     nofork   |-> Write("ERROR", "exit"),
     nowait   |-> Write("ERROR", "exit")]

SupLive == DOMAIN SupWrites \cup {"fork", "wait", "exit"}
PayLive == {"arm", "lockdown", "beat", "exit"}
SupAlive(g) == sup[g] \in SupLive
PayAlive(g) == pay[g] \in PayLive

\* Mutant of process_alive: EPERM and success are mixed up.
ProcessAliveDenied(g) == FALSE

\* kill(pid, 0) succeeds as long as the pid is in use, by a zombie too.
process_alive(g) == g # NoGuest /\ sup[g] \in SupLive \cup {"zombie"}

Init ==
    /\ app = "up" /\ pc = "idle" /\ op = "none" /\ cur = NoGuest
    /\ guestPid = NoGuest
    /\ own = {}
    /\ sup = [g \in Guest |-> "unborn"]
    /\ pay = [g \in Guest |-> "unborn"]
    /\ sigSup = [g \in Guest |-> FALSE]
    /\ sigPay = [g \in Guest |-> FALSE]
    /\ armed = [g \in Guest |-> FALSE]
    /\ tree = FALSE
    /\ status = Absent

\* fs::write and fs::remove_file fail when the directory is gone.
Put(w) == status' = IF tree THEN w.value ELSE status

\* Mutant of Return: the pid of the fork stays in hand after the call.
ReturnLeavesPid == pc' = "idle" /\ op' = "none" /\ cur' = cur

\* The call returns.
Return == pc' = "idle" /\ op' = "none" /\ cur' = NoGuest

------------------------------------------------------------------------------
(* start_guest.                                                            *)

StartPrepares ==
    /\ app = "up" /\ pc = "idle" /\ ~process_alive(guestPid)
    /\ pc' = "prepare" /\ op' = "start"
    /\ tree' \in {tree, TRUE}
    /\ UNCHANGED <<app, cur, guestPid, own, procVars, status>>

\* "already running": Ok(pid), and nothing else happens.
StartFindsRunning ==
    /\ app = "up" /\ pc = "idle" /\ process_alive(guestPid)
    /\ UNCHANGED vars

\* create_dir_all or the first write fails.
PrepareFails ==
    /\ app = "up" /\ pc = "prepare"
    /\ Return
    /\ UNCHANGED <<app, guestPid, own, procVars, fileVars>>

AppWrite ==
    /\ app = "up" /\ pc \in DOMAIN AppWrites
    /\ pc = "prepare" => tree
    /\ Put(AppWrites[pc])
    /\ pc' = AppWrites[pc].next
    /\ UNCHANGED <<app, op, cur, guestPid, own, procVars, tree>>

Fork(g) ==
    /\ app = "up" /\ pc = "fork" /\ sup[g] = "unborn"
    /\ sup' = [sup EXCEPT ![g] = "starting"]
    /\ own' = own \cup {g}
    /\ cur' = g
    /\ pc' = "store"
    /\ UNCHANGED <<app, op, guestPid, pay, sigSup, sigPay, armed, fileVars>>

ForkFails ==
    /\ app = "up" /\ pc = "fork"
    /\ Return
    /\ UNCHANGED <<app, guestPid, own, procVars, fileVars>>

\* GUEST_PID.store, and the pid file can be written.
Store ==
    /\ app = "up" /\ pc = "store"
    /\ guestPid' = cur
    /\ Return
    /\ UNCHANGED <<app, own, procVars, fileVars>>

\* It cannot: SIGTERM, waitpid, GUEST_PID back to 0.
StoreFails ==
    /\ app = "up" /\ pc = "store"
    /\ guestPid' = cur
    /\ sigSup' = [sigSup EXCEPT ![cur] = SupAlive(cur)]
    /\ pc' = "undo"
    /\ UNCHANGED <<app, op, cur, own, sup, pay, sigPay, armed, fileVars>>

UndoWait ==
    /\ app = "up" /\ pc = "undo" /\ sup[cur] = "zombie"
    /\ sup' = [sup EXCEPT ![cur] = "reaped"]
    /\ guestPid' = NoGuest
    /\ Return
    /\ UNCHANGED <<app, own, pay, sigSup, sigPay, armed, fileVars>>

UndoWaitInterrupted ==
    /\ Interrupts /\ app = "up" /\ pc = "undo" /\ sup[cur] # "zombie"
    /\ guestPid' = NoGuest
    /\ Return
    /\ UNCHANGED <<app, own, procVars, fileVars>>

------------------------------------------------------------------------------
(* stop_guest, called for itself or by the duress trigger.                 *)

\* Nothing is running, or the recorded supervisor is no longer there.
StopFindsNothing(o) ==
    /\ app = "up" /\ pc = "idle" /\ ~process_alive(guestPid)
    /\ guestPid' = NoGuest
    /\ pc' = "clear" /\ op' = o
    /\ UNCHANGED <<app, cur, own, procVars, fileVars>>

\* Mutant of StopTerminates: it only waits, as if the supervisor ended itself.
StopWithoutSignal(o) ==
    /\ app = "up" /\ pc = "idle" /\ process_alive(guestPid)
    /\ pc' = "wait" /\ op' = o
    /\ UNCHANGED <<app, cur, guestPid, own, sup, pay, sigSup, sigPay, armed, fileVars>>

\* Mutant of StopTerminates: SIGTERM is taken for the end of the supervisor.
StopWithoutWait(o) ==
    /\ app = "up" /\ pc = "idle" /\ process_alive(guestPid)
    /\ sigSup' = [sigSup EXCEPT ![guestPid] = SupAlive(guestPid)]
    /\ guestPid' = NoGuest
    /\ pc' = "clear" /\ op' = o
    /\ UNCHANGED <<app, cur, own, sup, pay, sigPay, armed, fileVars>>

StopTerminates(o) ==
    /\ app = "up" /\ pc = "idle" /\ process_alive(guestPid)
    /\ sigSup' = [sigSup EXCEPT ![guestPid] = SupAlive(guestPid)]
    /\ pc' = "wait" /\ op' = o
    /\ UNCHANGED <<app, cur, guestPid, own, sup, pay, sigPay, armed, fileVars>>

\* Mutant of StopWaits: GUEST_PID keeps the pid that was reaped.
StopKeepsPid ==
    /\ app = "up" /\ pc = "wait" /\ sup[guestPid] = "zombie"
    /\ sup' = [sup EXCEPT ![guestPid] = "reaped"]
    /\ pc' = "clear"
    /\ UNCHANGED <<app, op, cur, guestPid, own, pay, sigSup, sigPay, armed, fileVars>>

\* waitpid returns.  kill and waitpid cannot answer ESRCH, EPERM or ECHILD: the
\* pid is that of a child not yet reaped (GuestPidIsOwned).
StopWaits ==
    /\ app = "up" /\ pc = "wait" /\ sup[guestPid] = "zombie"
    /\ sup' = [sup EXCEPT ![guestPid] = "reaped"]
    /\ guestPid' = NoGuest
    /\ pc' = "clear"
    /\ UNCHANGED <<app, op, cur, own, pay, sigSup, sigPay, armed, fileVars>>

\* EINTR: Err, and GUEST_PID stays; the duress trigger gives up too.
StopWaitInterrupted ==
    /\ Interrupts /\ app = "up" /\ pc = "wait" /\ sup[guestPid] # "zombie"
    /\ Return
    /\ UNCHANGED <<app, guestPid, own, procVars, fileVars>>

Stopped ==
    /\ app = "up" /\ pc = "cleared" /\ op = "stop"
    /\ Return
    /\ UNCHANGED <<app, guestPid, own, procVars, fileVars>>

\* wipe_instances starts on the tree ...
WipeBegins ==
    /\ app = "up" /\ pc = "cleared" /\ op = "duress"
    /\ pc' = "wiping"
    /\ UNCHANGED <<app, op, cur, guestPid, own, procVars, fileVars>>

\* ... and has removed it, or has failed and leaves what is left.
WipeEnds ==
    /\ app = "up" /\ pc = "wiping"
    /\ Return
    /\ tree' \in {FALSE, tree}
    /\ status' \in {Absent, status}
    /\ tree' = FALSE => status' = Absent
    /\ UNCHANGED <<app, guestPid, own, procVars>>

------------------------------------------------------------------------------
(* The supervisor.                                                         *)

\* A supervisor ends: a zombie for the application, reaped by init without it;
\* the kernel signals the payload if that has asked for it.
SupEnds(g) ==
    /\ sup' = [sup EXCEPT ![g] = IF g \in own THEN "zombie" ELSE "reaped"]
    /\ sigSup' = [sigSup EXCEPT ![g] = FALSE]
    /\ sigPay' = [sigPay EXCEPT ![g] = @ \/ (armed[g] /\ PayAlive(g))]

SupWrite(g) ==
    /\ sup[g] \in DOMAIN SupWrites
    /\ sup[g] = "starting" => tree
    /\ Put(SupWrites[sup[g]])
    /\ sup' = [sup EXCEPT ![g] = SupWrites[@].next]
    /\ UNCHANGED <<appVars, pay, sigSup, sigPay, armed, tree>>

SupForks(g) ==
    /\ sup[g] = "fork"
    /\ pay' = [pay EXCEPT ![g] = "arm"]
    /\ sup' = [sup EXCEPT ![g] = "tell"]
    /\ UNCHANGED <<appVars, sigSup, sigPay, armed, fileVars>>

SupForkFails(g) ==
    /\ sup[g] = "fork"
    /\ sup' = [sup EXCEPT ![g] = "nofork"]
    /\ UNCHANGED <<appVars, pay, sigSup, sigPay, armed, fileVars>>

SupWaits(g) ==
    /\ sup[g] = "wait" /\ pay[g] = "dead"
    /\ sup' = [sup EXCEPT ![g] = "ended"]
    /\ UNCHANGED <<appVars, pay, sigSup, sigPay, armed, fileVars>>

SupWaitInterrupted(g) ==
    /\ Interrupts /\ sup[g] = "wait" /\ pay[g] # "dead"
    /\ sup' = [sup EXCEPT ![g] = "nowait"]
    /\ UNCHANGED <<appVars, pay, sigSup, sigPay, armed, fileVars>>

\* It is done, or could not write STARTING.
SupExits(g) ==
    /\ sup[g] \in {"exit", "starting"}
    /\ SupEnds(g)
    /\ UNCHANGED <<appVars, pay, armed, fileVars>>

SupDies(g) ==
    /\ sigSup[g] /\ SupAlive(g)
    /\ SupEnds(g)
    /\ UNCHANGED <<appVars, pay, armed, fileVars>>

------------------------------------------------------------------------------
(* The payload.                                                            *)

\* prctl(PR_SET_PDEATHSIG) tells of a death still to come; it may fail, which
\* is logged.
PayArms(g) ==
    /\ pay[g] = "arm"
    /\ armed' \in {armed, [armed EXCEPT ![g] = TRUE]}
    /\ pay' = [pay EXCEPT ![g] = "lockdown"]
    /\ UNCHANGED <<appVars, sup, sigSup, sigPay, fileVars>>

\* no_new_privs, seccomp and the check of the boundary: it goes on to the
\* bootstrap, whose heartbeat writes for ever, or it exits.
PayLocksDown(g) ==
    /\ pay[g] = "lockdown"
    /\ \E place \in {"beat", "exit"} : pay' = [pay EXCEPT ![g] = place]
    /\ UNCHANGED <<appVars, sup, sigSup, sigPay, armed, fileVars>>

PayGone(g) ==
    /\ pay' = [pay EXCEPT ![g] = "dead"]
    /\ sigPay' = [sigPay EXCEPT ![g] = FALSE]

\* It exits, or the signal of its supervisor's end stops it.
PayEnds(g) ==
    /\ pay[g] = "exit" \/ (sigPay[g] /\ PayAlive(g))
    /\ PayGone(g)
    /\ UNCHANGED <<appVars, sup, sigSup, armed, fileVars>>

------------------------------------------------------------------------------
(* Around the runtime.                                                     *)

\* Android kills a process of the guest.
SupKilled(g) ==
    /\ SupAlive(g)
    /\ SupEnds(g)
    /\ UNCHANGED <<appVars, pay, armed, fileVars>>

PayKilled(g) ==
    /\ PayAlive(g)
    /\ PayGone(g)
    /\ UNCHANGED <<appVars, sup, sigSup, armed, fileVars>>

\* The application dies; init adopts the supervisors and reaps the zombies.
AppDies ==
    /\ Restarts /\ app = "up"
    /\ app' = "down" /\ Return
    /\ guestPid' = NoGuest
    /\ own' = {}
    /\ sup' = [g \in Guest |-> IF sup[g] = "zombie" THEN "reaped" ELSE sup[g]]
    /\ UNCHANGED <<pay, sigSup, sigPay, armed, fileVars>>

AppRestarts ==
    /\ app = "down"
    /\ app' = "up"
    /\ UNCHANGED <<pc, op, cur, guestPid, own, procVars, fileVars>>

------------------------------------------------------------------------------
Start == StartPrepares \/ StartFindsRunning
Stop(o) == StopFindsNothing(o) \/ StopTerminates(o)

\* The steps of a call that has begun.
CallStep ==
    \/ PrepareFails \/ AppWrite \/ ForkFails \/ Store \/ StoreFails
    \/ \E g \in Guest : Fork(g)
    \/ UndoWait \/ StopWaits \/ Stopped \/ WipeBegins \/ WipeEnds

SupStep(g) ==
    \/ SupWrite(g) \/ SupForks(g) \/ SupForkFails(g) \/ SupWaits(g)
    \/ SupExits(g) \/ SupDies(g)

PayStep(g) == PayArms(g) \/ PayLocksDown(g) \/ PayEnds(g)

Next ==
    \/ Start
    \/ \E o \in {"stop", "duress"} : Stop(o)
    \/ CallStep
    \/ UndoWaitInterrupted \/ StopWaitInterrupted
    \/ \E g \in Guest :
        \/ SupStep(g) \/ PayStep(g)
        \/ SupWaitInterrupted(g) \/ SupKilled(g) \/ PayKilled(g)
    \/ AppDies \/ AppRestarts

Spec == Init /\ [][Next]_vars

(* Fairness: the thread goes on with its call, and the kernel schedules the *)
(* processes of the guest and delivers the signals it has queued.           *)
FairSpec ==
    /\ Spec
    /\ WF_vars(CallStep)
    /\ \A g \in Guest : WF_vars(SupStep(g)) /\ WF_vars(SupDies(g)) /\ WF_vars(PayStep(g))

\* Besides, somebody keeps pressing "Start guest".
PatientSpec == FairSpec /\ WF_vars(Start)

------------------------------------------------------------------------------
(* Safety.                                                                 *)

\* The types of all variables; a pid is in hand only between fork and return,
\* and a call is in progress only while the application lives.
TypeOK ==
    /\ app \in {"up", "down"}
    /\ pc \in DOMAIN AppWrites \cup {"idle", "fork", "store", "undo", "wait", "cleared", "wiping"}
    /\ op \in {"none", "start", "stop", "duress"}
    /\ cur \in Guest \cup {NoGuest} /\ guestPid \in Guest \cup {NoGuest}
    /\ cur # NoGuest <=> pc \in {"store", "undo"}
    /\ op = "none" <=> pc = "idle"
    /\ app = "down" => pc = "idle"
    /\ own \subseteq Guest
    /\ sup \in [Guest -> SupLive \cup {"unborn", "zombie", "reaped"}]
    /\ pay \in [Guest -> PayLive \cup {"unborn", "dead"}]
    /\ sigSup \in [Guest -> BOOLEAN] /\ sigPay \in [Guest -> BOOLEAN]
    /\ armed \in [Guest -> BOOLEAN]
    /\ tree \in BOOLEAN
    /\ status \in {Absent, "STOPPED", "STARTING", "RUNNING", "ERROR"}

\* In one life of the application at most one supervisor goes on: any other it
\* has forked is about to end, also after failed writes and interrupted waits.
OneSupervisor ==
    \A g \in own : SupAlive(g) =>
        g = guestPid \/ sigSup[g] \/ (pc = "store" /\ cur = g)

\* The pid stop_guest signals and waits for is that of a child not yet reaped.
GuestPidIsOwned ==
    guestPid # NoGuest => guestPid \in own /\ process_alive(guestPid)

\* stop_guest has the last word on the status: while no supervisor is recorded
\* and no call is under way, nobody writes it (without restarts and interrupted
\* waits, which leave supervisors behind).  The next start begins from it.
StatusRests ==
    [][~Restarts /\ ~Interrupts /\ pc = "idle" /\ guestPid = NoGuest =>
        UNCHANGED status]_vars

------------------------------------------------------------------------------
(* Liveness.                                                               *)

\* Every call returns: the wait for the supervisor has no timeout, but ends
\* because nothing holds back the SIGTERM sent before (under FairSpec).
CallsReturn == pc # "idle" ~> pc = "idle"

------------------------------------------------------------------------------
(* What the repository says of the runtime and does not hold.              *)

\* "Stop the guest before touching its filesystem" (lib.rs:663): no process of
\* the guest runs while its files are removed.
WipeFindsGuestStopped ==
    pc = "wiping" => \A g \in own : ~SupAlive(g) /\ ~PayAlive(g)

\* start_guest takes a guest for "already running" (guest.rs:599) only while it
\* is: somebody who keeps calling it does not find a dead one for ever.
DeadGuestIsNoticed ==
    \A g \in Guest : sup[g] = "zombie" /\ pay[g] = "dead" ~> sup[g] # "zombie"
=============================================================================
