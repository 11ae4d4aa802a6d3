------------------------- MODULE GuestRuntimeProofs -------------------------
(***************************************************************************)
(* Proofs about the guest runtime, for any number of supervisors, with or  *)
(* without restarts of the application and interrupted waits.  GuestInv is *)
(* its inductive invariant: what each place of a call knows of GUEST_PID   *)
(* and of the pid just forked, and which supervisors may go on.            *)
(***************************************************************************)
EXTENDS GuestRefinement, TLAPS

USE GuestAssumption DEF GuestAssumption

------------------------------------------------------------------------------
\* The initial state.
LEMMA GuestInit == Init => GuestInv
  BY DEF Init, GuestInv, TypeOK, GuestPidIsOwned, ForkedIsOwned, OwnAreForked, ToldAlive,
         PidByPlace, OneSupervisor, NoneLeftBehind, SupAlive, SupLive, PayLive, AppWrites,
         SupWrites, Absent

\* Every step of a call.
LEMMA CallKeeps ==
  ASSUME GuestInv,
         \/ Start \/ CallStep \/ UndoWaitInterrupted \/ StopWaitInterrupted
         \/ \E o \in {"stop", "duress"} : Stop(o)
  PROVE  GuestInv'
  <1> USE DEF GuestInv, TypeOK, GuestPidIsOwned, ForkedIsOwned, OwnAreForked, ToldAlive, PidByPlace,
              OneSupervisor, NoneLeftBehind, SupAlive, SupLive, PayLive, SupWrites, AppWrites,
              Write, Absent,
              process_alive, Return, appVars, procVars, fileVars
  <1>1. CASE StartPrepares BY <1>1 DEF StartPrepares
  <1>2. CASE StartFindsRunning BY <1>2 DEF StartFindsRunning, vars
  <1>3. CASE PrepareFails BY <1>3 DEF PrepareFails
  <1>4. CASE AppWrite BY <1>4 DEF AppWrite, Put
  <1>5. CASE ForkFails BY <1>5 DEF ForkFails
  <1>6. CASE Store BY <1>6 DEF Store
  <1>7. CASE StoreFails
    <2>1. cur \in Guest /\ SupAlive(cur) \in BOOLEAN BY <1>7 DEF StoreFails
    <2>2. /\ sigSup' \in [Guest -> BOOLEAN] /\ sigSup'[cur] = SupAlive(cur)
          /\ \A g \in Guest \ {cur} : sigSup'[g] = sigSup[g]
      BY <1>7, <2>1 DEF StoreFails
    <2>3. TypeOK' BY <1>7, <2>1, <2>2 DEF StoreFails
    <2>4. /\ pc = "store" /\ pc' = "undo" /\ cur' = cur /\ guestPid' = cur
          /\ UNCHANGED <<sup, own>> /\ \A g \in Guest : SupAlive(g)' <=> SupAlive(g)
      BY <1>7 DEF StoreFails
    <2>5. GuestPidIsOwned' /\ ForkedIsOwned' BY <1>7, <2>1 DEF StoreFails
    <2>9. ToldAlive' /\ OwnAreForked' BY <2>1, <2>2, <2>4
    <2>6. PidByPlace' BY <2>1, <2>2, <2>4
    <2>7. OneSupervisor' BY <2>1, <2>2, <2>4
    <2>8. NoneLeftBehind' BY <2>1, <2>4
    <2> HIDE DEF TypeOK, PidByPlace, OneSupervisor, NoneLeftBehind, GuestPidIsOwned, ForkedIsOwned,
             OwnAreForked, ToldAlive
    <2> QED BY <2>3, <2>5, <2>6, <2>7, <2>8, <2>9 DEF GuestInv
  <1>8. ASSUME NEW g \in Guest, Fork(g) PROVE GuestInv' BY <1>8 DEF Fork
  <1>9. CASE UndoWait BY <1>9 DEF UndoWait
  <1>10. CASE StopWaits BY <1>10 DEF StopWaits
  <1>11. CASE Stopped BY <1>11 DEF Stopped
  <1>12. CASE WipeBegins BY <1>12 DEF WipeBegins
  <1>13. CASE WipeEnds BY <1>13 DEF WipeEnds
  <1>14. CASE UndoWaitInterrupted BY <1>14 DEF UndoWaitInterrupted
  <1>15. CASE StopWaitInterrupted BY <1>15 DEF StopWaitInterrupted
  <1>16. ASSUME NEW o \in {"stop", "duress"}, StopFindsNothing(o) PROVE GuestInv'
    BY <1>16 DEF StopFindsNothing
  <1>17. ASSUME NEW o \in {"stop", "duress"}, StopTerminates(o) PROVE GuestInv'
    BY <1>17 DEF StopTerminates
  <1> QED
    BY <1>1, <1>2, <1>3, <1>4, <1>5, <1>6, <1>7, <1>8, <1>9, <1>10, <1>11, <1>12, <1>13,
       <1>14, <1>15, <1>16, <1>17 DEF Start, CallStep, Stop

\* Every step of a supervisor.
LEMMA SupKeeps ==
  ASSUME GuestInv, NEW g \in Guest,
         SupStep(g) \/ SupWaitInterrupted(g) \/ SupKilled(g)
  PROVE  GuestInv'
  <1> USE DEF GuestInv, TypeOK, GuestPidIsOwned, ForkedIsOwned, OwnAreForked, ToldAlive, PidByPlace,
              OneSupervisor, NoneLeftBehind, SupAlive, SupLive, PayLive, SupWrites, AppWrites,
              Write, Absent,
              process_alive, appVars, procVars, fileVars
  <1>1. CASE SupWrite(g) BY <1>1 DEF SupWrite, Put
  <1>2. CASE SupForks(g) BY <1>2 DEF SupForks
  <1>3. CASE SupForkFails(g) BY <1>3 DEF SupForkFails
  <1>4. CASE SupWaits(g) BY <1>4 DEF SupWaits
  <1>5. CASE SupWaitInterrupted(g) BY <1>5 DEF SupWaitInterrupted
  <1>6. ASSUME SupEnds(g), SupAlive(g), UNCHANGED <<appVars, pay, armed, fileVars>>
        PROVE  GuestInv'
    BY <1>6 DEF SupEnds, PayAlive
  <1>7. CASE SupExits(g) BY <1>6, <1>7 DEF SupExits
  <1>8. CASE SupDies(g) BY <1>6, <1>8 DEF SupDies
  <1>9. CASE SupKilled(g) BY <1>6, <1>9 DEF SupKilled
  <1> QED BY <1>1, <1>2, <1>3, <1>4, <1>5, <1>7, <1>8, <1>9 DEF SupStep

\* Every step of a payload, and the death and restart of the application.
LEMMA WorldKeeps ==
  ASSUME GuestInv,
         \/ \E g \in Guest : PayStep(g) \/ PayKilled(g)
         \/ AppDies \/ AppRestarts
  PROVE  GuestInv'
  <1> USE DEF GuestInv, TypeOK, GuestPidIsOwned, ForkedIsOwned, OwnAreForked, ToldAlive, PidByPlace,
              OneSupervisor, NoneLeftBehind, SupAlive, SupLive, PayLive, SupWrites, AppWrites,
              process_alive, Return, appVars, procVars, fileVars
  <1>1. ASSUME NEW g \in Guest, PayArms(g) PROVE GuestInv'
    <2>1. armed' \in [Guest -> BOOLEAN] BY <1>1 DEF PayArms
    <2>2. TypeOK' BY <1>1, <2>1 DEF PayArms
    <2>3. /\ GuestPidIsOwned' /\ ForkedIsOwned' /\ OwnAreForked' /\ ToldAlive' /\ PidByPlace'
          /\ OneSupervisor' /\ NoneLeftBehind'
      BY <1>1 DEF PayArms
    <2> HIDE DEF TypeOK, PidByPlace, OneSupervisor, NoneLeftBehind, GuestPidIsOwned, ForkedIsOwned,
             OwnAreForked, ToldAlive
    <2> QED BY <2>2, <2>3 DEF GuestInv
  <1>2. ASSUME NEW g \in Guest, PayLocksDown(g) PROVE GuestInv' BY <1>2 DEF PayLocksDown
  <1>3. ASSUME NEW g \in Guest, PayEnds(g) PROVE GuestInv' BY <1>3 DEF PayEnds, PayGone
  <1>4. ASSUME NEW g \in Guest, PayKilled(g) PROVE GuestInv' BY <1>4 DEF PayKilled, PayGone
  <1>5. CASE AppDies BY <1>5 DEF AppDies
  <1>6. CASE AppRestarts BY <1>6 DEF AppRestarts
  <1> QED BY <1>1, <1>2, <1>3, <1>4, <1>5, <1>6 DEF PayStep

\* GuestInv holds in every reachable state.
THEOREM GuestInvariance == Spec => []GuestInv
  <1>1. ASSUME GuestInv, [Next]_vars PROVE GuestInv'
    <2>1. CASE UNCHANGED vars
      BY <1>1, <2>1 DEF vars, appVars, procVars, fileVars, GuestInv, TypeOK, GuestPidIsOwned,
         ForkedIsOwned, OwnAreForked, ToldAlive, PidByPlace, OneSupervisor,
         NoneLeftBehind, SupAlive, process_alive
    <2> QED BY <1>1, <2>1, CallKeeps, SupKeeps, WorldKeeps DEF Next
  <1> QED BY GuestInit, <1>1, PTL DEF Spec

------------------------------------------------------------------------------
\* All variables keep their types, and a forked pid is in hand only between the
\* fork and the return of start_guest.
THEOREM GuestTypes == Spec => []TypeOK
  <1>1. GuestInv => TypeOK BY DEF GuestInv
  <1> QED BY GuestInvariance, <1>1, PTL

\* In one life of the application at most one supervisor goes on.
THEOREM SingleSupervisor == Spec => []OneSupervisor
  <1>1. GuestInv => OneSupervisor BY DEF GuestInv
  <1> QED BY GuestInvariance, <1>1, PTL

\* stop_guest signals and waits for its own, unreaped child.
THEOREM GuestPidOwned == Spec => []GuestPidIsOwned
  <1>1. GuestInv => GuestPidIsOwned BY DEF GuestInv
  <1> QED BY GuestInvariance, <1>1, PTL

\* After a stop nobody writes the status until the next start.
THEOREM StatusAtRest == Spec => StatusRests
  <1>1. ASSUME GuestInv, [Next]_vars, ~Restarts, ~Interrupts, pc = "idle", guestPid = NoGuest
        PROVE  UNCHANGED status
    <2>1. \A g \in Guest : ~SupAlive(g)
      BY <1>1 DEF GuestInv, NoneLeftBehind, TypeOK
    <2>2. ASSUME NEW g \in Guest, SupWrite(g) PROVE FALSE
      BY <2>1, <2>2 DEF SupWrite, SupAlive, SupLive
    <2>3. CASE UNCHANGED vars BY <2>3 DEF vars, fileVars
    <2>4. CASE Start \/ \E o \in {"stop", "duress"} : Stop(o)
      BY <2>4 DEF Start, StartPrepares, StartFindsRunning, Stop, StopFindsNothing,
         StopTerminates, vars, fileVars
    <2>5. CASE CallStep \/ UndoWaitInterrupted \/ StopWaitInterrupted
      BY <1>1, <2>5 DEF CallStep, PrepareFails, AppWrite, ForkFails, Store, StoreFails, Fork,
         UndoWait, StopWaits, Stopped, WipeBegins, WipeEnds, UndoWaitInterrupted,
         StopWaitInterrupted, AppWrites
    <2>6. ASSUME NEW g \in Guest,
                 SupStep(g) \/ PayStep(g) \/ SupWaitInterrupted(g) \/ SupKilled(g) \/ PayKilled(g)
          PROVE  UNCHANGED status
      BY <2>2, <2>6 DEF SupStep, SupForks, SupForkFails, SupWaits, SupExits, SupDies, PayStep,
         PayArms, PayLocksDown, PayEnds, SupWaitInterrupted, SupKilled, PayKilled, fileVars
    <2>7. CASE AppDies \/ AppRestarts BY <2>7 DEF AppDies, AppRestarts, fileVars
    <2> QED BY <1>1, <2>3, <2>4, <2>5, <2>6, <2>7 DEF Next
  <1>2. GuestInv /\ [Next]_vars =>
          [~Restarts /\ ~Interrupts /\ pc = "idle" /\ guestPid = NoGuest => UNCHANGED status]_vars
    BY <1>1
  <1> QED BY GuestInvariance, <1>2, PTL DEF Spec, StatusRests
------------------------------------------------------------------------------
(* The refinement of AbstractGuest.                                        *)

\* What decides of a life, without the order in which LifeOf asks.
LEMMA Lives ==
  ASSUME TypeOK, NEW g \in Guest
  PROVE  /\ Secret(g) => LifeOf(g) = "unborn"
         /\ ~Secret(g) =>
              /\ sup[g] = "unborn" => LifeOf(g) = "unborn"
              /\ SupAlive(g) /\ sigSup[g] => LifeOf(g) = "ending"
              /\ SupAlive(g) /\ ~sigSup[g] => LifeOf(g) = "going"
              /\ sup[g] \in {"zombie", "reaped"} => LifeOf(g) = "gone"
  BY DEF LifeOf, SupAlive, SupLive, SupWrites

\* The lives of the abstract specification, and a change of one of them.
LEMMA OneLife ==
  ASSUME NEW g \in Guest, \A h \in Guest \ {g} : LifeOf(h)' = LifeOf(h)
  PROVE  AbsLife' = [AbsLife EXCEPT ![g] = LifeOf(g)']
  BY DEF AbsLife

LEMMA SameLives ==
  ASSUME \A h \in Guest : LifeOf(h)' = LifeOf(h)
  PROVE  AbsLife' = AbsLife
  BY DEF AbsLife

\* A step that concerns neither a start about to be decided nor any supervisor
\* is none.
LEMMA ElsewhereStutters ==
  ASSUME UNCHANGED <<guestPid, own, sup, sigSup>>,
         {pc, pc'} \cap {"store", "undo"} = {}
  PROVE  UNCHANGED Abs!vars
  <1>1. \A h \in Guest : LifeOf(h)' = LifeOf(h) /\ ~Secret(h) /\ ~Secret(h)'
    BY DEF LifeOf, Secret, SupAlive
  <1>2. AbsLife' = AbsLife BY <1>1, SameLives
  <1>3. AbsGuest' = AbsGuest BY DEF AbsGuest
  <1>4. AbsOurs' = AbsOurs BY DEF AbsOurs, Secret
  <1> QED BY <1>2, <1>3, <1>4 DEF Abs!vars

\* Nor is one that leaves all of these alone.
LEMMA SameStutters ==
  ASSUME UNCHANGED <<guestPid, own, sup, sigSup, pc, cur>>
  PROVE  UNCHANGED Abs!vars
  <1>1. \A h \in Guest : LifeOf(h)' = LifeOf(h) BY DEF LifeOf, Secret, SupAlive
  <1> QED BY <1>1, SameLives DEF Abs!vars, AbsGuest, AbsOurs, Secret

\* A step of one supervisor, or of what waits for it, while the calls stay
\* where they are: its life goes on or ends.
LEMMA SupervisorMaps ==
  ASSUME GuestInv, GuestInv', UNCHANGED <<pc, cur, guestPid, own>>, NEW g \in Guest,
         \A h \in Guest \ {g} : sup'[h] = sup[h] /\ sigSup'[h] = sigSup[h],
         sup[g] # "unborn", sup'[g] # "unborn",
         \/ SupAlive(g) /\ SupAlive(g)' /\ sigSup'[g] = sigSup[g]
         \/ ~SupAlive(g)'
  PROVE  [Abs!Next]_(Abs!vars)
  <1>1. \A h \in Guest : Secret(h)' <=> Secret(h) BY DEF Secret
  <1>2. AbsGuest' = AbsGuest /\ AbsOurs' = AbsOurs BY DEF AbsGuest, AbsOurs, Secret
  <1>3. \A h \in Guest \ {g} : LifeOf(h)' = LifeOf(h)
    BY <1>1 DEF LifeOf, SupAlive
  <1>4. AbsLife' = [AbsLife EXCEPT ![g] = LifeOf(g)'] BY <1>3, OneLife
  <1>5. AbsLife[g] = LifeOf(g) BY DEF AbsLife
  <1>6. TypeOK /\ TypeOK' BY DEF GuestInv
  <1>7. LifeOf(g)' = LifeOf(g) \/ (LifeOf(g) \in {"going", "ending"} /\ LifeOf(g)' = "gone")
    BY <1>1, <1>6 DEF LifeOf, SupAlive, TypeOK
  <1>8. CASE LifeOf(g)' = LifeOf(g)
    <2>1. AbsLife' = AbsLife BY <1>3, <1>8, SameLives
    <2> QED BY <1>2, <2>1 DEF Abs!vars
  <1>9. CASE LifeOf(g) \in {"going", "ending"} /\ LifeOf(g)' = "gone"
    <2>1. Abs!Ended(g) BY <1>2, <1>4, <1>5, <1>9 DEF Abs!Ended, Abs!Becomes
    <2> QED BY <2>1 DEF Abs!Next
  <1> QED BY <1>7, <1>8, <1>9

\* A start is decided when its pid is stored.
LEMMA StartMaps ==
  ASSUME GuestInv, GuestInv', Store \/ StoreFails PROVE Abs!Next
  <1>1. /\ pc = "store" /\ pc' \in {"idle", "undo"} /\ cur \in Guest /\ cur \in own
        /\ guestPid = NoGuest /\ guestPid' = cur /\ UNCHANGED <<own, sup>>
        /\ sup[cur] \in SupLive \cup {"zombie"}
        /\ ~sigSup[cur]
    <2>1. pc = "store" /\ guestPid' = cur /\ UNCHANGED <<own, sup>> /\ pc' \in {"idle", "undo"}
      BY DEF Store, StoreFails, Return, procVars
    <2>2. cur # NoGuest /\ cur \in Guest BY <2>1 DEF GuestInv, TypeOK
    <2> QED BY <2>1, <2>2 DEF GuestInv, PidByPlace, ForkedIsOwned, process_alive
  <1>2. PICK g \in Guest : g = cur BY <1>1
  <1>3. \A h \in Guest : (Secret(h) <=> h = g) /\ ~Secret(h)' BY <1>1, <1>2 DEF Secret
  <1>4. TypeOK /\ TypeOK' BY DEF GuestInv
  <1>5. \A h \in Guest \ {g} : sigSup'[h] = sigSup[h]
    BY <1>1, <1>2, <1>4 DEF Store, StoreFails, procVars, TypeOK
  <1>6. \A h \in Guest \ {g} : LifeOf(h)' = LifeOf(h)
    BY <1>1, <1>3, <1>5 DEF LifeOf, SupAlive
  <1>7. AbsLife' = [AbsLife EXCEPT ![g] = LifeOf(g)'] BY <1>6, OneLife
  <1>8. AbsLife[g] = "unborn" BY <1>3, <1>4, Lives DEF AbsLife
  <1>9. AbsGuest = NoGuest /\ AbsOurs' = AbsOurs \cup {g}
    BY <1>1, <1>2, <1>3, <1>4 DEF AbsGuest, AbsOurs, TypeOK
  <1>10. Abs!NoneGoesOn
    <2> SUFFICES ASSUME NEW h \in AbsOurs PROVE AbsLife[h] # "going" BY DEF Abs!NoneGoesOn
    <2>1. h \in Guest /\ h \in own /\ h # cur BY <1>2, <1>3, <1>4 DEF AbsOurs, TypeOK
    <2>2. SupAlive(h) => sigSup[h] BY <1>1, <2>1 DEF GuestInv, OneSupervisor
    <2> QED BY <1>2, <1>3, <2>1, <2>2 DEF AbsLife, LifeOf
  <1>11. sup'[g] = sup[g] /\ sup[g] \in SupLive \cup {"zombie"} /\ ~sigSup[g]
    BY <1>1, <1>2
  <1>12. CASE Store
    <2>1. AbsGuest' = g BY <1>1, <1>2, <1>12 DEF AbsGuest, Store, Return
    <2>2. ~sigSup'[g] BY <1>11, <1>12 DEF Store, procVars
    <2>3. LifeOf(g)' \in {"going", "gone"}
      BY <1>3, <1>11, <2>2 DEF LifeOf, SupLive, SupWrites
    <2> QED BY <1>7, <1>8, <1>9, <1>10, <2>1, <2>3 DEF Abs!Next, Abs!Started, Abs!Becomes
  <1>13. CASE StoreFails
    <2>1. AbsGuest' = AbsGuest BY <1>9, <1>13 DEF AbsGuest, StoreFails
    <2>2. SupAlive(g)' => sigSup'[g]
      BY <1>2, <1>4, <1>11, <1>13 DEF StoreFails, SupAlive, TypeOK
    <2>3. LifeOf(g)' \in {"ending", "gone"}
      BY <1>3, <1>11, <2>2 DEF LifeOf, SupLive, SupWrites
    <2> QED BY <1>7, <1>8, <1>9, <1>10, <2>1, <2>3 DEF Abs!Next, Abs!NotStarted, Abs!Becomes
  <1> QED BY <1>12, <1>13

\* A stop tells the recorded supervisor to end, unless it has been told before
\* or is a zombie.
LEMMA TellMaps ==
  ASSUME GuestInv, GuestInv', NEW o, StopTerminates(o) PROVE [Abs!Next]_(Abs!vars)
  <1>1. PICK g \in Guest : g = guestPid
    BY DEF GuestInv, TypeOK, process_alive, StopTerminates
  <1>2. /\ pc = "idle" /\ pc' = "wait" /\ guestPid' = g
        /\ UNCHANGED <<own, sup>> /\ sup[g] \in SupLive \cup {"zombie"}
    BY <1>1 DEF process_alive, StopTerminates
  <1>3. \A h \in Guest : ~Secret(h) /\ ~Secret(h)' BY <1>2 DEF Secret
  <1>4. TypeOK /\ sigSup' = [sigSup EXCEPT ![g] = SupAlive(g)]
    BY <1>1 DEF GuestInv, StopTerminates
  <1>5. \A h \in Guest \ {g} : LifeOf(h)' = LifeOf(h)
    BY <1>2, <1>3, <1>4 DEF LifeOf, SupAlive, TypeOK
  <1>6. AbsLife' = [AbsLife EXCEPT ![g] = LifeOf(g)'] BY <1>5, OneLife
  <1>7. AbsGuest = g /\ AbsGuest' = AbsGuest /\ AbsOurs' = AbsOurs
    BY <1>1, <1>2 DEF AbsGuest, AbsOurs, Secret
  <1>8. AbsLife[g] = LifeOf(g) BY DEF AbsLife
  <1>9. sigSup'[g] = SupAlive(g) BY <1>4 DEF TypeOK
  <1>10. CASE SupAlive(g) /\ ~sigSup[g]
    <2>1. LifeOf(g) = "going" BY <1>3, <1>4, <1>10, Lives
    <2>2. LifeOf(g)' = "ending"
      BY <1>2, <1>3, <1>9, <1>10 DEF LifeOf, SupAlive, SupLive, SupWrites
    <2>3. Abs!Told(g) BY <1>6, <1>7, <1>8, <2>1, <2>2 DEF Abs!Told, Abs!Becomes
    <2> QED BY <2>3 DEF Abs!Next
  <1>11. CASE ~(SupAlive(g) /\ ~sigSup[g])
    <2>1. LifeOf(g)' = LifeOf(g)
      BY <1>2, <1>3, <1>9, <1>11 DEF LifeOf, SupAlive
    <2>2. AbsLife' = AbsLife
      <3>1. \A h \in Guest : LifeOf(h)' = LifeOf(h) BY <1>5, <2>1
      <3> QED BY <3>1, SameLives
    <2> QED BY <1>7, <2>2 DEF Abs!vars
  <1> QED BY <1>10, <1>11

\* A supervisor that has been waited for is struck off; where its start is being
\* undone nobody has heard of it.
LEMMA WaitMaps ==
  ASSUME GuestInv, GuestInv', StopWaits \/ UndoWait \/ UndoWaitInterrupted
  PROVE  [Abs!Next]_(Abs!vars)
  <1>1. /\ pc \in {"wait", "undo"} /\ pc' \in {"clear", "idle"} /\ guestPid \in Guest
        /\ guestPid' = NoGuest /\ UNCHANGED <<own, sigSup>> /\ (pc = "undo" => cur = guestPid)
        /\ \/ sup[guestPid] = "zombie" /\ sup' = [sup EXCEPT ![guestPid] = "reaped"]
           \/ pc = "undo" /\ sup' = sup
    BY DEF GuestInv, TypeOK, PidByPlace, StopWaits, UndoWait, UndoWaitInterrupted, Return, procVars
  <1>2. \A h \in Guest : ~Secret(h) /\ ~Secret(h)' BY <1>1 DEF Secret
  <1>3. TypeOK BY DEF GuestInv
  <1>4. \A h \in Guest : LifeOf(h)' = LifeOf(h)
    BY <1>1, <1>2, <1>3 DEF LifeOf, SupAlive, SupLive, SupWrites, TypeOK
  <1>5. AbsLife' = AbsLife BY <1>4, SameLives
  <1>6. AbsGuest' = NoGuest /\ AbsOurs' = AbsOurs BY <1>1 DEF AbsGuest, AbsOurs, Secret
  <1>7. CASE pc = "undo" BY <1>5, <1>6, <1>7 DEF Abs!vars, AbsGuest
  <1>8. CASE pc = "wait"
    <2>1. AbsGuest = guestPid BY <1>8 DEF AbsGuest
    <2>2. AbsLife[guestPid] = "gone"
      BY <1>1, <1>2, <1>3, <1>8, Lives DEF AbsLife
    <2>3. Abs!Stopped BY <1>1, <1>5, <1>6, <2>1, <2>2 DEF Abs!Stopped
    <2> QED BY <2>3 DEF Abs!Next
  <1> QED BY <1>1, <1>7, <1>8

\* A fork is nobody's business yet.
LEMMA ForkMaps ==
  ASSUME GuestInv, GuestInv', NEW g \in Guest, Fork(g) PROVE UNCHANGED Abs!vars
  <1>1. /\ pc = "fork" /\ pc' = "store" /\ cur' = g /\ sup[g] = "unborn"
        /\ UNCHANGED <<guestPid, sigSup>> /\ own' = own \cup {g}
        /\ \A h \in Guest \ {g} : sup'[h] = sup[h]
    BY DEF Fork, GuestInv, TypeOK
  <1>2. \A h \in Guest : ~Secret(h) /\ (Secret(h)' <=> h = g) BY <1>1 DEF Secret
  <1>3. \A h \in Guest : LifeOf(h)' = LifeOf(h)
    BY <1>1, <1>2 DEF LifeOf, SupAlive, SupLive, SupWrites
  <1>4. g \notin own
    BY <1>1 DEF GuestInv, OwnAreForked
  <1>5. AbsOurs' = AbsOurs BY <1>1, <1>4 DEF AbsOurs, Secret
  <1> QED BY <1>1, <1>3, <1>5, SameLives DEF Abs!vars, AbsGuest

\* The death of the application loses all of it.
LEMMA DeathMaps ==
  ASSUME GuestInv, GuestInv', AppDies PROVE Abs!Next
  <1>1. /\ pc' = "idle" /\ guestPid' = NoGuest /\ own' = {} /\ UNCHANGED sigSup
        /\ sup' = [h \in Guest |-> IF sup[h] = "zombie" THEN "reaped" ELSE sup[h]]
    BY DEF AppDies, Return
  <1>2. \A h \in Guest : ~Secret(h)' BY <1>1 DEF Secret
  <1>3. TypeOK BY DEF GuestInv
  <1>4. \A h \in Guest : ~Secret(h) => LifeOf(h)' = LifeOf(h)
    BY <1>1, <1>2, <1>3 DEF LifeOf, SupAlive, SupLive, SupWrites, TypeOK
  <1>5. AbsGuest' = NoGuest /\ AbsOurs' = {} BY <1>1 DEF AbsGuest, AbsOurs
  <1>6. CASE pc # "store"
    <2>1. \A h \in Guest : LifeOf(h)' = LifeOf(h) BY <1>4, <1>6 DEF Secret
    <2>2. AbsLife' = AbsLife BY <2>1, SameLives
    <2> QED BY <1>5, <2>2 DEF Abs!Next, Abs!Lost
  <1>7. CASE pc = "store"
    <2>1. PICK g \in Guest : g = cur BY <1>7 DEF GuestInv, TypeOK
    <2>2. ~sigSup[g] /\ sup[g] # "unborn" /\ \A h \in Guest : Secret(h) <=> h = g
      BY <1>7, <2>1 DEF GuestInv, ForkedIsOwned, process_alive, Secret, SupLive, SupWrites
    <2>3. \A h \in Guest \ {g} : LifeOf(h)' = LifeOf(h) BY <1>4, <2>2
    <2>4. AbsLife' = [AbsLife EXCEPT ![g] = LifeOf(g)'] BY <2>3, OneLife
    <2>5. AbsLife[g] = "unborn" BY <1>3, <2>2, Lives DEF AbsLife
    <2>6. LifeOf(g)' \in {"going", "gone"} BY <1>1, <1>2, <2>2 DEF LifeOf
    <2> QED BY <1>5, <2>4, <2>5, <2>6 DEF Abs!Next, Abs!Lost, Abs!Becomes
  <1> QED BY <1>6, <1>7

\* The guest runtime implements AbstractGuest: what its two calls promise is
\* kept by every step (guest.rs:593-751).
THEOREM GuestRefines == Spec => ImplementsGuest
  <1>1. Init => Abs!Init
    BY DEF Init, Abs!Init, AbsGuest, AbsOurs, AbsLife, LifeOf, Secret, SupAlive, SupLive, SupWrites
  <1>2. ASSUME GuestInv, GuestInv', [Next]_vars PROVE [Abs!Next]_(Abs!vars)
    <2> USE <1>2
    <2>1. CASE \/ StartPrepares \/ StartFindsRunning \/ PrepareFails \/ AppWrite \/ ForkFails
               \/ StopWaitInterrupted \/ Stopped \/ WipeBegins \/ WipeEnds \/ AppRestarts
      BY <2>1, ElsewhereStutters
         DEF StartPrepares, StartFindsRunning, PrepareFails, AppWrite, AppWrites, Write,
             ForkFails, StopWaitInterrupted, Stopped, WipeBegins, WipeEnds, AppRestarts,
             Return, vars, appVars, procVars, GuestInv, TypeOK
    <2>2. ASSUME NEW o, StopFindsNothing(o) PROVE [Abs!Next]_(Abs!vars)
      BY <2>2, ElsewhereStutters DEF StopFindsNothing, procVars, GuestInv, GuestPidIsOwned
    <2>3. ASSUME NEW g \in Guest,
                 \/ SupWrite(g) \/ SupForks(g) \/ SupForkFails(g) \/ SupWaits(g)
                 \/ SupWaitInterrupted(g) \/ SupExits(g) \/ SupDies(g) \/ SupKilled(g)
          PROVE  [Abs!Next]_(Abs!vars)
      <3>1. TypeOK BY DEF GuestInv
      <3>2. /\ UNCHANGED <<pc, cur, guestPid, own>> /\ sup[g] # "unborn" /\ sup'[g] # "unborn"
            /\ \A h \in Guest \ {g} : sup'[h] = sup[h] /\ sigSup'[h] = sigSup[h]
            /\ \/ SupAlive(g) /\ SupAlive(g)' /\ sigSup'[g] = sigSup[g]
               \/ ~SupAlive(g)'
        BY <2>3, <3>1
           DEF SupWrite, SupForks, SupForkFails, SupWaits, SupWaitInterrupted, SupExits, SupDies,
               SupKilled, SupEnds, SupAlive, SupLive, SupWrites, Write, appVars, TypeOK
      <3> QED BY <3>2, SupervisorMaps
    <2>4. ASSUME NEW g \in Guest, PayStep(g) \/ PayKilled(g) PROVE [Abs!Next]_(Abs!vars)
      <3>1. UNCHANGED <<guestPid, own, sup, sigSup, pc, cur>>
        BY <2>4 DEF PayStep, PayArms, PayLocksDown, PayEnds, PayKilled, appVars
      <3> QED BY <3>1, SameStutters
    <2>5. CASE UNCHANGED vars
      <3>1. UNCHANGED <<guestPid, own, sup, sigSup, pc, cur>>
        BY <2>5 DEF vars, appVars, procVars
      <3> QED BY <3>1, SameStutters
    <2>6. ASSUME NEW g \in Guest, Fork(g) PROVE [Abs!Next]_(Abs!vars)
      BY <2>6, ForkMaps
    <2> QED
      BY <2>1, <2>2, <2>3, <2>4, <2>5, <2>6, StartMaps, TellMaps, WaitMaps, DeathMaps
         DEF Next, Start, Stop, CallStep, SupStep
  <1> QED BY <1>1, <1>2, GuestInvariance, PTL DEF Spec, ImplementsGuest, Abs!Spec
=============================================================================
