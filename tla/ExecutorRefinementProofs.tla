---------------------- MODULE ExecutorRefinementProofs ----------------------
(***************************************************************************)
(* Proof that PersistentExecutor implements AbstractExecutor.  The         *)
(* inductive invariant says which child a call holding STATE deals with;   *)
(* with it every return maps to the outcome AbstractExecutor allows and    *)
(* every other step of the service and its children to a stutter.          *)
(***************************************************************************)
EXTENDS ExecutorRefinement, PersistentExecutorProofs

\* Only the holder of STATE has a child in its locals, so the children a start
\* has not reported yet are those of the holder.
Unreported(c) == owner \in Thread /\ op[owner] = "start" /\ conn[owner] = c

LEMMA SpentIs ==
  ASSUME IndInv
  PROVE  AbsSpent = {c \in Child : stage[c] # "unborn" /\ ~Unreported(c)}
  <1>1. \A t \in Thread : owner # t => conn[t] = NoChild
    BY DEF IndInv, LockInv, HandleInv
  <1> QED BY <1>1, ExecutorAssumption DEF AbsSpent, Unreported

\* The same in the state after a step.
LEMMA SpentBecomes ==
  ASSUME IndInv'
  PROVE  AbsSpent' = {c \in Child : stage'[c] # "unborn" /\ ~Unreported(c)'}
  <1>1. \A t \in Thread : owner' # t => conn'[t] = NoChild
    BY DEF IndInv, LockInv, HandleInv
  <1> QED BY <1>1, ExecutorAssumption DEF AbsSpent, Unreported

\* No step but a fork changes which children have been born.
BirthsKept == \A c \in Child : stage'[c] = "unborn" <=> stage[c] = "unborn"

\* The initial state maps to that of AbstractExecutor.
LEMMA ExecutorInitMaps == Init => Abs!Init
  BY DEF Init, Abs!Init, AbsExec, AbsSpent, Stopped, Outcome, Abs!Outcome

\* What leaves the calls and the births alone is a stutter.
LEMMA ChildStutter ==
  ASSUME UNCHANGED <<up, threadVars>>, BirthsKept
  PROVE  UNCHANGED Abs!absVars
  <1>1. AbsExec' = AbsExec BY DEF AbsExec, threadVars
  <1>2. AbsSpent' = AbsSpent BY DEF AbsSpent, threadVars, BirthsKept
  <1> QED BY <1>1, <1>2 DEF Abs!absVars, threadVars

\* So are the steps of a call that keeps STATE and its child.
LEMMA HolderStutter ==
  ASSUME IndInv, IndInv', NEW t \in Thread, owner = t, BirthsKept,
         UNCHANGED <<up, owner, op, conn, result>>
  PROVE  UNCHANGED Abs!absVars
  <1>1. AbsExec' = AbsExec BY ExecutorAssumption DEF AbsExec
  <1>2. AbsSpent' = AbsSpent BY SpentIs, SpentBecomes DEF Unreported, BirthsKept
  <1> QED BY <1>1, <1>2 DEF Abs!absVars

\* A call that returns gives back STATE: the executor is what it records, and
\* the child of a start counts as given out.
LEMMA ReturnMaps ==
  ASSUME IndInv, IndInv', NEW t \in Thread, owner = t, up,
         NEW r, Return(t, r), BirthsKept, UNCHANGED <<up, state>>
  PROVE  /\ AbsExec = IF op[t] = "start" THEN NoChild ELSE conn[t]
         /\ AbsExec' = state.child
         /\ AbsSpent' = IF op[t] = "start" /\ stage[conn[t]] # "unborn"
                        THEN AbsSpent \cup {conn[t]} ELSE AbsSpent
         /\ conn[t] \in Child
         /\ op[t] \in Op
         /\ Abs!Return(t, r)
  <1>1. conn[t] \in Child /\ op[t] \in Op
    BY DEF IndInv, LockInv, CallInv, HandleInv, TypeOK, ThreadTypes, Critical
  <1>2. AbsExec = IF op[t] = "start" THEN NoChild ELSE conn[t]
    BY ExecutorAssumption DEF AbsExec
  <1>3. AbsExec' = state.child BY DEF AbsExec, Return
  <1>4. AbsSpent' = {c \in Child : stage[c] # "unborn"}
    BY SpentBecomes, ExecutorAssumption DEF Unreported, Return, BirthsKept
  <1>5. AbsSpent' = IF op[t] = "start" /\ stage[conn[t]] # "unborn"
                    THEN AbsSpent \cup {conn[t]} ELSE AbsSpent
    BY <1>1, <1>4, SpentIs DEF Unreported
  <1>6. Abs!Return(t, r) BY DEF Abs!Return, Return
  <1> QED BY <1>1, <1>2, <1>3, <1>5, <1>6

\* A return with an error other than EBUSY and ENOENT: nothing is recorded.
LEMMA FailureMaps ==
  ASSUME IndInv, IndInv', NEW t \in Thread, owner = t, up, ~Running,
         Return(t, Outcome("failed", NoChild)), BirthsKept, UNCHANGED <<up, state>>
  PROVE  Abs!StartFails(t) \/ Abs!RequestFails(t)
  <1> USE ReturnMaps, ExecutorAssumption DEF Running, Outcome, Abs!Outcome
  <1>1. CASE op[t] = "start"
    <2>1. AbsSpent' \in {AbsSpent} \cup {AbsSpent \cup {c} : c \in Child} BY <1>1
    <2>2. AbsExec = NoChild /\ UNCHANGED AbsExec BY <1>1
    <2> QED BY <1>1, <2>1, <2>2 DEF Abs!StartFails
  <1>2. CASE op[t] # "start"
    <2>1. AbsExec # NoChild /\ AbsExec' = NoChild /\ UNCHANGED AbsSpent BY <1>2
    <2>2. op[t] \in Abs!Op \ {"start"} BY <1>2 DEF Op, Abs!Op
    <2> QED BY <2>1, <2>2 DEF Abs!RequestFails
  <1> QED BY <1>1, <1>2

\* A step of a binder thread maps to what its call promises, or to a stutter.
LEMMA ThreadMaps ==
  ASSUME IndInv, IndInv', NEW t \in Thread, ThreadStep(t)
  PROVE  Abs!Next \/ UNCHANGED Abs!absVars
  <1> USE DEF Abs!Next
  <1>1. pc[t] \in Critical => owner = t BY DEF IndInv, LockInv
  <1>3. ASSUME NEW o \in Op, Call(t, o) PROVE Abs!Next
    <2>1. owner # t /\ op[t] = "none" /\ conn[t] = NoChild
      BY <1>3 DEF Call, IndInv, LockInv, CallInv, HandleInv, Critical
    <2>2. AbsExec' = AbsExec
      BY <1>3, <2>1 DEF Call, AbsExec, IndInv, TypeOK, ThreadTypes
    <2>3. AbsSpent' = AbsSpent
      BY <1>3, <2>1, SpentIs, SpentBecomes
         DEF Call, Unreported, childVars, IndInv, TypeOK, ThreadTypes
    <2>4. Abs!Invoke(t, o)
      BY <1>3, <2>1, <2>2, <2>3 DEF Call, Abs!Invoke, Outcome, Abs!Outcome
    <2>5. o \in Abs!Op BY DEF Op, Abs!Op
    <2> QED BY <2>4, <2>5
  <1>4. ASSUME AtLock(t) PROVE owner # t /\ conn[t] = NoChild /\ op[t] \in Op
    BY <1>4, ExecutorAssumption
       DEF AtLock, IndInv, LockInv, CallInv, HandleInv, TypeOK, ThreadTypes, Critical
  <1>5. ASSUME AtLock(t), NEW r, Return(t, r), UNCHANGED <<up, state, childVars>>
        PROVE  /\ AbsExec = state.child /\ UNCHANGED <<AbsExec, AbsSpent>>
               /\ Abs!Return(t, r)
    <2>1. AbsExec = state.child /\ AbsExec' = state.child
      BY <1>5 DEF AtLock, AbsExec, Return
    <2>2. AbsSpent' = AbsSpent
      BY <1>5, SpentIs, SpentBecomes, ExecutorAssumption
         DEF AtLock, Unreported, Return, childVars
    <2> QED BY <1>5, <2>1, <2>2 DEF AtLock, Abs!Return, Return
  <1>6. CASE Refuse(t)
    <2>1. AtLock(t) BY <1>6 DEF Refuse
    <2>2. CASE op[t] = "start"
      <3>1. Abs!StartBusy(t)
        BY <1>5, <1>6, <2>1, <2>2 DEF Refuse, Running, Abs!StartBusy, Outcome, Abs!Outcome
      <3> QED BY <3>1
    <2>3. CASE op[t] # "start"
      <3>1. op[t] \in Abs!Op \ {"start"} BY <1>4, <2>1, <2>3 DEF Op, Abs!Op
      <3>2. Abs!NotRunning(t)
        BY <1>5, <1>6, <2>1, <2>3, <3>1
           DEF Refuse, Running, Abs!NotRunning, Outcome, Abs!Outcome
      <3> QED BY <3>2
    <2> QED BY <2>2, <2>3
  <1>7. CASE OpenPairFails(t)
    <2>1. Abs!StartFails(t)
      BY <1>5, <1>7 DEF OpenPairFails, Running, Abs!StartFails, Outcome, Abs!Outcome
    <2> QED BY <2>1
  <1>8. CASE Begin(t)
    <2>1. AbsExec' = AbsExec
      BY <1>8, ExecutorAssumption
         DEF Begin, AtLock, AbsExec, IndInv, TypeOK, ThreadTypes
    <2>2. AbsSpent' = AbsSpent
      BY <1>8, SpentIs, SpentBecomes, ExecutorAssumption
         DEF Begin, AtLock, Unreported, childVars
    <2> QED BY <1>8, <2>1, <2>2 DEF Begin, Abs!absVars
  <1>9. ASSUME NEW c \in Child, OpenPair(t, c) PROVE UNCHANGED Abs!absVars
    <2>1. AbsExec' = AbsExec
      BY <1>9, ExecutorAssumption DEF OpenPair, AtLock, AbsExec, Running
    <2>2. conn'[t] = c /\ owner' = t /\ stage[c] = "unborn" /\ UNCHANGED stage
      BY <1>9 DEF OpenPair, childVars, IndInv, TypeOK, ThreadTypes
    <2>3. AbsSpent' = AbsSpent
      BY <1>9, <2>2, SpentIs, SpentBecomes, ExecutorAssumption
         DEF OpenPair, AtLock, Unreported
    <2> QED BY <1>9, <2>1, <2>3 DEF OpenPair, Abs!absVars
  <1>10. CASE Fork(t)
    <2>1. owner = t /\ op[t] = "start" /\ conn[t] \in Child
      BY <1>1, <1>10, PlaceTable DEF Fork, IndInv, CallInv, HandleInv
    <2>2. AbsExec' = AbsExec
      BY <1>10, <2>1, ExecutorAssumption DEF Fork, AbsExec
    <2>3. \A c \in Child : c # conn[t] => stage'[c] = stage[c]
      BY <1>10, <2>1 DEF Fork, IndInv, TypeOK, ChildTypes
    <2>4. \A c : (Unreported(c) <=> c = conn[t]) /\ (Unreported(c)' <=> c = conn[t])
      BY <1>10, <2>1 DEF Fork, Unreported
    <2>5. AbsSpent' = AbsSpent BY <2>3, <2>4, SpentIs, SpentBecomes
    <2> QED BY <1>10, <2>2, <2>5 DEF Fork, Abs!absVars
  <1>11. CASE \/ Install(t) \/ parent_send(t) \/ SendFails(t) \/ parent_recv(t)
              \/ RecvEof(t) \/ Timeout(t) \/ PollFails(t) \/ Detach(t)
              \/ parent_force_terminate(t) \/ Kill(t)
    <2>1. /\ pc[t] \in Critical
          /\ UNCHANGED <<up, owner, op, conn, result, stage>>
      BY <1>11, PlaceTable
         DEF Install, parent_send, SendFails, parent_recv, RecvEof, Timeout, PollFails,
             Detach, parent_force_terminate, Kill, childVars
    <2> QED BY <1>1, <2>1, HolderStutter DEF BirthsKept
  <1>12. CASE Finish(t)
    <2>1. owner = t /\ state.child = conn[t]
      BY <1>1, <1>12, PlaceTable DEF Finish, IndInv, HandleInv
    <2>2. BirthsKept BY <1>12 DEF Finish, BirthsKept, childVars
    <2>3. /\ AbsExec = IF op[t] = "start" THEN NoChild ELSE conn[t]
          /\ AbsExec' = conn[t] /\ conn[t] \in Child /\ op[t] \in Op
          /\ AbsSpent' = IF op[t] = "start" /\ stage[conn[t]] # "unborn"
                         THEN AbsSpent \cup {conn[t]} ELSE AbsSpent
          /\ Abs!Return(t, Outcome("ok", conn[t]))
      BY <1>12, <2>1, <2>2, ReturnMaps DEF Finish
    <2>4. CASE op[t] = "start"
      <3>1. conn[t] \notin AbsSpent
        BY <2>1, <2>4, SpentIs DEF Unreported
      <3>2. stage[conn[t]] # "unborn"
        BY <2>1, <2>3, ExecutorAssumption DEF IndInv, LifeInv, Running, Unreaped, Live, Setup, After
      <3>3. Abs!StartOk(t, conn[t])
        BY <2>3, <2>4, <3>1, <3>2 DEF Abs!StartOk, Outcome, Abs!Outcome
      <3> QED BY <2>3, <3>3
    <2>5. CASE op[t] # "start"
      <3>1. op[t] \in {"ping", "status"} BY <1>12, <2>3, <2>5 DEF Finish, Op
      <3>2. Abs!RequestOk(t)
        BY <2>3, <2>5, <3>1, ExecutorAssumption DEF Abs!RequestOk, Outcome, Abs!Outcome
      <3> QED BY <3>2
    <2> QED BY <2>4, <2>5
  <1>13. ASSUME conn[t] \in Child, stage[conn[t]] = "zombie", Reaped(conn[t]) PROVE BirthsKept
    BY <1>13 DEF Reaped, BirthsKept, IndInv, TypeOK, ChildTypes
  <1>14. pc[t] \in {"fork", "reap", "wait"} => owner = t /\ ~Running /\ conn[t] \in Child
    BY <1>1, PlaceTable DEF IndInv, HandleInv
  <1>15. CASE Wait(t) /\ exit[conn[t]] = "clean"
    <2>1. op[t] = "shutdown" BY <1>15 DEF Wait, IndInv, CallInv
    <2>2. BirthsKept BY <1>13, <1>14, <1>15 DEF Wait
    <2>3. /\ AbsExec = conn[t] /\ AbsExec' = NoChild /\ conn[t] # NoChild
          /\ UNCHANGED AbsSpent /\ Abs!Return(t, Outcome("ok", NoChild))
      BY <1>14, <1>15, <2>1, <2>2, ReturnMaps, ExecutorAssumption DEF Wait, Running
    <2>4. Abs!ShutdownOk(t) BY <2>1, <2>3 DEF Abs!ShutdownOk, Outcome, Abs!Outcome
    <2> QED BY <2>4
  <1>16. CASE \/ ForkFails(t) \/ WaitInterrupted(t) \/ Reap(t) \/ ReapInterrupted(t)
              \/ Wait(t) /\ exit[conn[t]] # "clean"
    <2>1. pc[t] \in {"fork", "reap", "wait"} /\ up /\ UNCHANGED <<up, state>>
          /\ Return(t, Outcome("failed", NoChild))
      BY <1>16 DEF ForkFails, WaitInterrupted, Reap, ReapInterrupted, Wait
    <2>2. BirthsKept
      <3>1. CASE ForkFails(t) \/ WaitInterrupted(t) \/ ReapInterrupted(t)
        BY <3>1 DEF ForkFails, WaitInterrupted, ReapInterrupted, BirthsKept, childVars
      <3>2. CASE Reap(t) \/ Wait(t) BY <1>13, <1>14, <3>2 DEF Reap, Wait
      <3> QED BY <1>16, <3>1, <3>2
    <2> QED BY <1>14, <2>1, <2>2, FailureMaps
  <1> QED BY <1>3, <1>6, <1>7, <1>8, <1>9, <1>10, <1>11, <1>12, <1>15, <1>16
          DEF ThreadStep, CallStep

\* A step of a child is a stutter: its callers do not see it.
LEMMA ChildMaps ==
  ASSUME IndInv, NEW c \in Child, ChildStep(c)
  PROVE  UNCHANGED Abs!absVars
  <1> USE DEF IndInv, TypeOK, ChildTypes
  <1>1. UNCHANGED <<up, threadVars>>
    BY DEF ChildStep, ChildProgress, Normalize, Scrub, Harden, Greet, child_recv, Answer, Bye,
           ExitClean, LosesPeer, SetupFails, Die, KilledFromOutside
  <1>2. BirthsKept
    <2>1. ASSUME stage[c] # "unborn", NEW s, s # "unborn", stage' = [stage EXCEPT ![c] = s]
          PROVE  BirthsKept
      BY <2>1 DEF BirthsKept
    <2>2. CASE Normalize(c) \/ Scrub(c) \/ Harden(c)
      <3>1. stage[c] \in Setup /\ stage' = [stage EXCEPT ![c] = After[stage[c]]]
        BY <2>2, SetupTable DEF Normalize, Scrub, Harden
      <3>2. stage[c] # "unborn" /\ After[stage[c]] # "unborn" BY <3>1, SetupTable
      <3> QED BY <2>1, <3>1, <3>2
    <2>3. CASE Greet(c) \/ child_recv(c) \/ Answer(c) \/ Bye(c)
      BY <2>1, <2>3 DEF Greet, child_recv, Answer, Bye
    <2>4. CASE ExitClean(c) \/ LosesPeer(c) \/ SetupFails(c) \/ Die(c)
      <3>1. stage[c] # "unborn"
        BY <2>4, SetupTable DEF ExitClean, LosesPeer, SetupFails, Die, Alive, Live
      <3>2. \E how : Exit(c, how) BY <2>4 DEF ExitClean, LosesPeer, SetupFails, Die
      <3> QED BY <2>1, <3>1, <3>2 DEF Exit
    <2>5. CASE KilledFromOutside(c) BY <2>5 DEF KilledFromOutside, BirthsKept
    <2> QED BY <2>2, <2>3, <2>4, <2>5 DEF ChildStep, ChildProgress
  <1> QED BY <1>1, <1>2, ChildStutter

\* Every step maps to a step of AbstractExecutor or to a stutter.
LEMMA ExecutorStepMaps ==
  ASSUME IndInv, IndInv', [Next]_vars
  PROVE  [Abs!Next]_(Abs!absVars)
  <1>1. CASE UNCHANGED vars BY <1>1, ChildStutter DEF vars, childVars, BirthsKept
  <1>2. ASSUME NEW t \in Thread, ThreadStep(t) PROVE [Abs!Next]_(Abs!absVars)
    BY <1>2, ThreadMaps
  <1>3. ASSUME NEW c \in Child, ChildStep(c) PROVE UNCHANGED Abs!absVars
    BY <1>3, ChildMaps
  <1>4. ASSUME NEW p \in Probe, ForkProbe(p) \/ ProbeExits(p) PROVE UNCHANGED Abs!absVars
    BY <1>4, ChildStutter DEF ForkProbe, ProbeExits, childVars, BirthsKept
  <1>5. CASE ServiceDies
    <2>1. AbsExec' = NoChild BY <1>5 DEF ServiceDies, AbsExec, Stopped
    <2>2. AbsSpent' \in SUBSET Child BY DEF AbsSpent
    <2>3. Abs!Vanish
      BY <1>5, <2>1, <2>2 DEF ServiceDies, Abs!Vanish, Outcome, Abs!Outcome
    <2> QED BY <2>3 DEF Abs!Next
  <1>6. CASE Over BY <1>6, ChildStutter DEF Over, vars, childVars, BirthsKept
  <1> QED BY <1>1, <1>2, <1>3, <1>4, <1>5, <1>6 DEF Next

\* start, ping, status and shutdown do what AbstractExecutor promises: Ok names
\* the child of the last start that succeeded, EBUSY and ENOENT change nothing,
\* any other failure leaves no executor (persistent_executor.rs, the four calls).
THEOREM ExecutorRefines == Spec => ImplementsAbstract
  <1>1. Init => Abs!Init BY ExecutorInitMaps
  <1>2. IndInv /\ IndInv' /\ [Next]_vars => [Abs!Next]_(Abs!absVars)
    BY ExecutorStepMaps
  <1> QED BY <1>1, <1>2, Invariance, PTL DEF Spec, ImplementsAbstract, Abs!Spec
=============================================================================
