---------------------- MODULE PersistentExecutorProofs ----------------------
(***************************************************************************)
(* Proofs that PersistentExecutor keeps its inductive invariant, for any   *)
(* number of binder threads, children and proof children and any id width. *)
(***************************************************************************)
EXTENDS ExecutorInvariant, TLAPS

USE DEF OP_PING, OP_STATUS, OP_SHUTDOWN, RESP_READY, RESP_PONG, RESP_LOCKED,
        RESP_BYE, RESP_ERROR

(***************************************************************************)
(* Tables.                                                                 *)
(***************************************************************************)

\* The lockdown steps, and the step each leads to (child_main).
LEMMA SetupTable ==
    /\ Setup = {"normalize", "scrub", "signals", "pdeathsig", "nnp", "seccomp", "verify"}
    /\ After["normalize"] = "scrub"
    /\ \A s \in Setup : After[s] \in (Setup \ {"normalize"}) \cup {"greet"}
    /\ \A s \in Setup \ {"normalize"} : After[s] \in (Setup \ {"normalize", "scrub"}) \cup {"greet"}
  BY DEF Setup, After

\* The requests sent and the answers awaited are those of the protocol.
LEMMA OpTable ==
    /\ \A o \in Op \ {"start"} : Request[o] \in {OP_PING, OP_STATUS, OP_SHUTDOWN}
    /\ \A o \in Op : Expected[o] \in {RESP_READY, RESP_PONG, RESP_LOCKED, RESP_BYE}
    /\ Expected["start"] = RESP_READY
    /\ \A o \in Op \ {"start"} : Request[o] = OP_SHUTDOWN <=> o = "shutdown"
    /\ \A o \in Op \ {"start", "shutdown"} : Reply(Request[o]) = Expected[o]
    /\ Expected["shutdown"] = RESP_BYE
  BY DEF Op, Request, Expected, Reply

(***************************************************************************)
(* Types.                                                                  *)
(***************************************************************************)

\* The places of a call that holds STATE.
LEMMA PlaceTable ==
  {"fork", "install", "send", "await", "accepted", "terminate", "kill", "reap", "wait"} = Critical
  BY DEF Critical

\* Storing a sequence over S in a table of such sequences.
LEMMA SeqStore ==
  ASSUME NEW S, NEW f \in [Child -> Seq(S)], NEW c, NEW s \in Seq(S)
  PROVE  [f EXCEPT ![c] = s] \in [Child -> Seq(S)]
  OBVIOUS

\* The initial state is well typed.
LEMMA TypeInit == Init => TypeOK
  BY ExecutorAssumption
     DEF Init, TypeOK, ThreadTypes, ChildTypes, HeldTypes, WireTypes,
         Result, Outcome, Stopped, NoRequest, Ids, Proc

\* What is not touched keeps its type.
LEMMA TypeFrame ==
  /\ ThreadTypes /\ UNCHANGED threadVars => ThreadTypes'
  /\ ChildTypes /\ UNCHANGED childVars => ChildTypes'
  /\ HeldTypes /\ UNCHANGED heldVars => HeldTypes'
  /\ WireTypes /\ UNCHANGED wireVars => WireTypes'
  BY DEF ThreadTypes, ChildTypes, HeldTypes, WireTypes, threadVars, childVars, heldVars, wireVars

\* A return keeps the types of what it changes.
LEMMA TypeReturn ==
  ASSUME ThreadTypes, NEW t \in Thread, NEW r \in Result, Return(t, r), UNCHANGED state
  PROVE  ThreadTypes'
  BY ExecutorAssumption DEF ThreadTypes, Return, Ids

\* So does a step from one place of a call to another.
LEMMA TypeGoto ==
  ASSUME ThreadTypes, NEW t \in Thread, NEW place \in Critical, Goto(t, place),
         UNCHANGED <<op, result>>,
         owner' \in Thread \cup {NoThread}, state' \in [child: Child \cup {NoChild}, next: 1 .. MaxId],
         conn' \in [Thread -> Child \cup {NoChild}], rid' \in [Thread -> Ids]
  PROVE  ThreadTypes'
  BY DEF ThreadTypes, Goto
\* A step of a thread keeps the types.
LEMMA TypeThread ==
  ASSUME TypeOK, HandleInv, NEW t \in Thread, ThreadStep(t)
  PROVE  TypeOK'
  <1> USE ExecutorAssumption DEF TypeOK, AtLock
  <1>1. ASSUME NEW o \in Op, Call(t, o) PROVE TypeOK'
    <2>1. ThreadTypes' BY <1>1 DEF Call, ThreadTypes, Goto, Outcome, Result
    <2> QED BY <1>1, <2>1, TypeFrame DEF Call
  <1>2. CASE Refuse(t)
    <2>1. ThreadTypes' BY <1>2, TypeReturn DEF Refuse, Result, Outcome
    <2> QED BY <1>2, <2>1, TypeFrame DEF Refuse
  <1>3. CASE OpenPairFails(t)
    <2>1. ThreadTypes' BY <1>3, TypeReturn DEF OpenPairFails, Result, Outcome
    <2> QED BY <1>3, <2>1, TypeFrame DEF OpenPairFails
  <1>4. CASE Begin(t)
    <2>1. state.child \in Child \cup {NoChild} /\ state.next \in 1 .. MaxId
      BY DEF ThreadTypes
    <2>2. take_request_id(state) \in [child: Child \cup {NoChild}, next: 1 .. MaxId]
      BY DEF ThreadTypes, take_request_id
    <2>3. ThreadTypes'
      BY <1>4, <2>1, <2>2, TypeGoto, PlaceTable DEF Begin, ThreadTypes, Ids
    <2> QED BY <1>4, <2>3, TypeFrame DEF Begin
  <1>5. ASSUME NEW c \in Child, OpenPair(t, c) PROVE TypeOK'
    <2>1. ThreadTypes' BY <1>5, TypeGoto, PlaceTable DEF OpenPair, ThreadTypes
    <2>2. HeldTypes' BY <1>5 DEF OpenPair, HeldTypes, Proc
    <2> QED BY <1>5, <2>1, <2>2, TypeFrame DEF OpenPair
  <1>6. CASE Fork(t)
    <2>1. ThreadTypes' BY <1>6, TypeGoto, PlaceTable DEF Fork, ThreadTypes
    <2>2. ChildTypes' BY <1>6, SetupTable DEF Fork, ChildTypes, Live
    <2>3. conn[t] \in Child BY <1>6, PlaceTable DEF Fork, HandleInv
    <2>4. HeldTypes' BY <1>6, <2>3 DEF Fork, HeldTypes, Inherit, Proc
    <2> QED BY <1>6, <2>1, <2>2, <2>4, TypeFrame DEF Fork
  <1>7. CASE ForkFails(t)
    <2>1. ThreadTypes' BY <1>7, TypeReturn DEF ForkFails, Result, Outcome
    <2>2. HeldTypes' BY <1>7 DEF ForkFails, HeldTypes
    <2> QED BY <1>7, <2>1, <2>2, TypeFrame DEF ForkFails
  <1>8. CASE Install(t)
    <2>1. ThreadTypes' BY <1>8, TypeGoto, PlaceTable DEF Install, ThreadTypes
    <2>2. HeldTypes' BY <1>8 DEF Install, HeldTypes, heldVars
    <2> QED BY <1>8, <2>1, <2>2, TypeFrame DEF Install
  <1>9. CASE parent_send(t)
    <2>1. ThreadTypes' BY <1>9, TypeGoto, PlaceTable DEF parent_send, ThreadTypes
    <2>2. RequestMsg(op[t], rid[t]) \in Requests
      BY <1>9 DEF parent_send, CanSend, RequestMsg, Requests, Encodable, OpcodeValid,
                  is_request_opcode, ThreadTypes
    <2>3. toChild' \in [Child -> Seq(Requests)]
      <3>1. conn[t] \in Child BY <1>9, PlaceTable DEF parent_send, HandleInv
      <3>2. Append(toChild[conn[t]], RequestMsg(op[t], rid[t])) \in Seq(Requests)
        BY <2>2, <3>1 DEF WireTypes
      <3> QED BY <1>9, <3>2, SeqStore DEF parent_send, WireTypes
    <2>4. WireTypes' BY <1>9, <2>3 DEF parent_send, WireTypes
    <2> QED BY <1>9, <2>1, <2>4, TypeFrame DEF parent_send
  <1>10. CASE SendFails(t)
    <2>1. ThreadTypes' BY <1>10, TypeGoto, PlaceTable DEF SendFails, ThreadTypes
    <2> QED BY <1>10, <2>1, TypeFrame DEF SendFails
  <1>11. CASE parent_recv(t)
    <2>1. ThreadTypes' BY <1>11, TypeGoto, PlaceTable DEF parent_recv, ThreadTypes
    <2>2. toService' \in [Child -> Seq(Responses)]
      <3>1. conn[t] \in Child BY <1>11, PlaceTable DEF parent_recv, HandleInv
      <3>2. Tail(toService[conn[t]]) \in Seq(Responses)
        BY <1>11, <3>1 DEF parent_recv, WireTypes
      <3> QED BY <1>11, <3>2 DEF parent_recv, WireTypes
    <2>3. WireTypes' BY <1>11, <2>2 DEF parent_recv, WireTypes
    <2> QED BY <1>11, <2>1, <2>3, TypeFrame DEF parent_recv
  <1>12. CASE RecvEof(t)
    <2>1. ThreadTypes' BY <1>12, TypeGoto, PlaceTable DEF RecvEof, ThreadTypes
    <2> QED BY <1>12, <2>1, TypeFrame DEF RecvEof
  <1>13. CASE Timeout(t)
    <2>1. ThreadTypes' BY <1>13, TypeGoto, PlaceTable DEF Timeout, ThreadTypes
    <2> QED BY <1>13, <2>1, TypeFrame DEF Timeout
  <1>14. CASE PollFails(t)
    <2>1. ThreadTypes' BY <1>14, TypeGoto, PlaceTable DEF PollFails, ThreadTypes
    <2> QED BY <1>14, <2>1, TypeFrame DEF PollFails
  <1>15. CASE Finish(t)
    <2>1. ThreadTypes' BY <1>15, TypeReturn DEF Finish, Result, Outcome, ThreadTypes
    <2> QED BY <1>15, <2>1, TypeFrame DEF Finish
  <1>16. CASE Detach(t)
    <2>1. ThreadTypes' BY <1>16, TypeGoto, PlaceTable DEF Detach, ThreadTypes, Stopped
    <2>2. HeldTypes' BY <1>16 DEF Detach, CloseEnd, HeldTypes
    <2>3. WireTypes'
      <3>1. toService' \in [Child -> Seq(Responses)]
        BY <1>16, <<>> \in Seq(Responses), SeqStore DEF Detach, CloseEnd, WireTypes
      <3> QED BY <1>16, <3>1 DEF Detach, WireTypes
    <2> QED BY <1>16, <2>1, <2>2, <2>3, TypeFrame DEF Detach
  <1>17. CASE Wait(t)
    <2>1. ThreadTypes' BY <1>17, TypeReturn DEF Wait, Result, Outcome
    <2>2. ChildTypes' BY <1>17 DEF Wait, Reaped, ChildTypes
    <2> QED BY <1>17, <2>1, <2>2, TypeFrame DEF Wait
  <1>18. CASE WaitInterrupted(t)
    <2>1. ThreadTypes' BY <1>18, TypeReturn DEF WaitInterrupted, Result, Outcome
    <2> QED BY <1>18, <2>1, TypeFrame DEF WaitInterrupted
  <1>19. CASE parent_force_terminate(t)
    <2>1. ThreadTypes' BY <1>19, TypeGoto, PlaceTable DEF parent_force_terminate, ThreadTypes, Stopped
    <2>2. HeldTypes' BY <1>19 DEF parent_force_terminate, CloseEnd, HeldTypes
    <2>3. WireTypes'
      <3>1. toService' \in [Child -> Seq(Responses)]
        BY <1>19, <<>> \in Seq(Responses), SeqStore DEF parent_force_terminate, CloseEnd, WireTypes
      <3> QED BY <1>19, <3>1 DEF parent_force_terminate, WireTypes
    <2> QED BY <1>19, <2>1, <2>2, <2>3, TypeFrame DEF parent_force_terminate
  <1>20. CASE Kill(t)
    <2>1. ThreadTypes' BY <1>20, TypeGoto, PlaceTable DEF Kill, ThreadTypes
    <2>2. killed' \in [Child -> BOOLEAN]
      <3>1. Alive(conn[t]) \in BOOLEAN BY DEF Alive
      <3> QED BY <1>20, <3>1 DEF Kill, ChildTypes
    <2>3. ChildTypes' BY <1>20, <2>2 DEF Kill, ChildTypes
    <2> QED BY <1>20, <2>1, <2>3, TypeFrame DEF Kill
  <1>21. CASE Reap(t)
    <2>1. ThreadTypes' BY <1>21, TypeReturn DEF Reap, Result, Outcome
    <2>2. ChildTypes' BY <1>21 DEF Reap, Reaped, ChildTypes
    <2> QED BY <1>21, <2>1, <2>2, TypeFrame DEF Reap
  <1>22. CASE ReapInterrupted(t)
    <2>1. ThreadTypes' BY <1>22, TypeReturn DEF ReapInterrupted, Result, Outcome
    <2> QED BY <1>22, <2>1, TypeFrame DEF ReapInterrupted
  <1> QED
    BY <1>1, <1>2, <1>3, <1>4, <1>5, <1>6, <1>7, <1>8, <1>9, <1>10, <1>11, <1>12,
       <1>13, <1>14, <1>15, <1>16, <1>17, <1>18, <1>19, <1>20, <1>21, <1>22
       DEF ThreadStep, CallStep

\* What the end of a child changes keeps the types.
LEMMA TypeExit ==
  ASSUME TypeOK, NEW c \in Child, NEW how \in {"clean", "failed", "signal"}, Exit(c, how),
         UNCHANGED <<up, threadVars, toService, probe>>
  PROVE  TypeOK'
  <1> USE DEF TypeOK, Exit
  <1>1. ChildTypes' BY ExecutorAssumption DEF ChildTypes, NoRequest, Ids
  <1>2. HeldTypes' BY DEF HeldTypes, Drop
  <1>3. WireTypes'
    BY <<>> \in Seq(Requests), SeqStore DEF WireTypes
  <1> QED BY <1>1, <1>2, <1>3, TypeFrame

\* A packet the child sends is a response.
LEMMA TypeSend ==
  ASSUME WireTypes, NEW c \in Child, NEW id \in Ids, UNCHANGED toChild,
         NEW r \in {RESP_READY, RESP_PONG, RESP_LOCKED, RESP_BYE, RESP_ERROR},
         child_send(c, r, id)
  PROVE  WireTypes'
  <1>1. ResponseMsg(r, id) \in Responses BY DEF ResponseMsg, Responses
  <1>2. Append(toService[c], ResponseMsg(r, id)) \in Seq(Responses)
    BY <1>1 DEF WireTypes
  <1> QED BY <1>2, SeqStore DEF WireTypes, child_send

\* A step of a child keeps the types.
LEMMA TypeChild ==
  ASSUME TypeOK, NEW c \in Child, ChildStep(c)
  PROVE  TypeOK'
  <1> USE DEF TypeOK
  <1>0. req[c].request_id \in Ids BY DEF ChildTypes
  <1>1. CASE Normalize(c)
    <2>1. ChildTypes' BY <1>1, SetupTable DEF Normalize, ChildTypes, Live
    <2>2. HeldTypes' BY <1>1 DEF Normalize, HeldTypes
    <2> QED BY <1>1, <2>1, <2>2, TypeFrame DEF Normalize
  <1>2. CASE Scrub(c)
    <2>1. ChildTypes' BY <1>2, SetupTable DEF Scrub, ChildTypes, Live
    <2>2. HeldTypes' BY <1>2 DEF Scrub, HeldTypes, Drop
    <2> QED BY <1>2, <2>1, <2>2, TypeFrame DEF Scrub
  <1>3. CASE Harden(c)
    <2>1. ChildTypes' BY <1>3, SetupTable DEF Harden, ChildTypes, Live
    <2> QED BY <1>3, <2>1, TypeFrame DEF Harden
  <1>4. CASE Greet(c)
    <2>1. ChildTypes' BY <1>4 DEF Greet, ChildTypes, Live
    <2>2. WireTypes' BY <1>4, ExecutorAssumption, TypeSend DEF Greet, Ids
    <2> QED BY <1>4, <2>1, <2>2, TypeFrame DEF Greet
  <1>5. CASE child_recv(c)
    <2>1. Head(toChild[c]) \in Requests /\ Tail(toChild[c]) \in Seq(Requests)
      BY <1>5 DEF child_recv, WireTypes
    <2>2. ChildTypes' BY <1>5, <2>1 DEF child_recv, ChildTypes, Live, Requests
    <2>3. WireTypes' BY <1>5, <2>1, SeqStore DEF child_recv, WireTypes
    <2> QED BY <1>5, <2>2, <2>3, TypeFrame DEF child_recv
  <1>6. CASE Answer(c)
    <2>1. ChildTypes' BY <1>6, ExecutorAssumption DEF Answer, ChildTypes, Live, NoRequest, Ids
    <2>2. WireTypes' BY <1>0, <1>6, TypeSend DEF Answer, Reply
    <2> QED BY <1>6, <2>1, <2>2, TypeFrame DEF Answer
  <1>7. CASE Bye(c)
    <2>1. ChildTypes' BY <1>7, ExecutorAssumption DEF Bye, ChildTypes, Live, NoRequest, Ids
    <2>2. WireTypes'
      <3>1. CASE CanAnswer(c) BY <1>0, <1>7, <3>1, TypeSend DEF Bye
      <3>2. CASE ~CanAnswer(c) BY <1>7, <3>2, TypeFrame DEF Bye, wireVars
      <3> QED BY <3>1, <3>2
    <2> QED BY <1>7, <2>1, <2>2, TypeFrame DEF Bye
  <1>8. CASE ExitClean(c) BY <1>8, TypeExit DEF ExitClean
  <1>9. CASE LosesPeer(c) BY <1>9, TypeExit DEF LosesPeer
  <1>10. CASE SetupFails(c) BY <1>10, TypeExit DEF SetupFails
  <1>11. CASE Die(c) BY <1>11, TypeExit DEF Die
  <1>12. CASE KilledFromOutside(c)
    <2>1. ChildTypes' BY <1>12 DEF KilledFromOutside, ChildTypes
    <2> QED BY <1>12, <2>1, TypeFrame DEF KilledFromOutside
  <1> QED
    BY <1>1, <1>2, <1>3, <1>4, <1>5, <1>6, <1>7, <1>8, <1>9, <1>10, <1>11, <1>12
       DEF ChildStep, ChildProgress

\* Every step keeps the types.
LEMMA TypeStep ==
  ASSUME TypeOK, HandleInv, [Next]_vars
  PROVE  TypeOK'
  <1> USE DEF TypeOK
  <1>1. ASSUME NEW t \in Thread, ThreadStep(t) PROVE TypeOK'
    BY <1>1, TypeThread
  <1>2. ASSUME NEW c \in Child, ChildStep(c) PROVE TypeOK'
    BY <1>2, TypeChild
  <1>3. ASSUME NEW p \in Probe, ForkProbe(p) PROVE TypeOK'
    <2>1. HeldTypes' BY <1>3 DEF ForkProbe, HeldTypes, Inherit, Proc
    <2> QED BY <1>3, <2>1, TypeFrame DEF ForkProbe
  <1>4. ASSUME NEW p \in Probe, ProbeExits(p) PROVE TypeOK'
    <2>1. HeldTypes' BY <1>4 DEF ProbeExits, HeldTypes, Drop
    <2> QED BY <1>4, <2>1, TypeFrame DEF ProbeExits
  <1>5. CASE ServiceDies
    <2>1. ThreadTypes'
      BY <1>5, ExecutorAssumption
         DEF ServiceDies, ThreadTypes, Stopped, Outcome, Result, Ids
    <2>2. ChildTypes'
      <3>1. \A c \in Child : Alive(c) \in BOOLEAN BY DEF Alive
      <3> QED BY <1>5, <3>1 DEF ServiceDies, ChildTypes
    <2>3. HeldTypes' BY <1>5 DEF ServiceDies, HeldTypes, Drop
    <2>4. WireTypes' BY <1>5, <<>> \in Seq(Responses) DEF ServiceDies, WireTypes
    <2> QED BY <1>5, <2>1, <2>2, <2>3, <2>4 DEF ServiceDies
  <1>6. CASE UNCHANGED vars
    BY <1>6, TypeFrame DEF vars
  <1> QED
    BY <1>1, <1>2, <1>3, <1>4, <1>5, <1>6 DEF Next, Over

(***************************************************************************)
(* Who holds STATE, in which call, with which child.                       *)
(***************************************************************************)

\* A step of a thread keeps the lock discipline.
LEMMA ControlThread ==
  ASSUME TypeOK, LockInv, CallInv, HandleInv, NEW t \in Thread, ThreadStep(t)
  PROVE  LockInv' /\ CallInv' /\ HandleInv'
  <1> USE ExecutorAssumption
      DEF TypeOK, ThreadTypes, LockInv, CallInv, HandleInv, Critical, AtLock, Goto,
          Return, Stopped, Running
  <1>1. ASSUME NEW o \in Op, Call(t, o) PROVE LockInv' /\ CallInv' /\ HandleInv'
    BY <1>1 DEF Call, Op
  <1>2. ASSUME NEW c \in Child, OpenPair(t, c) PROVE LockInv' /\ CallInv' /\ HandleInv'
    BY <1>2 DEF OpenPair, Op
  <1>3. CASE Refuse(t)
    BY <1>3 DEF Refuse, Op
  <1>4. CASE OpenPairFails(t)
    BY <1>4 DEF OpenPairFails, Op
  <1>5. CASE Begin(t)
    BY <1>5 DEF Begin, take_request_id, Op
  <1>6. CASE Fork(t)
    BY <1>6 DEF Fork, Op
  <1>7. CASE ForkFails(t)
    BY <1>7 DEF ForkFails, Op
  <1>8. CASE Install(t)
    BY <1>8 DEF Install, Op
  <1>9. CASE parent_send(t)
    BY <1>9 DEF parent_send, Op
  <1>10. CASE SendFails(t)
    BY <1>10 DEF SendFails, Op
  <1>11. CASE parent_recv(t)
    BY <1>11 DEF parent_recv, Op
  <1>12. CASE RecvEof(t)
    BY <1>12 DEF RecvEof, Op
  <1>13. CASE Timeout(t)
    BY <1>13 DEF Timeout, Op
  <1>14. CASE PollFails(t)
    BY <1>14 DEF PollFails, Op
  <1>15. CASE Finish(t)
    BY <1>15 DEF Finish, Op
  <1>16. CASE Detach(t)
    BY <1>16 DEF Detach, CloseEnd, Op
  <1>17. CASE Wait(t)
    BY <1>17 DEF Wait, Reaped, Op
  <1>18. CASE WaitInterrupted(t)
    BY <1>18 DEF WaitInterrupted, Op
  <1>19. CASE parent_force_terminate(t)
    BY <1>19 DEF parent_force_terminate, CloseEnd, Op
  <1>20. CASE Kill(t)
    BY <1>20 DEF Kill, Op
  <1>21. CASE Reap(t)
    BY <1>21 DEF Reap, Reaped, Op
  <1>22. CASE ReapInterrupted(t)
    BY <1>22 DEF ReapInterrupted, Op
  <1> QED
    BY <1>1, <1>2, <1>3, <1>4, <1>5, <1>6, <1>7, <1>8, <1>9, <1>10, <1>11, <1>12, <1>13, <1>14, <1>15, <1>16, <1>17, <1>18, <1>19, <1>20, <1>21, <1>22
       DEF ThreadStep, CallStep

\* So does every other step.
LEMMA ControlStep ==
  ASSUME TypeOK, LockInv, CallInv, HandleInv, [Next]_vars
  PROVE  LockInv' /\ CallInv' /\ HandleInv'
  <1>1. ASSUME NEW t \in Thread, ThreadStep(t) PROVE LockInv' /\ CallInv' /\ HandleInv'
    BY <1>1, ControlThread
  <1>2. CASE UNCHANGED <<up, threadVars>>
    BY <1>2 DEF threadVars, LockInv, CallInv, HandleInv, Running
  <1>3. CASE ServiceDies
    BY <1>3, ExecutorAssumption
       DEF ServiceDies, LockInv, CallInv, HandleInv, Running, Stopped, Critical
  <1>4. ASSUME NEW c \in Child, ChildStep(c) PROVE UNCHANGED <<up, threadVars>>
    BY <1>4
       DEF ChildStep, ChildProgress, Normalize, Scrub, Harden, Greet, child_recv, Answer,
           Bye, ExitClean, LosesPeer, SetupFails, Die, KilledFromOutside
  <1>5. ASSUME NEW p \in Probe, ForkProbe(p) \/ ProbeExits(p) PROVE UNCHANGED <<up, threadVars>>
    BY <1>5 DEF ForkProbe, ProbeExits
  <1>6. CASE UNCHANGED vars
    BY <1>2, <1>6 DEF vars
  <1> QED
    BY <1>1, <1>2, <1>3, <1>4, <1>5, <1>6 DEF Next, Over

(***************************************************************************)
(* Who has which end open.                                                 *)
(***************************************************************************)

\* Reaping a zombie does not change what anybody has open.
LEMMA CapabilityDead ==
  ASSUME ChildTypes, CapabilityInv, UNCHANGED heldVars, NEW z \in Child,
         stage[z] = "zombie", stage' = [stage EXCEPT ![z] = "reaped"]
  PROVE  CapabilityInv'
  <1>1. ~Alive(z) /\ ~Alive(z)' BY SetupTable DEF Alive, Live, ChildTypes
  <1>2. \A d \in Child : z \notin svcHeld[d] /\ z \notin chdHeld[d]
    BY <1>1 DEF CapabilityInv
  <1>3. \A d \in Child \ {z} : stage'[d] = stage[d]
    BY DEF ChildTypes
  <1> QED BY <1>1, <1>2, <1>3 DEF CapabilityInv, Alive, heldVars

\* Nor do the last steps of a call: kill and waitpid.
LEMMA EndReap ==
  ASSUME TypeOK, EndInv, NEW t \in Thread, Kill(t) \/ Wait(t) \/ Reap(t)
  PROVE  EndInv'
  <1> USE DEF TypeOK, ThreadTypes
  <1>1. UNCHANGED <<svcHeld, chdHeld, state>> /\ pc[t] \in {"kill", "wait", "reap"}
    BY DEF Kill, Wait, Reap, heldVars
  <1>2. pc'[t] \in {"reap", "idle"} /\ \A u \in Thread \ {t} : pc'[u] = pc[u] /\ conn'[u] = conn[u]
    BY DEF Kill, Wait, Reap, Return, Goto
  <1>3. \A c \in Child : Opening(c)' <=> Opening(c)
    BY <1>1, <1>2 DEF Opening
  <1> QED BY <1>1, <1>3 DEF EndInv

\* A step of a thread keeps the account of the open ends.
LEMMA EndThread ==
  ASSUME TypeOK, LockInv, CallInv, HandleInv, EndInv, CapabilityInv, LifeInv,
         NEW t \in Thread, ThreadStep(t)
  PROVE  EndInv' /\ CapabilityInv'
  <1> USE ExecutorAssumption
      DEF TypeOK, ThreadTypes, ChildTypes, HeldTypes, LockInv, HandleInv, EndInv,
          CapabilityInv, Opening, Critical, AtLock, Goto, Return, Stopped, Running,
          Alive, Live, childVars, heldVars
  <1>1. ASSUME NEW o \in Op, Call(t, o) PROVE EndInv' /\ CapabilityInv'
    BY <1>1 DEF Call
  <1>2. ASSUME NEW c \in Child, OpenPair(t, c) PROVE EndInv' /\ CapabilityInv'
    <2>1. EndInv' BY <1>2 DEF OpenPair
    <2>2. CapabilityInv' BY <1>2 DEF OpenPair
    <2> QED BY <2>1, <2>2
  <1>3. CASE Refuse(t)
    BY <1>3 DEF Refuse
  <1>4. CASE OpenPairFails(t)
    <2>1. EndInv' BY <1>4 DEF OpenPairFails
    <2>2. CapabilityInv' BY <1>4 DEF OpenPairFails
    <2> QED BY <2>1, <2>2
  <1>5. CASE Begin(t)
    BY <1>5 DEF Begin, take_request_id
  <1>6. CASE Fork(t)
    BY <1>6 DEF Fork, Inherit, LifeInv
  <1>7. CASE ForkFails(t)
    BY <1>7 DEF ForkFails
  <1>8. CASE Install(t)
    BY <1>8 DEF Install
  <1>9. CASE parent_send(t)
    BY <1>9 DEF parent_send
  <1>10. CASE SendFails(t)
    BY <1>10 DEF SendFails
  <1>11. CASE parent_recv(t)
    BY <1>11 DEF parent_recv
  <1>12. CASE RecvEof(t)
    BY <1>12 DEF RecvEof
  <1>13. CASE Timeout(t)
    BY <1>13 DEF Timeout
  <1>14. CASE PollFails(t)
    BY <1>14 DEF PollFails
  <1>15. CASE Finish(t)
    BY <1>15 DEF Finish
  <1>16. CASE Detach(t)
    BY <1>16 DEF Detach, CloseEnd
  <1>17. CASE Wait(t)
    <2>1. EndInv' BY <1>17, EndReap
    <2>2. CapabilityInv'
      BY <1>17, CapabilityDead DEF Wait, Reaped
    <2> QED BY <2>1, <2>2
  <1>18. CASE WaitInterrupted(t)
    BY <1>18 DEF WaitInterrupted
  <1>19. CASE parent_force_terminate(t)
    BY <1>19 DEF parent_force_terminate, CloseEnd
  <1>20. CASE Kill(t)
    <2>1. EndInv' BY <1>20, EndReap
    <2>2. CapabilityInv' BY <1>20 DEF Kill
    <2> QED BY <2>1, <2>2
  <1>21. CASE Reap(t)
    <2>1. EndInv' BY <1>21, EndReap
    <2>2. CapabilityInv'
      BY <1>21, CapabilityDead DEF Reap, Reaped
    <2> QED BY <2>1, <2>2
  <1>22. CASE ReapInterrupted(t)
    BY <1>22 DEF ReapInterrupted
  <1> QED
    BY <1>1, <1>2, <1>3, <1>4, <1>5, <1>6, <1>7, <1>8, <1>9, <1>10, <1>11, <1>12, <1>13, <1>14, <1>15, <1>16, <1>17, <1>18, <1>19, <1>20, <1>21, <1>22
       DEF ThreadStep, CallStep

\* A child that ends closes what it has open, nothing else.
LEMMA EndExit ==
  ASSUME TypeOK, EndInv, CapabilityInv, NEW c \in Child, NEW how, Exit(c, how), up' = up,
         UNCHANGED threadVars
  PROVE  EndInv' /\ CapabilityInv'
  <1> USE ExecutorAssumption DEF TypeOK, ChildTypes, HeldTypes, Exit, Drop, threadVars
  <1>1. EndInv' BY DEF EndInv, Opening
  <1>2. CapabilityInv' BY SetupTable DEF CapabilityInv, Alive, Live
  <1> QED BY <1>1, <1>2

\* A step of a child keeps the account of the open ends.
LEMMA EndChild ==
  ASSUME TypeOK, EndInv, CapabilityInv, NEW c \in Child, ChildStep(c)
  PROVE  EndInv' /\ CapabilityInv'
  <1> USE DEF TypeOK, ChildTypes, HeldTypes
  <1>1. CASE Normalize(c)
    <2>1. EndInv'
      BY <1>1, ExecutorAssumption DEF Normalize, EndInv, Opening, threadVars
    <2>2. CapabilityInv'
      BY <1>1, SetupTable DEF Normalize, CapabilityInv, Alive, Live
    <2> QED BY <2>1, <2>2
  <1>2. CASE Scrub(c)
    <2>1. EndInv'
      BY <1>2, ExecutorAssumption DEF Scrub, Drop, EndInv, Opening, threadVars
    <2>2. CapabilityInv'
      BY <1>2, SetupTable DEF Scrub, Drop, CapabilityInv, Alive, Live
    <2> QED BY <2>1, <2>2
  <1>3. CASE /\ UNCHANGED <<threadVars, heldVars>>
             /\ stage' = [stage EXCEPT ![c] = stage'[c]]
             /\ stage[c] \in Live \ {"normalize", "scrub"}
             /\ stage'[c] \in Live \ {"normalize", "scrub"}
    <2>1. EndInv' BY <1>3 DEF EndInv, Opening, threadVars, heldVars
    <2>2. CapabilityInv' BY <1>3 DEF CapabilityInv, Alive, heldVars
    <2> QED BY <2>1, <2>2
  <1>4. CASE Harden(c) BY <1>3, <1>4, SetupTable DEF Harden, Live
  <1>5. CASE Greet(c) BY <1>3, <1>5, SetupTable DEF Greet, Live
  <1>6. CASE child_recv(c) BY <1>3, <1>6, SetupTable DEF child_recv, Live
  <1>7. CASE Answer(c) BY <1>3, <1>7, SetupTable DEF Answer, Live
  <1>8. CASE Bye(c) BY <1>3, <1>8, SetupTable DEF Bye, Live
  <1>9. CASE ExitClean(c) BY <1>9, EndExit DEF ExitClean
  <1>10. CASE LosesPeer(c) BY <1>10, EndExit DEF LosesPeer
  <1>11. CASE SetupFails(c) BY <1>11, EndExit DEF SetupFails
  <1>12. CASE Die(c) BY <1>12, EndExit DEF Die
  <1>13. CASE KilledFromOutside(c)
    BY <1>13 DEF KilledFromOutside, EndInv, Opening, CapabilityInv, Alive, threadVars, heldVars
  <1> QED
    BY <1>1, <1>2, <1>4, <1>5, <1>6, <1>7, <1>8, <1>9, <1>10, <1>11, <1>12, <1>13
       DEF ChildStep, ChildProgress

\* So does every step.
LEMMA EndStep ==
  ASSUME TypeOK, LockInv, CallInv, HandleInv, EndInv, CapabilityInv, LifeInv, [Next]_vars
  PROVE  EndInv' /\ CapabilityInv'
  <1>1. ASSUME NEW t \in Thread, ThreadStep(t) PROVE EndInv' /\ CapabilityInv'
    BY <1>1, EndThread
  <1>2. ASSUME NEW c \in Child, ChildStep(c) PROVE EndInv' /\ CapabilityInv'
    BY <1>2, EndChild
  <1>3. ASSUME NEW p \in Probe, ForkProbe(p) PROVE EndInv' /\ CapabilityInv'
    BY <1>3, ExecutorAssumption
       DEF ForkProbe, Inherit, TypeOK, HeldTypes, EndInv, Opening, CapabilityInv, Alive,
           threadVars, childVars
  <1>4. ASSUME NEW p \in Probe, ProbeExits(p) PROVE EndInv' /\ CapabilityInv'
    BY <1>4, ExecutorAssumption
       DEF ProbeExits, Drop, TypeOK, HeldTypes, EndInv, Opening, CapabilityInv, Alive,
           threadVars, childVars
  <1>5. CASE ServiceDies
    <2>1. EndInv'
      BY <1>5, ExecutorAssumption
         DEF ServiceDies, Drop, TypeOK, HeldTypes, EndInv, Opening, Stopped
    <2>2. \A c \in Child : /\ Alive(c)' <=> Alive(c)
                           /\ Alive(c) => stage'[c] = stage[c]
                           /\ stage[c] \in Setup => Alive(c)
      BY <1>5, SetupTable DEF ServiceDies, Alive, Live, TypeOK, ChildTypes
    <2>3. CapabilityInv'
      BY <1>5, <2>2, SetupTable, ExecutorAssumption
         DEF ServiceDies, Drop, TypeOK, HeldTypes, CapabilityInv
    <2> QED BY <2>1, <2>3
  <1>6. CASE UNCHANGED vars
    BY <1>6 DEF vars, EndInv, Opening, CapabilityInv, Alive, threadVars, childVars, heldVars
  <1> QED
    BY <1>1, <1>2, <1>3, <1>4, <1>5, <1>6 DEF Next, Over

(***************************************************************************)
(* Which children live, and which of them are on their way out.            *)
(***************************************************************************)

\* The holder of STATE is alone in the critical places.
LEMMA Alone ==
  ASSUME LockInv, HandleInv, NEW t \in Thread, pc[t] \in Critical
  PROVE  /\ owner = t /\ conn[t] \in Child
         /\ \A u \in Thread : pc[u] \in Critical => u = t
  BY DEF LockInv, HandleInv

\* A step that leaves the children, the recorded child and the current
\* start or termination alone keeps OneExecutor.
LEMMA OneFrame ==
  ASSUME OneExecutor, up' => up, state'.child = state.child,
         \A c \in Child : Alive(c)' => Alive(c) /\ (Doomed(c) => Doomed(c)'),
         \A u \in Thread : pc[u] \in {"install", "kill"} => pc'[u] = pc[u] /\ conn'[u] = conn[u]
  PROVE  OneExecutor'
  BY DEF OneExecutor

\* Recording the forked child keeps OneExecutor.
LEMMA OneInstall ==
  ASSUME TypeOK, LockInv, HandleInv, OneExecutor, NEW t \in Thread, Install(t)
  PROVE  OneExecutor'
  <1>1. pc[t] = "install" /\ UNCHANGED <<up, childVars>> /\ state'.child = conn[t]
    BY DEF Install
  <1>2. conn[t] \in Child /\ ~Running /\ \A u \in Thread : pc[u] \in Critical => u = t
    BY <1>1, Alone, PlaceTable DEF HandleInv
  <1>3. \A c \in Child : Alive(c)' = Alive(c) /\ Doomed(c)' = Doomed(c)
    BY <1>1 DEF Alive, Doomed, childVars
  <1> QED BY <1>1, <1>2, <1>3, PlaceTable, ExecutorAssumption DEF OneExecutor, Running

\* What kill does to the pending signals.
LEMMA KillEffect ==
  ASSUME TypeOK, LockInv, HandleInv, NEW t \in Thread, Kill(t)
  PROVE  /\ Alive(conn[t]) => killed'[conn[t]]
         /\ \A c \in Child \ {conn[t]} : killed'[c] = killed[c]
  <1>1. conn[t] \in Child BY Alone, PlaceTable DEF Kill
  <1> DEFINE b == Alive(conn[t])
  <1>2. killed' = [killed EXCEPT ![conn[t]] = b] BY DEF Kill
  <1> HIDE DEF b
  <1>3. killed'[conn[t]] = b /\ \A c \in Child \ {conn[t]} : killed'[c] = killed[c]
    BY <1>1, <1>2 DEF TypeOK, ChildTypes
  <1> QED BY <1>3 DEF b

\* A step of a thread keeps every child accounted for.
LEMMA LifeThread ==
  ASSUME TypeOK, LockInv, CallInv, HandleInv, LifeInv, ReapInv, OneExecutor, ChannelInv,
         NEW t \in Thread, ThreadStep(t)
  PROVE  LifeInv' /\ ReapInv' /\ OneExecutor'
  <1> USE ExecutorAssumption, SetupTable
      DEF TypeOK, ThreadTypes, ChildTypes, WireTypes, LockInv, HandleInv, LifeInv, ReapInv,
          OneExecutor, Doomed, Unreaped, Critical, AtLock, Goto, Return, Stopped, Running,
          Alive, Live, childVars, wireVars
  <1>1. ASSUME NEW o \in Op, Call(t, o) PROVE LifeInv' /\ ReapInv' /\ OneExecutor'
    <2>1. LifeInv' BY <1>1 DEF Call
    <2>2. ReapInv' BY <1>1 DEF Call
    <2>3. OneExecutor' BY <1>1, OneFrame DEF Call
    <2> QED BY <2>1, <2>2, <2>3
  <1>2. ASSUME NEW c \in Child, OpenPair(t, c) PROVE LifeInv' /\ ReapInv' /\ OneExecutor'
    <2>1. LifeInv' BY <1>2 DEF OpenPair
    <2>2. ReapInv' BY <1>2 DEF OpenPair
    <2>3. OneExecutor' BY <1>2 DEF OpenPair
    <2> QED BY <2>1, <2>2, <2>3
  <1>3. CASE Refuse(t)
    <2>1. LifeInv' BY <1>3 DEF Refuse
    <2>2. ReapInv' BY <1>3 DEF Refuse
    <2>3. OneExecutor' BY <1>3 DEF Refuse
    <2> QED BY <2>1, <2>2, <2>3
  <1>4. CASE OpenPairFails(t)
    <2>1. LifeInv' BY <1>4 DEF OpenPairFails
    <2>2. ReapInv' BY <1>4 DEF OpenPairFails
    <2>3. OneExecutor' BY <1>4 DEF OpenPairFails
    <2> QED BY <2>1, <2>2, <2>3
  <1>5. CASE Begin(t)
    <2>1. LifeInv' BY <1>5 DEF Begin, take_request_id
    <2>2. ReapInv' BY <1>5 DEF Begin, take_request_id
    <2>3. OneExecutor' BY <1>5 DEF Begin, take_request_id
    <2> QED BY <2>1, <2>2, <2>3
  <1>6. CASE Fork(t)
    <2>1. LifeInv' BY <1>6 DEF Fork
    <2>2. ReapInv' BY <1>6 DEF Fork
    <2>3. OneExecutor' BY <1>6 DEF Fork
    <2> QED BY <2>1, <2>2, <2>3
  <1>7. CASE ForkFails(t)
    <2>1. LifeInv' BY <1>7 DEF ForkFails
    <2>2. ReapInv' BY <1>7 DEF ForkFails
    <2>3. OneExecutor' BY <1>7 DEF ForkFails
    <2> QED BY <2>1, <2>2, <2>3
  <1>8. CASE Install(t)
    <2>1. LifeInv' BY <1>8 DEF Install
    <2>2. ReapInv' BY <1>8 DEF Install
    <2>3. OneExecutor' BY <1>8, OneInstall
    <2> QED BY <2>1, <2>2, <2>3
  <1>9. CASE parent_send(t)
    <2>1. LifeInv'
      <3>1. \A c \in Child : stage[c] = "unborn" => toChild'[c] = toChild[c]
        <4>1. conn[t] \in Child /\ stage[conn[t]] # "unborn"
          BY <1>9 DEF parent_send
        <4> QED BY <1>9, <4>1 DEF parent_send
      <3> QED BY <1>9, <3>1 DEF parent_send
    <2>2. ReapInv' BY <1>9 DEF parent_send
    <2>3. OneExecutor' BY <1>9 DEF parent_send
    <2> QED BY <2>1, <2>2, <2>3
  <1>10. CASE SendFails(t)
    <2>1. LifeInv' BY <1>10 DEF SendFails
    <2>2. ReapInv' BY <1>10 DEF SendFails
    <2>3. OneExecutor' BY <1>10 DEF SendFails
    <2> QED BY <2>1, <2>2, <2>3
  <1>11. CASE parent_recv(t)
    <2>1. LifeInv' BY <1>11 DEF parent_recv
    <2>2. ReapInv' BY <1>11 DEF parent_recv
    <2>3. OneExecutor' BY <1>11 DEF parent_recv
    <2> QED BY <2>1, <2>2, <2>3
  <1>12. CASE RecvEof(t)
    <2>1. LifeInv' BY <1>12 DEF RecvEof
    <2>2. ReapInv' BY <1>12 DEF RecvEof
    <2>3. OneExecutor' BY <1>12 DEF RecvEof
    <2> QED BY <2>1, <2>2, <2>3
  <1>13. CASE Timeout(t)
    <2>1. LifeInv' BY <1>13 DEF Timeout
    <2>2. ReapInv' BY <1>13 DEF Timeout
    <2>3. OneExecutor' BY <1>13 DEF Timeout
    <2> QED BY <2>1, <2>2, <2>3
  <1>14. CASE PollFails(t)
    <2>1. LifeInv' BY <1>14 DEF PollFails
    <2>2. ReapInv' BY <1>14 DEF PollFails
    <2>3. OneExecutor' BY <1>14 DEF PollFails
    <2> QED BY <2>1, <2>2, <2>3
  <1>15. CASE Finish(t)
    <2>1. LifeInv' BY <1>15 DEF Finish
    <2>2. ReapInv' BY <1>15 DEF Finish
    <2>3. OneExecutor' BY <1>15 DEF Finish
    <2> QED BY <2>1, <2>2, <2>3
  <1>16. CASE Detach(t)
    <2>1. LifeInv' BY <1>16 DEF Detach, CloseEnd, ChannelInv, Leaving
    <2>2. ReapInv' BY <1>16 DEF Detach, CloseEnd, ChannelInv, Leaving
    <2>3. OneExecutor' BY <1>16 DEF Detach, CloseEnd, ChannelInv, Leaving
    <2> QED BY <2>1, <2>2, <2>3
  <1>17. CASE Wait(t)
    <2>1. LifeInv' BY <1>17 DEF Wait, Reaped
    <2>2. ReapInv' BY <1>17 DEF Wait, Reaped
    <2>3. OneExecutor' BY <1>17 DEF Wait, Reaped
    <2> QED BY <2>1, <2>2, <2>3
  <1>18. CASE WaitInterrupted(t)
    <2>1. LifeInv' BY <1>18 DEF WaitInterrupted, ChannelInv
    <2>2. ReapInv' BY <1>18 DEF WaitInterrupted, ChannelInv
    <2>3. OneExecutor' BY <1>18 DEF WaitInterrupted, ChannelInv
    <2> QED BY <2>1, <2>2, <2>3
  <1>19. CASE parent_force_terminate(t)
    <2>1. LifeInv' BY <1>19 DEF parent_force_terminate, CloseEnd
    <2>2. ReapInv' BY <1>19 DEF parent_force_terminate, CloseEnd
    <2>3. OneExecutor' BY <1>19 DEF parent_force_terminate, CloseEnd
    <2> QED BY <2>1, <2>2, <2>3
  <1>20. CASE Kill(t)
    <2>1. LifeInv' BY <1>20 DEF Kill
    <2>2. conn[t] \in Child /\ \A u \in Thread \ {t} : pc[u] \notin Critical
      BY <1>20 DEF Kill
    <2>4. /\ Alive(conn[t]) => killed'[conn[t]]
          /\ \A c \in Child \ {conn[t]} : killed'[c] = killed[c]
      BY <1>20, KillEffect
    <2>5. ReapInv' BY <1>20, <2>2, <2>4 DEF Kill
    <2>6. OneExecutor' BY <1>20, <2>2, <2>4 DEF Kill
    <2> QED BY <2>1, <2>5, <2>6
  <1>21. CASE Reap(t)
    <2>1. LifeInv' BY <1>21 DEF Reap, Reaped
    <2>2. ReapInv' BY <1>21 DEF Reap, Reaped
    <2>3. OneExecutor' BY <1>21 DEF Reap, Reaped
    <2> QED BY <2>1, <2>2, <2>3
  <1>22. CASE ReapInterrupted(t)
    <2>1. LifeInv' BY <1>22 DEF ReapInterrupted
    <2>2. ReapInv' BY <1>22 DEF ReapInterrupted
    <2>3. OneExecutor' BY <1>22 DEF ReapInterrupted
    <2> QED BY <2>1, <2>2, <2>3
  <1> QED
    BY <1>1, <1>2, <1>3, <1>4, <1>5, <1>6, <1>7, <1>8, <1>9, <1>10, <1>11, <1>12, <1>13, <1>14, <1>15, <1>16, <1>17, <1>18, <1>19, <1>20, <1>21, <1>22
       DEF ThreadStep, CallStep

\* A child that ends is still there to be reaped while the service lives.
LEMMA LifeExit ==
  ASSUME TypeOK, LockInv, HandleInv, LifeInv, ReapInv, OneExecutor, NEW c \in Child, NEW how,
         Alive(c), Exit(c, how), UNCHANGED <<up, threadVars, toService>>
  PROVE  LifeInv' /\ ReapInv' /\ OneExecutor'
  <1>1. /\ stage' = [stage EXCEPT ![c] = IF up THEN "zombie" ELSE "reaped"]
        /\ \A d \in Child \ {c} :
              killed'[d] = killed[d] /\ toChild'[d] = toChild[d] /\ stage'[d] = stage[d]
        /\ stage'[c] \in {"zombie", "reaped"} /\ (up => stage'[c] = "zombie")
    BY DEF Exit, TypeOK, ChildTypes, WireTypes
  <1>2. stage[c] \in Live /\ ~Alive(c)' /\ \A d \in Child \ {c} : Alive(d)' = Alive(d)
    BY <1>1, SetupTable DEF Alive, Live
  <1>3. LifeInv'
    <2>1. Running' => Unreaped(state.child)'
      BY <1>1 DEF LifeInv, LockInv, Running, Unreaped, threadVars, TypeOK, ThreadTypes
    <2>2. ASSUME NEW t \in Thread
          PROVE  /\ pc'[t] = "fork" => stage'[conn'[t]] = "unborn"
                 /\ pc'[t] \in {"install", "kill", "reap", "wait"} => Unreaped(conn[t])'
      <3>1. pc[t] # "gone" => up BY DEF LockInv
      <3>2. stage[c] # "unborn" BY <1>2, SetupTable DEF Live
      <3>3. pc' = pc /\ conn' = conn BY DEF threadVars
      <3>4. pc[t] \in Critical => conn[t] \in Child BY DEF HandleInv
      <3>5. CASE pc[t] = "fork"
        BY <1>1, <3>2, <3>3, <3>4, <3>5, PlaceTable DEF LifeInv
      <3>6. CASE pc[t] \in {"install", "kill", "reap", "wait"}
        <4>1. up /\ Unreaped(conn[t]) /\ conn[t] \in Child
          BY <3>1, <3>4, <3>6, PlaceTable DEF LifeInv
        <4> QED BY <1>1, <3>3, <3>6, <4>1 DEF Unreaped
      <3> QED BY <3>3, <3>5, <3>6
    <2>3. \A d \in Child : stage'[d] = "unborn" =>
             ~killed'[d] /\ toChild'[d] = <<>> /\ toService'[d] = <<>>
      BY <1>1 DEF LifeInv
    <2> QED BY <2>1, <2>2, <2>3 DEF LifeInv
  <1>4. ReapInv'
    <2>1. \A t \in Thread : pc[t] = "reap" => conn[t] \in Child
      BY PlaceTable DEF HandleInv
    <2> QED BY <1>1, <1>2, <2>1 DEF ReapInv, threadVars
  <1>5. OneExecutor'
    <2>1. \A d \in Child : Alive(d)' => Alive(d) /\ (Doomed(d) => Doomed(d)')
      BY <1>1, <1>2 DEF Doomed
    <2> QED BY <2>1, OneFrame DEF threadVars
  <1> QED BY <1>3, <1>4, <1>5

\* A child that goes on living does not escape the account.
LEMMA LifeMove ==
  ASSUME TypeOK, LifeInv, ReapInv, OneExecutor, NEW c \in Child, NEW next \in Live,
         Alive(c), stage[c] # "bye", stage' = [stage EXCEPT ![c] = next],
         UNCHANGED <<up, threadVars, killed>>,
         \A d \in Child \ {c} : toChild'[d] = toChild[d] /\ toService'[d] = toService[d]
  PROVE  LifeInv' /\ ReapInv' /\ OneExecutor'
  <1>1. stage'[c] \in Live /\ \A d \in Child \ {c} : stage'[d] = stage[d]
    BY DEF TypeOK, ChildTypes
  <1>2. \A d \in Child : Alive(d)' = Alive(d) /\ (Doomed(d) => Doomed(d)')
    BY <1>1 DEF Alive, Doomed
  <1>3. stage[c] \notin {"unborn", "zombie", "reaped"} /\ stage'[c] # "unborn"
    BY <1>1, SetupTable DEF Alive, Live
  <1>4. LifeInv'
    BY <1>1, <1>3 DEF LifeInv, Running, Unreaped, threadVars, Alive
  <1>5. ReapInv'
    BY <1>2 DEF ReapInv, threadVars, Alive, TypeOK, ChildTypes
  <1>6. OneExecutor'
    BY <1>2, OneFrame DEF threadVars
  <1> QED BY <1>4, <1>5, <1>6

\* A step of a child keeps every child accounted for.
LEMMA LifeChild ==
  ASSUME TypeOK, LockInv, HandleInv, LifeInv, ReapInv, OneExecutor, NEW c \in Child,
         ChildStep(c)
  PROVE  LifeInv' /\ ReapInv' /\ OneExecutor'
  <1> USE SetupTable DEF Alive, Live
  <1>0. stage \in [Child -> Live \cup {"unborn", "zombie", "reaped"}] /\
        toChild \in [Child -> Seq(Requests)] /\ toService \in [Child -> Seq(Responses)]
    BY DEF TypeOK, ChildTypes, WireTypes
  <1>1. CASE Normalize(c) BY <1>0, <1>1, LifeMove DEF Normalize, wireVars
  <1>2. CASE Scrub(c) BY <1>0, <1>2, LifeMove DEF Scrub, wireVars
  <1>3. CASE Harden(c) BY <1>0, <1>3, LifeMove DEF Harden, wireVars
  <1>4. CASE Greet(c) BY <1>0, <1>4, LifeMove DEF Greet, child_send
  <1>5. CASE child_recv(c) BY <1>0, <1>5, LifeMove DEF child_recv
  <1>6. CASE Answer(c) BY <1>0, <1>6, LifeMove DEF Answer, child_send
  <1>7. CASE Bye(c) BY <1>0, <1>7, LifeMove DEF Bye, child_send
  <1>8. CASE ExitClean(c) BY <1>8, LifeExit DEF ExitClean
  <1>9. CASE LosesPeer(c) BY <1>9, LifeExit DEF LosesPeer
  <1>10. CASE SetupFails(c) BY <1>10, LifeExit DEF SetupFails
  <1>11. CASE Die(c) BY <1>11, LifeExit DEF Die
  <1>12. CASE KilledFromOutside(c)
    <2>1. \A d \in Child : killed[d] => killed'[d]
      BY <1>12 DEF KilledFromOutside, TypeOK, ChildTypes
    <2>2. \A d \in Child : stage[d] = "unborn" => killed'[d] = killed[d]
      BY <1>0, <1>12 DEF KilledFromOutside, TypeOK, ChildTypes
    <2>3. LifeInv'
      BY <1>12, <2>2 DEF KilledFromOutside, LifeInv, Running, Unreaped, threadVars, wireVars
    <2>4. ReapInv'
      BY <1>12, <2>1, PlaceTable DEF KilledFromOutside, ReapInv, threadVars, HandleInv
    <2>5. OneExecutor'
      BY <1>12, <2>1, OneFrame DEF KilledFromOutside, Doomed, threadVars
    <2> QED BY <2>3, <2>4, <2>5
  <1> QED
    BY <1>1, <1>2, <1>3, <1>4, <1>5, <1>6, <1>7, <1>8, <1>9, <1>10, <1>11, <1>12
       DEF ChildStep, ChildProgress

\* So does every step.
LEMMA LifeStep ==
  ASSUME TypeOK, LockInv, CallInv, HandleInv, LifeInv, ReapInv, OneExecutor, ChannelInv,
         [Next]_vars
  PROVE  LifeInv' /\ ReapInv' /\ OneExecutor'
  <1>1. ASSUME NEW t \in Thread, ThreadStep(t) PROVE LifeInv' /\ ReapInv' /\ OneExecutor'
    BY <1>1, LifeThread
  <1>2. ASSUME NEW c \in Child, ChildStep(c) PROVE LifeInv' /\ ReapInv' /\ OneExecutor'
    BY <1>2, LifeChild
  <1>3. CASE UNCHANGED <<up, threadVars, childVars, wireVars>>
    BY <1>3 DEF LifeInv, ReapInv, OneExecutor, Doomed, Alive, Unreaped, Running,
                threadVars, childVars, wireVars
  <1>4. CASE ServiceDies
    <2>1. \A t \in Thread : pc'[t] = "gone" BY <1>4 DEF ServiceDies
    <2>2. \A c \in Child : stage'[c] = "unborn" => stage[c] = "unborn" /\ ~Alive(c)
      BY <1>4, SetupTable DEF ServiceDies, Alive, Live
    <2>3. LifeInv'
      BY <1>4, <2>1, <2>2 DEF ServiceDies, LifeInv, Running, Stopped
    <2> QED BY <1>4, <2>1, <2>3 DEF ServiceDies, ReapInv, OneExecutor
  <1>5. ASSUME NEW p \in Probe, ForkProbe(p) \/ ProbeExits(p)
        PROVE  UNCHANGED <<up, threadVars, childVars, wireVars>>
    BY <1>5 DEF ForkProbe, ProbeExits
  <1>6. CASE UNCHANGED vars BY <1>3, <1>6 DEF vars
  <1> QED
    BY <1>1, <1>2, <1>3, <1>4, <1>5, <1>6 DEF Next, Over

(***************************************************************************)
(* What is in flight.                                                      *)
(***************************************************************************)

\* While STATE is not held, only the quiet channel is at stake.
LEMMA ChannelFree ==
  ASSUME owner' = NoThread, LockInv', Running' => Quiet(state.child)'
  PROVE  ChannelInv'
  <1>1. \A t \in Thread : pc'[t] \notin Critical
    BY ExecutorAssumption DEF LockInv
  <1> QED BY <1>1, PlaceTable DEF ChannelInv, ChannelIsQuiet

\* While t holds STATE, only the channel of its child is at stake.
LEMMA ChannelHeld ==
  ASSUME NEW t \in Thread, owner' = t, LockInv',
         pc'[t] = "install" => Early(conn[t])',
         pc'[t] = "send" => Quiet(conn[t])',
         pc'[t] = "await" => IF op'[t] = "start" THEN Early(conn[t])' ELSE Exchange(t, conn[t])',
         pc'[t] = "accepted" => IF op'[t] = "shutdown" THEN Leaving(conn[t])' ELSE Quiet(conn[t])',
         pc'[t] = "wait" => stage'[conn'[t]] \in {"bye", "zombie"}
  PROVE  ChannelInv'
  <1>1. \A u \in Thread : pc'[u] \in Critical => u = t
    BY DEF LockInv
  <1> QED BY <1>1, PlaceTable, ExecutorAssumption DEF ChannelInv, ChannelIsQuiet

\* Reading the only packet empties the queue.
LEMMA TailOne == \A m : Tail(<<m>>) = <<>> /\ Head(<<m>>) = m
  OBVIOUS

\* The packet parent_recv takes: the only one there.
LEMMA RecvOnly ==
  ASSUME TypeOK, LockInv, CallInv, HandleInv, ChannelInv, NEW t \in Thread, parent_recv(t)
  PROVE  /\ toService'[conn[t]] = <<>> /\ toChild'[conn[t]] = <<>>
         /\ stage'[conn[t]] \in {"zombie", IF op[t] = "shutdown" THEN "bye" ELSE "recv"}
  <1>1. /\ pc[t] = "await" /\ toService[conn[t]] # <<>>
        /\ toService' = [toService EXCEPT ![conn[t]] = Tail(@)]
        /\ UNCHANGED <<toChild, stage>>
    BY DEF parent_recv, childVars
  <1>2. conn[t] \in Child BY <1>1, PlaceTable DEF HandleInv
  <1>3. CASE op[t] = "start"
    <2>1. Early(conn[t]) BY <1>1, <1>3 DEF ChannelInv
    <2>2. toService[conn[t]] = <<ResponseMsg(RESP_READY, 0)>> BY <1>1, <2>1 DEF Early
    <2>3. Tail(toService[conn[t]]) = <<>> BY <2>2, TailOne
    <2> QED BY <1>1, <1>2, <1>3, <2>1, <2>3 DEF Early, TypeOK, WireTypes
  <1>4. CASE op[t] # "start"
    <2>1. Exchange(t, conn[t]) BY <1>1, <1>4 DEF ChannelInv
    <2>2. toService[conn[t]] = <<ResponseMsg(Expected[op[t]], rid[t])>>
      BY <1>1, <2>1 DEF Exchange
    <2>3. Tail(toService[conn[t]]) = <<>> BY <2>2, TailOne
    <2> QED BY <1>1, <1>2, <2>1, <2>3 DEF Exchange, TypeOK, WireTypes
  <1> QED BY <1>3, <1>4

\* A step of a thread keeps the channels in order.
LEMMA ChannelThread ==
  ASSUME TypeOK, LockInv, CallInv, HandleInv, LifeInv, ChannelInv,
         NEW t \in Thread, ThreadStep(t), LockInv', HandleInv'
  PROVE  ChannelInv'
  <1> USE ExecutorAssumption DEF AtLock, Goto, childVars, wireVars
  <1>0. pc \in [Thread -> Critical \cup {"idle", "lock", "gone"}]
    BY DEF TypeOK, ThreadTypes
  <1>1. ASSUME NEW o \in Op, Call(t, o) PROVE ChannelInv'
    <2>1. UNCHANGED <<owner, state, conn, stage, req, toChild, toService>> /\ pc[t] = "idle"
          /\ \A u \in Thread \ {t} : pc'[u] = pc[u] /\ op'[u] = op[u]
      BY <1>0, <1>1 DEF Call, TypeOK, ThreadTypes
    <2>2. CASE owner = NoThread
      BY <2>1, <2>2, ChannelFree DEF ChannelInv, ChannelIsQuiet, Quiet, Running
    <2>3. CASE owner # NoThread
      <3>1. PICK u \in Thread : owner = u BY <2>3 DEF TypeOK, ThreadTypes
      <3>2. pc[u] \in Critical /\ u # t BY <2>1, <3>1 DEF LockInv, Critical
      <3>3. UNCHANGED rid BY <1>1 DEF Call
      <3> QED
        <4>1. pc'[u] = pc[u] /\ op'[u] = op[u] /\ conn'[u] = conn[u] BY <2>1, <3>2
        <4>2. /\ Early(conn[u])' = Early(conn[u])
              /\ Quiet(conn[u])' = Quiet(conn[u])
              /\ Leaving(conn[u])' = Leaving(conn[u])
          BY <2>1 DEF Early, Quiet, Leaving
        <4>3. Exchange(u, conn[u])' = Exchange(u, conn[u])
          BY <2>1, <3>3, <4>1 DEF Exchange
        <4> QED BY <2>1, <3>1, <4>1, <4>2, <4>3, ChannelHeld DEF ChannelInv
    <2> QED BY <2>2, <2>3
  <1>2. ASSUME NEW c \in Child, OpenPair(t, c) PROVE ChannelInv'
    BY <1>0, <1>2, ChannelHeld DEF OpenPair
  <1>3. CASE Refuse(t)
    BY <1>3, ChannelFree DEF Refuse, Return, ChannelInv, ChannelIsQuiet, Quiet, Running
  <1>4. CASE OpenPairFails(t)
    BY <1>4, ChannelFree DEF OpenPairFails, Return, Running
  <1>5. CASE Begin(t)
    <2>1. conn'[t] = state.child /\ pc'[t] = "send"
      BY <1>5 DEF Begin, TypeOK, ThreadTypes
    <2>2. Quiet(conn[t])' BY <1>5, <2>1 DEF Begin, ChannelInv, ChannelIsQuiet, Quiet
    <2> QED BY <1>5, <2>1, <2>2, ChannelHeld DEF Begin
  <1>6. CASE Fork(t)
    <2>1. conn[t] \in Child /\ owner = t
      BY <1>6, Alone, PlaceTable DEF Fork
    <2>2. Early(conn[t])'
      BY <1>6, <2>1, SetupTable DEF Fork, LifeInv, Early, TypeOK, ChildTypes
    <2> QED BY <1>0, <1>6, <2>1, <2>2, ChannelHeld DEF Fork
  <1>7. CASE ForkFails(t)
    BY <1>7, ChannelFree DEF ForkFails, Return, HandleInv, Running
  <1>8. CASE Install(t)
    <2>1. owner = t /\ op[t] = "start" BY <1>8, Alone, PlaceTable DEF Install, CallInv
    <2>2. Early(conn[t])' BY <1>8 DEF Install, ChannelInv, Early
    <2> QED BY <1>0, <1>8, <2>1, <2>2, ChannelHeld DEF Install
  <1>9. CASE parent_send(t)
    <2>1. owner = t /\ conn[t] \in Child /\ op[t] # "start"
      BY <1>9, Alone, PlaceTable DEF parent_send, CallInv
    <2>2. Quiet(conn[t]) BY <1>9 DEF parent_send, ChannelInv
    <2>3. toChild'[conn[t]] = <<RequestMsg(op[t], rid[t])>>
      BY <1>9, <2>1, <2>2 DEF parent_send, Quiet, TypeOK, WireTypes
    <2>4. Exchange(t, conn[t])' BY <1>9, <2>2, <2>3 DEF parent_send, Quiet, Exchange
    <2> QED BY <1>0, <1>9, <2>1, <2>4, ChannelHeld DEF parent_send
  <1>10. CASE parent_recv(t)
    <2>1. owner = t BY <1>10, Alone, PlaceTable DEF parent_recv
    <2>2. op[t] = "shutdown" => Leaving(conn[t])'
      BY <1>10, RecvOnly DEF parent_recv, Leaving
    <2>3. op[t] # "shutdown" => Quiet(conn[t])'
      BY <1>10, RecvOnly DEF parent_recv, Quiet
    <2>4. pc'[t] \in {"accepted", "terminate"} BY <1>0, <1>10 DEF parent_recv
    <2> QED BY <1>10, <2>1, <2>2, <2>3, <2>4, ChannelHeld DEF parent_recv
  <1>11. CASE SendFails(t) \/ RecvEof(t) \/ Timeout(t) \/ PollFails(t)
    <2>1. owner' = t /\ pc'[t] = "terminate"
      BY <1>0, <1>11, Alone, PlaceTable DEF SendFails, RecvEof, Timeout, PollFails
    <2> QED BY <2>1, ChannelHeld
  <1>12. CASE parent_force_terminate(t)
    <2>1. owner' = t /\ pc'[t] = "kill"
      BY <1>0, <1>12, Alone, PlaceTable DEF parent_force_terminate
    <2> QED BY <2>1, ChannelHeld
  <1>13. CASE Kill(t)
    <2>1. owner' = t /\ pc'[t] = "reap"
      BY <1>0, <1>13, Alone, PlaceTable DEF Kill
    <2> QED BY <2>1, ChannelHeld
  <1>14. CASE Finish(t)
    <2>1. Quiet(conn[t]) /\ state.child = conn[t]
      BY <1>14 DEF Finish, ChannelInv, HandleInv
    <2> QED BY <1>14, <2>1, ChannelFree DEF Finish, Return, Quiet
  <1>15. CASE Detach(t)
    <2>1. owner' = t /\ pc'[t] = "wait" /\ stage'[conn'[t]] \in {"bye", "zombie"}
      BY <1>0, <1>15, Alone, PlaceTable DEF Detach, ChannelInv, Leaving
    <2> QED BY <2>1, ChannelHeld
  <1>16. CASE Wait(t) \/ WaitInterrupted(t) \/ Reap(t) \/ ReapInterrupted(t)
    BY <1>16, ChannelFree
       DEF Wait, WaitInterrupted, Reap, ReapInterrupted, Return, HandleInv, Running
  <1> QED
    BY <1>1, <1>2, <1>3, <1>4, <1>5, <1>6, <1>7, <1>8, <1>9, <1>10, <1>11, <1>12,
       <1>13, <1>14, <1>15, <1>16
       DEF ThreadStep, CallStep

\* What a step of c does to its own channel, whoever waits on it.
LEMMA ChannelOwn ==
  ASSUME TypeOK, up, NEW c \in Child, ChildStep(c), NEW t
  PROVE  /\ Quiet(c) => Quiet(c)'
         /\ Early(c) => Early(c)'
         /\ Leaving(c) => Leaving(c)'
         /\ stage[c] \in {"bye", "zombie"} => stage'[c] \in {"bye", "zombie"}
         /\ op[t] \in Op \ {"start"} /\ Exchange(t, c) /\ CanAnswer(c) => Exchange(t, c)'
  <1> USE SetupTable
  <1> DEFINE Own == /\ Quiet(c) => Quiet(c)'
                    /\ Early(c) => Early(c)'
                    /\ Leaving(c) => Leaving(c)'
                    /\ stage[c] \in {"bye", "zombie"} => stage'[c] \in {"bye", "zombie"}
                    /\ op[t] \in Op \ {"start"} /\ Exchange(t, c) /\ CanAnswer(c)
                          => Exchange(t, c)'
  <1>0. c \in DOMAIN stage /\ c \in DOMAIN toChild /\ c \in DOMAIN toService /\ c \in DOMAIN req
    BY DEF TypeOK, ChildTypes, WireTypes
  <1>1. CASE /\ stage[c] \in Setup /\ stage'[c] \in Setup \cup {"greet"}
             /\ UNCHANGED <<toChild, toService>>
    BY <1>1 DEF Quiet, Early, Leaving, Exchange
  <1>2. CASE Normalize(c) \/ Scrub(c) \/ Harden(c)
    BY <1>0, <1>1, <1>2 DEF Normalize, Scrub, Harden, wireVars
  <1>3. CASE Greet(c)
    <2>1. toService'[c] = Append(toService[c], ResponseMsg(RESP_READY, 0)) /\ stage'[c] = "recv"
      BY <1>0, <1>3 DEF Greet, child_send
    <2>2. Append(<<>>, ResponseMsg(RESP_READY, 0)) = <<ResponseMsg(RESP_READY, 0)>>
      OBVIOUS
    <2> QED BY <1>3, <2>1, <2>2 DEF Greet, Quiet, Early, Leaving, Exchange
  <1>4. CASE child_recv(c)
    <2>1. /\ toChild'[c] = Tail(toChild[c]) /\ stage'[c] = "answer"
          /\ req'[c] = [opcode |-> Head(toChild[c]).opcode,
                         request_id |-> Head(toChild[c]).request_id]
      BY <1>0, <1>4 DEF child_recv
    <2>2. Exchange(t, c) => /\ toChild[c] = <<RequestMsg(op[t], rid[t])>>
                            /\ toService[c] = <<>>
      BY <1>4 DEF child_recv, Exchange
    <2>3. Exchange(t, c) => /\ Tail(toChild[c]) = <<>>
                            /\ Head(toChild[c]) = RequestMsg(op[t], rid[t])
      BY <2>2, TailOne
    <2>4. UNCHANGED <<toService, op, rid>> BY <1>4 DEF child_recv, threadVars
    <2>5. Exchange(t, c) => req'[c] = [opcode |-> Request[op[t]], request_id |-> rid[t]]
      BY <2>1, <2>3 DEF RequestMsg
    <2>6. Exchange(t, c) => Exchange(t, c)'
      BY <2>1, <2>2, <2>3, <2>4, <2>5 DEF Exchange
    <2> QED BY <1>4, <2>6 DEF child_recv, Quiet, Early, Leaving
  <1>5. CASE Answer(c)
    <2>1. /\ toService'[c] = Append(toService[c], ResponseMsg(Reply(req[c].opcode), req[c].request_id))
          /\ stage'[c] = "recv" /\ UNCHANGED <<toChild, op, rid>>
      BY <1>0, <1>5 DEF Answer, child_send, threadVars
    <2>2. op[t] \in Op \ {"start"} /\ Exchange(t, c)
            => /\ toChild[c] = <<>> /\ toService[c] = <<>>
               /\ req[c].opcode = Request[op[t]] /\ req[c].request_id = rid[t]
      BY <1>5 DEF Answer, Exchange
    <2>3. op[t] \in Op \ {"start"} /\ Exchange(t, c)
            => op[t] # "shutdown" /\ Reply(req[c].opcode) = Expected[op[t]]
      BY <1>5, <2>2, OpTable DEF Answer
    <2>4. \A m : Append(<<>>, m) = <<m>> OBVIOUS
    <2>5. op[t] \in Op \ {"start"} /\ Exchange(t, c)
            => toService'[c] = <<ResponseMsg(Expected[op[t]], rid[t])>>
      BY <2>1, <2>2, <2>3, <2>4
    <2>6. op[t] \in Op \ {"start"} /\ Exchange(t, c) => Exchange(t, c)'
      BY <2>1, <2>2, <2>3, <2>5 DEF Exchange
    <2> QED BY <1>5, <2>6 DEF Answer, Quiet, Early, Leaving
  <1>6. CASE Bye(c)
    <2>1. /\ CanAnswer(c) =>
                toService'[c] = Append(toService[c], ResponseMsg(RESP_BYE, req[c].request_id))
          /\ stage'[c] = "bye" /\ UNCHANGED <<toChild, op, rid>>
      BY <1>0, <1>6 DEF Bye, child_send, threadVars
    <2>2. op[t] \in Op \ {"start"} /\ Exchange(t, c)
            => /\ toChild[c] = <<>> /\ toService[c] = <<>>
               /\ req[c].opcode = Request[op[t]] /\ req[c].request_id = rid[t]
      BY <1>6 DEF Bye, Exchange
    <2>3. op[t] \in Op \ {"start"} /\ Exchange(t, c)
            => op[t] = "shutdown" /\ RESP_BYE = Expected[op[t]]
      BY <1>6, <2>2, OpTable DEF Bye
    <2>4. \A m : Append(<<>>, m) = <<m>> OBVIOUS
    <2> QED BY <1>6, <2>1, <2>2, <2>3, <2>4 DEF Bye, Quiet, Early, Leaving, Exchange
  <1>7. CASE \E how : Exit(c, how) /\ UNCHANGED <<up, threadVars, toService, probe>>
    <2>1. stage'[c] = "zombie" /\ toChild'[c] = <<>> /\ UNCHANGED <<toService, op, rid>>
      BY <1>0, <1>7 DEF Exit, threadVars
    <2>2. Alive(c) => stage[c] # "zombie" BY DEF Alive, Live
    <2> QED BY <2>1 DEF Quiet, Early, Leaving, Exchange
  <1>8. CASE ExitClean(c) \/ LosesPeer(c) \/ SetupFails(c) \/ Die(c)
    BY <1>7, <1>8 DEF ExitClean, LosesPeer, SetupFails, Die
  <1>9. CASE KilledFromOutside(c)
    BY <1>9 DEF KilledFromOutside, Quiet, Early, Leaving, Exchange, threadVars, wireVars
  <1> QED
    BY <1>2, <1>3, <1>4, <1>5, <1>6, <1>8, <1>9 DEF ChildStep, ChildProgress

\* A step of c touches no channel but its own.
LEMMA ChannelOther ==
  ASSUME TypeOK, NEW c \in Child, ChildStep(c), NEW d \in Child \ {c}
  PROVE  /\ stage'[d] = stage[d] /\ req'[d] = req[d]
         /\ toChild'[d] = toChild[d] /\ toService'[d] = toService[d]
  BY DEF ChildStep, ChildProgress, Normalize, Scrub, Harden, Greet, child_recv, Answer, Bye,
         ExitClean, LosesPeer, SetupFails, Die, KilledFromOutside, Exit, child_send, wireVars,
         TypeOK, ChildTypes, WireTypes

\* A step of a child keeps the channels in order.
LEMMA ChannelChild ==
  ASSUME TypeOK, LockInv, CallInv, HandleInv, EndInv, LifeInv, ChannelInv,
         NEW c \in Child, ChildStep(c), UNCHANGED <<up, threadVars>>
  PROVE  ChannelInv'
  <1>0. UNCHANGED <<up, owner, state, pc, op, conn, rid>> BY DEF threadVars
  <1>1. LockInv' BY <1>0 DEF LockInv, Running
  <1>2. CASE ~up
    BY <1>0, <1>1, <1>2, ChannelFree DEF LockInv, Running
  <1>3. ASSUME up, NEW t, NEW d \in Child
        PROVE  /\ Quiet(d) => Quiet(d)'
               /\ Early(d) => Early(d)'
               /\ Leaving(d) => Leaving(d)'
               /\ stage[d] \in {"bye", "zombie"} => stage'[d] \in {"bye", "zombie"}
               /\ op[t] \in Op \ {"start"} /\ Exchange(t, d) /\ CanAnswer(d) => Exchange(t, d)'
    <2>1. CASE d = c BY <1>3, <2>1, ChannelOwn
    <2>2. CASE d # c
      BY <1>0, <2>2, ChannelOther DEF Quiet, Early, Leaving, Exchange
    <2> QED BY <2>1, <2>2
  <1>4. CASE up /\ owner = NoThread
    <2>1. Running => state.child \in Child BY DEF Running, TypeOK, ThreadTypes
    <2>2. Running => Quiet(state.child)
      BY <1>4 DEF ChannelInv, ChannelIsQuiet
    <2>3. \A d \in Child : Quiet(d) => Quiet(d)' BY <1>3, <1>4
    <2>4. Running' => Quiet(state.child)'
      BY <1>0, <2>1, <2>2, <2>3 DEF Running, Quiet
    <2> QED BY <1>0, <1>1, <1>4, <2>4, ChannelFree
  <1>5. CASE up /\ owner # NoThread
    <2>1. PICK t \in Thread : owner = t BY <1>5 DEF TypeOK, ThreadTypes
    <2>2. conn[t] \in Child BY <2>1 DEF LockInv, HandleInv
    <2>3. pc[t] = "await" /\ op[t] # "start" => op[t] \in Op \ {"start"} /\ CanAnswer(conn[t])
      BY <2>1, <2>2, PlaceTable DEF CallInv, HandleInv, EndInv, CanAnswer, TypeOK, ThreadTypes
    <2> QED
      BY <1>0, <1>1, <1>3, <1>5, <2>1, <2>2, <2>3, ChannelHeld DEF ChannelInv
  <1> QED BY <1>2, <1>4, <1>5

\* So does every step.
LEMMA ChannelStep ==
  ASSUME TypeOK, LockInv, CallInv, HandleInv, EndInv, LifeInv, ChannelInv, [Next]_vars
  PROVE  ChannelInv'
  <1>1. LockInv' /\ HandleInv' BY ControlStep
  <1>2. ASSUME NEW t \in Thread, ThreadStep(t) PROVE ChannelInv'
    BY <1>1, <1>2, ChannelThread
  <1>3. ASSUME NEW c \in Child, ChildStep(c) PROVE ChannelInv'
    <2>1. UNCHANGED <<up, threadVars>>
      BY <1>3
         DEF ChildStep, ChildProgress, Normalize, Scrub, Harden, Greet, child_recv, Answer,
             Bye, ExitClean, LosesPeer, SetupFails, Die, KilledFromOutside
    <2> QED BY <1>3, <2>1, ChannelChild
  <1>4. CASE UNCHANGED <<threadVars, childVars, wireVars>>
    <2>1. /\ UNCHANGED <<owner, state, pc, op, conn, rid, stage, req, toChild, toService>>
          /\ UNCHANGED threadVars
      BY <1>4 DEF threadVars, childVars, wireVars
    <2>2. ASSUME NEW t, NEW c
          PROVE  /\ Quiet(c)' = Quiet(c) /\ Early(c)' = Early(c)
                 /\ Leaving(c)' = Leaving(c) /\ Exchange(t, c)' = Exchange(t, c)
      BY <2>1 DEF Quiet, Early, Leaving, Exchange
    <2>3. ChannelIsQuiet' BY <2>1, <2>2 DEF ChannelInv, ChannelIsQuiet, Running
    <2> QED BY <2>1, <2>2, <2>3 DEF ChannelInv
  <1>5. ASSUME NEW p \in Probe, ForkProbe(p) \/ ProbeExits(p)
        PROVE  UNCHANGED <<threadVars, childVars, wireVars>>
    BY <1>5 DEF ForkProbe, ProbeExits
  <1>6. CASE ServiceDies
    <2>1. owner' = NoThread /\ ~Running' BY <1>6 DEF ServiceDies, Running, Stopped
    <2> QED BY <1>1, <2>1, ChannelFree
  <1>7. CASE UNCHANGED vars BY <1>4, <1>7 DEF vars
  <1> QED
    BY <1>2, <1>3, <1>4, <1>5, <1>6, <1>7 DEF Next, Over

(***************************************************************************)
(* The inductive invariant.                                                *)
(***************************************************************************)

\* It holds when the service has just been loaded: nothing is started.
LEMMA IndInit == Init => IndInv
  <1> SUFFICES ASSUME Init PROVE IndInv OBVIOUS
  <1> USE ExecutorAssumption
  <1>1. TypeOK BY TypeInit
  <1>2. ~Running /\ owner = NoThread /\ \A t \in Thread : pc[t] = "idle"
    BY DEF Init, Running, Stopped
  <1>3. \A c \in Child : stage[c] = "unborn" /\ ~Alive(c)
    BY SetupTable DEF Init, Alive, Live
  <1>4. LockInv /\ CallInv /\ HandleInv
    BY <1>2 DEF Init, LockInv, CallInv, HandleInv, Critical
  <1>5. EndInv /\ CapabilityInv
    BY <1>2, <1>3 DEF Init, EndInv, CapabilityInv, Opening, Running
  <1>6. LifeInv /\ ReapInv /\ OneExecutor
    BY <1>2, <1>3 DEF Init, LifeInv, ReapInv, OneExecutor
  <1>7. ChannelInv
    BY <1>2 DEF ChannelInv, ChannelIsQuiet
  <1> QED BY <1>1, <1>4, <1>5, <1>6, <1>7 DEF IndInv

\* It is kept by every step of the service, of the children and around them.
LEMMA IndStep == IndInv /\ [Next]_vars => IndInv'
  <1> SUFFICES ASSUME IndInv, [Next]_vars PROVE IndInv' OBVIOUS
  <1> USE DEF IndInv
  <1>1. TypeOK' BY TypeStep
  <1>2. LockInv' /\ CallInv' /\ HandleInv' BY ControlStep
  <1>3. EndInv' /\ CapabilityInv' BY EndStep
  <1>4. LifeInv' /\ ReapInv' /\ OneExecutor' BY LifeStep
  <1>5. ChannelInv' BY ChannelStep
  <1> QED BY <1>1, <1>2, <1>3, <1>4, <1>5

\* The executor keeps its inductive invariant, whatever the number of threads
\* that call it, of children it starts and of proof children forked meanwhile.
THEOREM Invariance == Spec => []IndInv
  BY IndInit, IndStep, PTL DEF Spec

\* All variables keep their types: ids stay in 1 .. MaxId across the wrap,
\* handles name children, queues hold protocol messages (ExecutorState).
THEOREM TypeCorrect == Spec => []TypeOK
  <1>1. IndInv => TypeOK BY DEF IndInv
  <1> QED BY <1>1, Invariance, PTL

\* Between calls the channel of the recorded child is empty and the child in
\* recvfrom: no path of a call leaves a packet behind (request_response).
THEOREM QuietChannel == Spec => []ChannelIsQuiet
  <1>1. IndInv => ChannelIsQuiet BY DEF IndInv, ChannelInv
  <1> QED BY <1>1, Invariance, PTL

\* What parent_recv finds is the one answer to the request its own call sent.
THEOREM RightAnswer == Spec => []AnswerIsForThisCall
  <1>1. ASSUME IndInv PROVE AnswerIsForThisCall
    <2> SUFFICES ASSUME NEW t \in Thread, pc[t] = "await", toService[conn[t]] # <<>>
                 PROVE  /\ toService[conn[t]] = <<ResponseMsg(Expected[op[t]], rid[t])>>
                        /\ toChild[conn[t]] = <<>>
      BY DEF AnswerIsForThisCall
    <2>1. CASE op[t] = "start"
      <3>1. Early(conn[t]) BY <1>1, <2>1 DEF IndInv, ChannelInv
      <3>2. rid[t] = 0 BY <1>1, <2>1 DEF IndInv, CallInv
      <3> QED BY <2>1, <3>1, <3>2, OpTable DEF Early
    <2>2. CASE op[t] # "start"
      <3>1. Exchange(t, conn[t]) BY <1>1, <2>2 DEF IndInv, ChannelInv
      <3> QED BY <3>1 DEF Exchange
    <2> QED BY <2>1, <2>2
  <1> QED BY <1>1, Invariance, PTL

\* One child lives on at a time; the others are already on their way out
\* (start, shutdown, parent_force_terminate).
THEOREM SingleExecutor == Spec => []OneExecutor
  <1>1. IndInv => OneExecutor BY DEF IndInv
  <1> QED BY <1>1, Invariance, PTL

\* On no path of start, shutdown or parent_force_terminate the service keeps
\* an end of a pair open that nothing records.
THEOREM DescriptorsAccounted == Spec => []NoDescriptorLeak
  <1>1. IndInv => NoDescriptorLeak BY DEF IndInv, EndInv, Opening, NoDescriptorLeak
  <1> QED BY <1>1, Invariance, PTL

\* After child_scrub_fds a child has its own control socket and no other end.
THEOREM ControlIsSole == Spec => []SoleCapability
  <1>1. IndInv => SoleCapability
    BY SetupTable DEF IndInv, CapabilityInv, SoleCapability, Alive, Live
  <1> QED BY <1>1, Invariance, PTL

\* kill and waitpid never name a pid the service has already reaped.
THEOREM PidsOwned == Spec => []PidIsOwned
  <1>1. IndInv => PidIsOwned
    BY DEF IndInv, LifeInv, Unreaped, PidIsOwned, Alive
  <1> QED BY <1>1, Invariance, PTL
=============================================================================
