------------------------ MODULE IsolatedClientProofs ------------------------
(***************************************************************************)
(* Proofs about the isolated client, for any number of calls and processes *)
(* of the service.  ClientInv is the inductive invariant for calls from    *)
(* any thread; WatchInv adds what holds when they are all made on the main *)
(* thread.                                                                 *)
(***************************************************************************)
EXTENDS IsolatedClient, FiniteSetTheorems, SequenceTheorems, TLAPS

\* A connection the system knows is that of a call that has returned.
BoundReturned == \A c \in bound : pc[c] = "returned"

\* A connection taken to be unbound is no longer recorded, nor will be again.
TakenForgotten ==
    \A a \in Actor : taken[a] # None =>
        /\ taken[a] # persistentConnection
        /\ pc[taken[a]] \in {"bind", "release", "unbind", "returned"}

ClientInv == TypeOK /\ RecordedIsBound /\ BoundReturned /\ TakenForgotten

Resting(a) == pc[a] \in {"idle", "returned"}

\* One actor at a time is on the main thread.
OneBusy == \A a, b \in Actor : a = b \/ Resting(a) \/ Resting(b)

\* What is about to be unbound was the last connection with the binder, and the
\* callback under way is that of a connected connection.
Handing ==
    /\ \A a \in Actor : pc[a] = "unbind" => persistentBinder = NoBinder
    /\ pc[Main] \in {"record", "start"} =>
          op[Main] \in bound /\ active[op[Main]] = service[Main]

WatchInv == ClientInv /\ OneBusy /\ Handing /\ BinderIsWatched

USE ClientAssumption DEF ClientAssumption, None, NoBinder, Main

------------------------------------------------------------------------------
\* What is posted goes to the end of the queue.
LEMMA PostsTyped ==
  ASSUME queue \in Seq(Message), NEW messages \in SUBSET Message, IsFiniteSet(messages),
         Posts(messages)
  PROVE  queue' \in Seq(Message)
  <1>1. PICK s \in [1 .. Cardinality(messages) -> messages] : queue' = queue \o s
    BY DEF Posts
  <1>2. Cardinality(messages) \in Nat BY FS_CardinalityType
  <1>3. s \in Seq(Message) BY <1>1, <1>2
  <1> QED BY <1>1, <1>3

\* Messages to some of the callers.
LEMMA ToSome ==
  ASSUME NEW S \in SUBSET Caller, NEW w, NEW i
  PROVE  IsFiniteSet({[what |-> w, to |-> c, of |-> i] : c \in S})
  <1>1. IsFiniteSet(S) BY FS_Subset
  <1> DEFINE f == [c \in S |-> [what |-> w, to |-> c, of |-> i]]
  <1>2. f \in Surjection(S, {[what |-> w, to |-> c, of |-> i] : c \in S})
    BY DEF Surjection
  <1> QED BY <1>1, <1>2, FS_Surjection

\* Taking a message off the queue.
LEMMA FirstTyped ==
  ASSUME queue \in Seq(Message), queue # <<>>
  PROVE  First \in Message /\ Tail(queue) \in Seq(Message)
  BY HeadTailProperties DEF First

\* The initial state.
LEMMA ClientInit == Init => WatchInv
  <1> SUFFICES ASSUME Init PROVE WatchInv OBVIOUS
  <1>1. <<>> \in Seq(Message) OBVIOUS
  <1>2. TypeOK
    <2>1. \A a \in Actor : pc[a] = "idle" BY DEF Init
    <2>2. \A c \in Caller : pc[c] = "idle" BY <2>1 DEF Actor
    <2>3. started \in 0 .. MaxProcess BY DEF Init
    <2> QED BY <1>1, <2>1, <2>2, <2>3 DEF Init, TypeOK
  <1>3. RecordedIsBound /\ BoundReturned /\ TakenForgotten
    BY DEF Init, RecordedIsBound, BoundReturned, TakenForgotten
  <1>4. OneBusy /\ Handing /\ BinderIsWatched
    BY DEF Init, OneBusy, Resting, Handing, BinderIsWatched, Actor
  <1> QED BY <1>2, <1>3, <1>4 DEF WatchInv, ClientInv

\* The types are kept by the calls.
LEMMA CallTypes ==
  ASSUME TypeOK, NEW c \in Caller,
         CallStep(c) \/ \E o \in {"start", "request", "shutdown"} : Call(c, o)
  PROVE  TypeOK'
  <1> USE DEF TypeOK, Actor, Process, At, Goto, Answers, recorded, actors, bindings, process
  <1>1. ASSUME NEW o \in {"start", "request", "shutdown"}, Call(c, o) PROVE TypeOK'
    BY <1>1 DEF Call
  <1>2. CASE ReadBinder(c)
    <2>1. CASE persistentBinder # NoBinder BY <1>2, <2>1 DEF ReadBinder
    <2>2. CASE persistentBinder = NoBinder /\ op[c] = "start" BY <1>2, <2>2 DEF ReadBinder
    <2>3. CASE persistentBinder = NoBinder /\ op[c] = "request" BY <1>2, <2>3 DEF ReadBinder
    <2>4. CASE persistentBinder = NoBinder /\ op[c] = "shutdown" BY <1>2, <2>4 DEF ReadBinder
    <2>5. op[c] \in {"start", "request", "shutdown"} BY <1>2 DEF ReadBinder
    <2> QED BY <2>1, <2>2, <2>3, <2>4, <2>5
  <1>3. CASE Accept(c) BY <1>3 DEF Accept
  <1>4. CASE Refused(c) BY <1>4 DEF Refused
  <1>5. CASE Bind(c) BY <1>5 DEF Bind
  <1>6. CASE BindFails(c) BY <1>6 DEF BindFails
  <1>7. CASE Transact(c) BY <1>7 DEF Transact
  <1>8. CASE Release(c) BY <1>8 DEF Release, Forget
  <1>9. CASE Unbind(c) BY <1>9 DEF Unbind
  <1> QED BY <1>1, <1>2, <1>3, <1>4, <1>5, <1>6, <1>7, <1>8, <1>9 DEF CallStep

\* The types are kept by the callbacks.
LEMMA MainTypes ==
  ASSUME TypeOK, MainStep
  PROVE  TypeOK'
  <1> USE DEF TypeOK, Actor, Process, At, Goto, Answers, recorded, actors, bindings, process
  <1>1. ASSUME queue # <<>> PROVE First \in Message /\ Tail(queue) \in Seq(Message)
    BY <1>1, FirstTyped
  <1> USE DEF Takes
  <1>2. CASE Drop BY <1>1, <1>2 DEF Drop
  <1>3. CASE Connected
    <2>1. First \in Message /\ First.what = "connected" /\ queue' \in Seq(Message)
      BY <1>1, <1>3 DEF Connected
    <2>2. First.to \in Caller /\ First.of \in Process BY <2>1 DEF Message
    <2> QED BY <1>3, <2>1, <2>2 DEF Connected, Forget
  <1>4. CASE Record BY <1>4 DEF Record
  <1>5. CASE Starts BY <1>5 DEF Starts
  <1>6. CASE Disconnected BY <1>1, <1>6 DEF Disconnected, Forget
  <1>7. CASE BindingDied BY <1>1, <1>7 DEF BindingDied, Forget
  <1>8. CASE Release(Main) BY <1>8 DEF Release, Forget
  <1>9. CASE Unbind(Main) BY <1>9 DEF Unbind
  <1> QED BY <1>2, <1>3, <1>4, <1>5, <1>6, <1>7, <1>8, <1>9 DEF MainStep

\* The types are kept by the system.
LEMMA SystemTypes ==
  ASSUME TypeOK, SystemStep \/ ServiceDies
  PROVE  TypeOK'
  <1> USE DEF TypeOK, Actor, recorded, actors, bindings, process
  <1>1. CASE ServiceStarts BY <1>1 DEF ServiceStarts, Process
  <1>2. ASSUME NEW c \in Caller, Tell(c) PROVE TypeOK'
    <2> DEFINE m == [what |-> "connected", to |-> c, of |-> alive]
    <2>0. alive \in Process BY <1>2 DEF Tell, Process
    <2>1. {m} \in SUBSET Message BY <2>0 DEF Message
    <2>2. IsFiniteSet({m}) BY FS_Singleton
    <2>3. queue' \in Seq(Message) BY <1>2, <2>1, <2>2, PostsTyped DEF Tell
    <2> QED BY <1>2, <2>3 DEF Tell
  <1>3. CASE ServiceDies
    <2> DEFINE S == {b \in bound : active[b] = alive}
    <2> DEFINE M == {[what |-> "death", to |-> c, of |-> alive] : c \in S}
    <2>0. alive \in Process /\ S \in SUBSET Caller BY <1>3 DEF ServiceDies, Process
    <2>1. M \in SUBSET Message BY <2>0 DEF Message
    <2>2. IsFiniteSet(M)
      <3> HIDE DEF S, TypeOK
      <3> QED BY <2>0, ToSome
    <2>3. queue' \in Seq(Message) BY <1>3, <2>1, <2>2, PostsTyped DEF ServiceDies
    <2> QED BY <1>3, <2>3 DEF ServiceDies
  <1>4. CASE GivesUp
    <2> DEFINE S == bound \ over
    <2> DEFINE M == {[what |-> "died", to |-> c, of |-> NoBinder] : c \in S}
    <2>0. S \in SUBSET Caller OBVIOUS
    <2>1. M \in SUBSET Message BY <2>0 DEF Message
    <2>2. IsFiniteSet(M)
      <3> HIDE DEF S, TypeOK
      <3> QED BY <2>0, ToSome
    <2>3. queue' \in Seq(Message) BY <1>4, <2>1, <2>2, PostsTyped DEF GivesUp
    <2> QED BY <1>4, <2>3 DEF GivesUp
  <1> QED BY <1>1, <1>2, <1>3, <1>4 DEF SystemStep

------------------------------------------------------------------------------
\* Nothing is at stake in a step of a call that has not recorded its connection.
LEMMA EarlyStep ==
  ASSUME ClientInv, TypeOK', NEW c \in Caller,
         pc[c] \in {"idle", "read", "accept", "refused", "transact"},
         \A b \in Caller \ {c} : pc'[b] = pc[b],
         UNCHANGED <<persistentConnection, taken, bound>>
  PROVE  ClientInv'
  <1>1. c \notin bound /\ persistentConnection # c /\ \A a \in Actor : taken[a] # c
    BY DEF ClientInv, RecordedIsBound, BoundReturned, TakenForgotten, Actor
  <1>2. bound \subseteq Caller /\ persistentConnection \in Caller \cup {None}
        /\ taken \in [Actor -> Caller \cup {None}]
    BY DEF ClientInv, TypeOK
  <1>3. RecordedIsBound' BY <1>1, <1>2 DEF ClientInv, RecordedIsBound
  <1>4. BoundReturned' BY <1>1, <1>2 DEF ClientInv, BoundReturned
  <1>5. TakenForgotten' BY <1>1, <1>2 DEF ClientInv, TakenForgotten
  <1> QED BY <1>3, <1>4, <1>5 DEF ClientInv

\* Nor is there in a step that moves no call and at most forgets the connection.
LEMMA ForgettingStep ==
  ASSUME ClientInv, TypeOK',
         \A b \in Caller : pc'[b] = pc[b],
         persistentConnection' \in {persistentConnection, None},
         UNCHANGED <<taken, bound>>
  PROVE  ClientInv'
  <1>1. bound \subseteq Caller /\ persistentConnection \in Caller \cup {None}
        /\ taken \in [Actor -> Caller \cup {None}]
    BY DEF ClientInv, TypeOK
  <1>2. RecordedIsBound' BY <1>1 DEF ClientInv, RecordedIsBound
  <1>3. BoundReturned' BY <1>1 DEF ClientInv, BoundReturned
  <1>4. TakenForgotten' BY <1>1 DEF ClientInv, TakenForgotten
  <1> QED BY <1>2, <1>3, <1>4 DEF ClientInv

\* The release by a call or a callback.
LEMMA ReleaseKeeps ==
  ASSUME ClientInv, TypeOK', NEW a \in Actor, Release(a) \/ Unbind(a)
  PROVE  ClientInv'
  <1> USE DEF ClientInv, TypeOK, RecordedIsBound, BoundReturned, TakenForgotten, Actor, At, Goto,
              recorded
  <1> DEFINE Rest == RecordedIsBound' /\ BoundReturned' /\ TakenForgotten'
  <1>1. CASE Release(a)
    <2>1. /\ persistentConnection' = None /\ bound' = bound
          /\ taken'[a] = persistentConnection
          /\ \A b \in Actor \ {a} : taken'[b] = taken[b] /\ pc'[b] = pc[b]
          /\ pc[a] = "release" /\ pc'[a] = "unbind"
      BY <1>1 DEF Release, Forget, bindings
    <2>2. RecordedIsBound' BY <2>1
    <2>3. BoundReturned' BY <2>1
    <2>4. ASSUME NEW b \in Actor, taken'[b] # None
          PROVE  pc'[taken'[b]] \in {"bind", "release", "unbind", "returned"}
      <3>1. taken'[b] \in Caller
            /\ pc[taken'[b]] \in {"bind", "release", "unbind", "returned"}
        BY <2>1, <2>4
      <3> QED BY <2>1, <3>1
    <2>5. TakenForgotten' BY <2>1, <2>4
    <2> HIDE DEF TypeOK, RecordedIsBound, BoundReturned, TakenForgotten
    <2> QED BY <2>2, <2>3, <2>5
  <1>3. CASE Unbind(a) /\ a = Main
    <2>1. Rest BY <1>3 DEF Unbind
    <2> HIDE DEF TypeOK
    <2> QED BY <2>1
  <1>4. CASE Unbind(a) /\ a \in Caller
    <2>1. Rest BY <1>4 DEF Unbind
    <2> HIDE DEF TypeOK
    <2> QED BY <2>1
  <1> QED BY <1>1, <1>3, <1>4

\* A recorded connection stays bound or in hand, whichever thread acts.
LEMMA CallKeeps ==
  ASSUME ClientInv, NEW c \in Caller,
         CallStep(c) \/ \E o \in {"start", "request", "shutdown"} : Call(c, o)
  PROVE  ClientInv'
  <1>1. TypeOK' BY CallTypes DEF ClientInv
  <1>2. pc \in [Actor -> {"idle", "read", "accept", "refused", "bind", "transact", "release",
                          "unbind", "record", "start", "returned"}]
        /\ c \in Actor /\ Caller \subseteq Actor
    BY DEF ClientInv, TypeOK, Actor
  <1> USE DEF At, Goto, Answers, recorded, bindings
  <1>3. CASE \/ ReadBinder(c) \/ Refused(c) \/ Transact(c)
             \/ \E o \in {"start", "request", "shutdown"} : Call(c, o)
    <2>1. pc[c] \in {"idle", "read", "accept", "refused", "transact"}
      BY <1>3 DEF Call, ReadBinder, Refused, Transact
    <2>2. UNCHANGED <<persistentConnection, taken, bound>>
      BY <1>3 DEF Call, ReadBinder, Refused, Transact
    <2>3. \A b \in Caller \ {c} : pc'[b] = pc[b]
      <3>1. CASE ReadBinder(c)
        <4>1. op[c] \in {"start", "request", "shutdown"}
          BY <1>2, <3>1 DEF ReadBinder, ClientInv, TypeOK
        <4> QED BY <1>2, <3>1, <4>1 DEF ReadBinder
      <3> QED BY <1>2, <1>3, <3>1 DEF Call, Refused, Transact
    <2> QED BY <1>1, <2>1, <2>2, <2>3, EarlyStep
  <1> USE DEF RecordedIsBound, BoundReturned, TakenForgotten
  <1>4. CASE Accept(c)
    <2>1. c \notin bound /\ \A a \in Actor : taken[a] # c
      BY <1>2, <1>4 DEF ClientInv, Accept
    <2>2. bound \subseteq Caller /\ taken \in [Actor -> Caller \cup {None}]
          /\ persistentConnection \in Caller \cup {None}
      BY DEF ClientInv, TypeOK
    <2>3. \A b \in Caller \ {c} : pc'[b] = pc[b] BY <1>2, <1>4 DEF Accept
    <2>4. RecordedIsBound' BY <1>2, <1>4, <2>1, <2>2, <2>3 DEF ClientInv, Accept
    <2>5. BoundReturned' BY <1>4, <2>1, <2>2, <2>3 DEF ClientInv, Accept
    <2>6. TakenForgotten' BY <1>4, <2>1, <2>2, <2>3 DEF ClientInv, Accept
    <2> QED BY <1>1, <2>4, <2>5, <2>6 DEF ClientInv
  <1>5. CASE Bind(c)
    <2>1. RecordedIsBound' /\ BoundReturned' /\ TakenForgotten'
      BY <1>2, <1>5 DEF ClientInv, TypeOK, Bind
    <2> QED BY <1>1, <2>1 DEF ClientInv
  <1>6. CASE BindFails(c)
    <2>1. RecordedIsBound' /\ BoundReturned' /\ TakenForgotten'
      BY <1>2, <1>6 DEF ClientInv, TypeOK, BindFails
    <2> QED BY <1>1, <2>1 DEF ClientInv
  <1>7. CASE Release(c) \/ Unbind(c) BY <1>1, <1>2, <1>7, ReleaseKeeps
  <1> QED BY <1>3, <1>4, <1>5, <1>6, <1>7 DEF CallStep

\* The callbacks forget connections, but record none.
LEMMA MainKeeps ==
  ASSUME ClientInv, MainStep
  PROVE  ClientInv'
  <1>1. TypeOK' BY MainTypes DEF ClientInv
  <1>2. Main \in Actor /\ Main \notin Caller /\ Caller \subseteq Actor BY DEF Actor
  <1>3. CASE Release(Main) \/ Unbind(Main) BY <1>1, <1>2, <1>3, ReleaseKeeps
  <1>4. CASE ~Release(Main) /\ ~Unbind(Main)
    <2>1. DOMAIN pc = Actor BY DEF ClientInv, TypeOK
    <2>2. /\ UNCHANGED <<taken, bound>>
          /\ persistentConnection' \in {persistentConnection, None}
      BY <1>4 DEF MainStep, Drop, Connected, Record, Starts, Disconnected, BindingDied, Forget,
         recorded, actors, bindings
    <2>3. pc' = pc \/ \E place : pc' = [pc EXCEPT ![Main] = place]
      BY <1>4 DEF MainStep, Drop, Connected, Record, Starts, Disconnected, BindingDied, Goto,
         Answers, actors
    <2>4. \A b \in Caller : pc'[b] = pc[b] BY <1>2, <2>1, <2>3
    <2> QED BY <1>1, <2>2, <2>4, ForgettingStep
  <1> QED BY <1>3, <1>4

LEMMA SystemKeeps ==
  ASSUME ClientInv, SystemStep \/ ServiceDies
  PROVE  ClientInv'
  <1>1. TypeOK' BY SystemTypes DEF ClientInv
  <1>2. UNCHANGED <<recorded, actors, bound>>
    BY DEF SystemStep, ServiceStarts, GivesUp, Tell, ServiceDies, bindings
  <1> QED
    BY <1>1, <1>2 DEF ClientInv, RecordedIsBound, BoundReturned, TakenForgotten, recorded, actors

\* ClientInv holds in every reachable state, for calls from any thread.
THEOREM ClientInvariance == Spec => []ClientInv
  <1>1. ASSUME ClientInv, [Next]_vars PROVE ClientInv'
    <2>1. CASE UNCHANGED vars
      BY <1>1, <2>1 DEF vars, recorded, actors, bindings, process, ClientInv, TypeOK,
         RecordedIsBound, BoundReturned, TakenForgotten
    <2> QED BY <1>1, <2>1, CallKeeps, MainKeeps, SystemKeeps DEF Next
  <1>2. Init => ClientInv BY ClientInit DEF WatchInv
  <1> QED BY <1>1, <1>2, PTL DEF Spec

------------------------------------------------------------------------------
\* With all calls on the main thread, what they and the callbacks do to the
\* binder and to the connections.
LEMMA CallWatches ==
  ASSUME WatchInv, OneThread, NEW c \in Caller,
         CallStep(c) \/ \E o \in {"start", "request", "shutdown"} : Call(c, o)
  PROVE  OneBusy' /\ Handing' /\ BinderIsWatched'
  <1>1. \A a \in Actor \ {c} : Resting(a)
    BY DEF CallStep, Call, ReadBinder, Accept, Refused, Bind, BindFails, Transact, Release, Unbind,
       At, Runs, Resting
  <1>2. /\ DOMAIN pc = Actor /\ c # Main /\ c \in Actor /\ Main \in Actor
        /\ bound \subseteq Caller
        /\ pc[c] # "idle" => op[c] \in {"start", "request", "shutdown"}
    BY DEF WatchInv, ClientInv, TypeOK, Actor
  <1>3. \A a \in Actor \ {c} : pc'[a] = pc[a]
    <2>1. CASE ReadBinder(c) BY <1>2, <2>1 DEF ReadBinder, At, Goto, Answers
    <2> QED
      BY <1>2, <2>1 DEF CallStep, Call, Accept, Refused, Bind, BindFails, Transact, Release,
         Unbind, At, Goto, Answers
  <1>4. OneBusy' BY <1>1, <1>3 DEF OneBusy, Resting
  <1>5. pc'[Main] \notin {"record", "start"} BY <1>1, <1>2, <1>3 DEF Resting
  <1>6. \A a \in Actor \ {c} : pc'[a] # "unbind" BY <1>1, <1>3 DEF Resting
  <1>7. CASE Unbind(c)
    <2>1. persistentBinder = NoBinder /\ UNCHANGED persistentBinder
      BY <1>2, <1>7 DEF Unbind, At, WatchInv, Handing, recorded
    <2> QED BY <1>4, <1>5, <2>1 DEF Handing, BinderIsWatched
  <1>8. CASE Release(c)
    <2>1. persistentBinder' = NoBinder BY <1>8 DEF Release, Forget
    <2> QED BY <1>4, <1>5, <2>1 DEF Handing, BinderIsWatched
  <1>9. CASE ~Unbind(c) /\ ~Release(c)
    <2>1. UNCHANGED <<persistentBinder, active>> /\ bound \subseteq bound'
      BY <1>9 DEF CallStep, Call, ReadBinder, Accept, Refused, Bind, BindFails, Transact,
         recorded, bindings
    <2>2. pc'[c] # "unbind"
      <3>1. CASE ReadBinder(c) BY <1>2, <3>1 DEF ReadBinder, At, Goto, Answers
      <3> QED
        BY <1>2, <1>9, <3>1 DEF CallStep, Call, Accept, Refused, Bind, BindFails, Transact, At,
           Goto, Answers
    <2>3. Handing' BY <1>5, <1>6, <2>2 DEF Handing
    <2>4. BinderIsWatched' BY <2>1 DEF WatchInv, BinderIsWatched
    <2> QED BY <1>4, <2>3, <2>4
  <1> QED BY <1>7, <1>8, <1>9

LEMMA MainWatches ==
  ASSUME WatchInv, OneThread, MainStep
  PROVE  OneBusy' /\ Handing' /\ BinderIsWatched'
  <1>1. \A a \in Actor \ {Main} : Resting(a)
    BY DEF MainStep, Drop, Connected, Record, Starts, Disconnected, BindingDied, Release, Unbind,
       Takes, At, Runs, Resting
  <1>2. /\ DOMAIN pc = Actor /\ DOMAIN op = Actor /\ DOMAIN service = Actor
        /\ DOMAIN active = Caller /\ Main \in Actor /\ bound \subseteq Caller
    BY DEF WatchInv, ClientInv, TypeOK, Actor
  <1>3. \A a \in Actor \ {Main} : pc'[a] = pc[a] /\ pc'[a] # "unbind"
    <2>1. \A a \in Actor \ {Main} : pc'[a] = pc[a]
      BY <1>2 DEF MainStep, Drop, Connected, Record, Starts, Disconnected, BindingDied, Release,
         Unbind, Goto, Answers, actors
    <2> QED BY <1>1, <2>1 DEF Resting
  <1>4. OneBusy' BY <1>1, <1>3 DEF OneBusy, Resting
  <1> USE DEF At, Goto, Answers, Takes, Forget, Stale
  <1>5. CASE Drop
    BY <1>4, <1>5 DEF Drop, recorded, actors, bindings, WatchInv, Handing, BinderIsWatched
  <1>6. CASE Connected
    <2>1. /\ First.to \in bound /\ pc'[Main] = "record" /\ op'[Main] = First.to
          /\ service'[Main] = First.of /\ active'[First.to] = First.of /\ bound' = bound
          /\ \A b \in Caller \ {First.to} : active'[b] = active[b]
      BY <1>2, <1>6 DEF Connected
    <2>2. Handing' BY <1>3, <2>1 DEF Handing
    <2>3. \/ persistentBinder' = NoBinder
          \/ (persistentBinder' = persistentBinder /\ active[First.to] = NoBinder)
      <3> HIDE DEF Stale, Takes, Goto
      <3>1. CASE active[First.to] # NoBinder BY <1>6, <3>1 DEF Connected
      <3>2. CASE active[First.to] = NoBinder BY <1>6, <3>2 DEF Connected, recorded
      <3> QED BY <3>1, <3>2
    <2>4. BinderIsWatched' BY <1>2, <2>1, <2>3 DEF WatchInv, BinderIsWatched
    <2> QED BY <1>4, <2>2, <2>4
  <1>7. CASE Record
    <2>1. /\ pc'[Main] = "start" /\ persistentBinder' = service[Main]
          /\ op[Main] \in bound /\ active[op[Main]] = service[Main]
          /\ UNCHANGED <<op, service, bound, active>>
      BY <1>2, <1>7 DEF Record, bindings, WatchInv, Handing
    <2>2. Handing' BY <1>3, <2>1 DEF Handing
    <2>3. BinderIsWatched' BY <2>1 DEF BinderIsWatched
    <2> QED BY <1>4, <2>2, <2>3
  <1>8. CASE Starts
    <2>1. pc'[Main] = "idle" /\ UNCHANGED <<persistentBinder, bound, active>>
      BY <1>2, <1>8 DEF Starts, recorded, bindings
    <2>2. Handing' BY <1>3, <2>1 DEF Handing
    <2>3. BinderIsWatched' BY <2>1 DEF WatchInv, BinderIsWatched
    <2> QED BY <1>4, <2>2, <2>3
  <1>9. CASE Disconnected
    <2>1. pc'[Main] = "idle" /\ persistentBinder' = NoBinder
      BY <1>9 DEF Disconnected, actors
    <2> QED BY <1>3, <1>4, <2>1 DEF Handing, BinderIsWatched
  <1>10. CASE BindingDied
    <2>1. /\ pc'[Main] = "release" /\ bound' = bound
          /\ active' = [active EXCEPT ![First.to] = NoBinder]
      BY <1>2, <1>10 DEF BindingDied
    <2>2. \/ persistentBinder' = NoBinder
          \/ (persistentBinder' = persistentBinder /\ active[First.to] = NoBinder)
      <3> HIDE DEF Stale, Takes, Goto
      <3>1. CASE active[First.to] # NoBinder BY <1>10, <3>1 DEF BindingDied
      <3>2. CASE active[First.to] = NoBinder BY <1>10, <3>2 DEF BindingDied, recorded
      <3> QED BY <3>1, <3>2
    <2>3. Handing' BY <1>3, <2>1 DEF Handing
    <2>4. BinderIsWatched' BY <1>2, <2>1, <2>2 DEF WatchInv, BinderIsWatched
    <2> QED BY <1>4, <2>3, <2>4
  <1>11. CASE Release(Main)
    <2>1. pc'[Main] = "unbind" /\ persistentBinder' = NoBinder BY <1>2, <1>11 DEF Release
    <2> QED BY <1>4, <2>1 DEF Handing, BinderIsWatched
  <1>12. CASE Unbind(Main)
    <2>1. pc'[Main] = "idle" /\ persistentBinder' = NoBinder
      BY <1>2, <1>12 DEF Unbind, recorded, WatchInv, Handing
    <2> QED BY <1>4, <2>1 DEF Handing, BinderIsWatched
  <1> QED BY <1>5, <1>6, <1>7, <1>8, <1>9, <1>10, <1>11, <1>12 DEF MainStep

\* WatchInv holds when all calls are made on the main thread.
THEOREM WatchInvariance == OneThread /\ Spec => []WatchInv
  <1>1. ASSUME WatchInv, OneThread, [Next]_vars PROVE WatchInv'
    <2>1. CASE UNCHANGED vars
      BY <1>1, <2>1 DEF vars, recorded, actors, bindings, process, WatchInv, ClientInv, TypeOK,
         RecordedIsBound, BoundReturned, TakenForgotten, OneBusy, Resting, Handing,
         BinderIsWatched
    <2>2. ASSUME SystemStep \/ ServiceDies PROVE WatchInv'
      <3>1. UNCHANGED <<recorded, actors, bound, active>>
        BY <2>2 DEF SystemStep, ServiceStarts, GivesUp, Tell, ServiceDies, bindings
      <3>2. OneBusy' /\ Handing' /\ BinderIsWatched'
        BY <1>1, <3>1 DEF WatchInv, OneBusy, Resting, Handing, BinderIsWatched, recorded, actors
      <3> QED BY <1>1, <2>2, <3>2, SystemKeeps DEF WatchInv
    <2>3. ASSUME NEW c \in Caller,
                 CallStep(c) \/ \E o \in {"start", "request", "shutdown"} : Call(c, o)
          PROVE  WatchInv'
      BY <1>1, <2>3, CallKeeps, CallWatches DEF WatchInv
    <2>4. ASSUME MainStep PROVE WatchInv'
      BY <1>1, <2>4, MainKeeps, MainWatches DEF WatchInv
    <2> QED BY <1>1, <2>1, <2>2, <2>3, <2>4 DEF Next
  <1>2. OneThread /\ Init => WatchInv BY ClientInit
  <1>3. CASE OneThread BY <1>1, <1>2, <1>3, PTL DEF Spec
  <1>4. CASE ~OneThread BY <1>4
  <1> QED BY <1>3, <1>4

------------------------------------------------------------------------------
\* All variables keep their types, and nothing is transacted on a null binder.
THEOREM ClientTypes == Spec => []TypeOK
  <1>1. ClientInv => TypeOK BY DEF ClientInv
  <1> QED BY ClientInvariance, <1>1, PTL

\* From any thread, a recorded connection is bound, or about to be bound or
\* taken back by the call that recorded it.
THEOREM RecordedBound == Spec => []RecordedIsBound
  <1>1. ClientInv => RecordedIsBound BY DEF ClientInv
  <1> QED BY ClientInvariance, <1>1, PTL

\* With all calls on the main thread, the end of a recorded binder will be heard
\* of.
THEOREM BinderWatched == OneThread /\ Spec => []BinderIsWatched
  <1>1. WatchInv => BinderIsWatched BY DEF WatchInv
  <1> QED BY WatchInvariance, <1>1, PTL
=============================================================================
