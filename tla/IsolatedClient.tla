--------------------------- MODULE IsolatedClient ---------------------------
(***************************************************************************)
(* The client of the isolated service (AegisIsolatedClient.kt): one        *)
(* recorded connection and binder behind persistentLock, calls from any    *)
(* thread, and the callbacks of the ServiceConnections, which the main     *)
(* thread runs in the order they were posted.  Each synchronized block is  *)
(* one step, and so is each call of the system and each transaction.       *)
(*                                                                         *)
(* The system around it is external: it starts the service for a binding,  *)
(* starts it again when its process has died (BIND_AUTO_CREATE) or gives   *)
(* the binding up, and posts connected, death and died messages; a         *)
(* connection that was unbound hears of nothing any more.  A binder is     *)
(* named by the number of the process that serves it.                      *)
(***************************************************************************)
EXTENDS Integers, Sequences, FiniteSets

CONSTANTS
    Caller,        \* calls of the client; each is made at most once
    OneThread,     \* the calls are made on the main thread, not on others
    MaxProcess     \* bound on the processes of the service, one after the other

None == "none"
NoBinder == 0
Process == 1 .. MaxProcess
Main == "main"

ASSUME ClientAssumption ==
    /\ IsFiniteSet(Caller) /\ None \notin Caller /\ Main \notin Caller
    /\ OneThread \in BOOLEAN /\ MaxProcess \in Nat

Actor == Caller \cup {Main}

VARIABLES
    persistentConnection,   \* the start call whose connection is recorded
    persistentBinder,       \* the recorded binder
    op, pc,                 \* what each actor runs, and where it is
    service,                \* the binder it has read or was given
    taken,                  \* the connection it is about to unbind
    result,                 \* what each call is told, or will be
    bound,                  \* external: connections the system knows
    over,                   \* external: those it has given up
    active,                 \* external: the binder each was connected with
    told,                   \* external: the last binder posted to each
    queue,                  \* external: messages to the main thread
    alive, started,         \* external: the process of the service; how many there were
    executor,               \* it has an executor
    stopped                 \* the last word of a shutdown, until the next start

recorded == <<persistentConnection, persistentBinder>>
actors == <<op, pc, service, taken, result>>
bindings == <<bound, over, active, told>>
process == <<alive, started>>
vars == <<recorded, actors, bindings, queue, process, executor, stopped>>

Init ==
    /\ persistentConnection = None /\ persistentBinder = NoBinder
    /\ op = [a \in Actor |-> None] /\ pc = [a \in Actor |-> "idle"]
    /\ service = [a \in Actor |-> NoBinder] /\ taken = [a \in Actor |-> None]
    /\ result = [c \in Caller |-> None]
    /\ bound = {} /\ over = {}
    /\ active = [c \in Caller |-> NoBinder] /\ told = [c \in Caller |-> NoBinder]
    /\ queue = <<>>
    /\ alive = NoBinder /\ started = 0
    /\ executor = FALSE /\ stopped = FALSE

\* Who is on the main thread ends what it does before another begins.
Runs(a) == OneThread => \A b \in Actor \ {a} : pc[b] \in {"idle", "returned"}

At(a, place) == pc[a] = place /\ Runs(a)
Goto(a, place) == pc' = [pc EXCEPT ![a] = place]

\* onResult(text), and the call or callback is over.
Answers(a, c, text) ==
    /\ result' = [result EXCEPT ![c] = text]
    /\ Goto(a, IF a = Main THEN "idle" ELSE "returned")

------------------------------------------------------------------------------
(* The calls.                                                              *)

Call(c, o) ==
    /\ At(c, "idle")
    /\ op' = [op EXCEPT ![c] = o]
    /\ Goto(c, "read")
    /\ stopped' = (stopped /\ o # "start")
    /\ UNCHANGED <<recorded, service, taken, result, bindings, queue, process, executor>>

\* Mutant of ReadBinder: the recorded binder is used unseen.
ReadBinderUnseen(c) ==
    /\ At(c, "read")
    /\ service' = [service EXCEPT ![c] = persistentBinder]
    /\ Goto(c, "transact")
    /\ UNCHANGED <<recorded, op, taken, result, bindings, queue, process, executor, stopped>>

\* synchronized(persistentLock) { persistentBinder }, and what a null leads to.
ReadBinder(c) ==
    /\ At(c, "read")
    /\ service' = [service EXCEPT ![c] = persistentBinder]
    /\ IF persistentBinder # NoBinder
         THEN Goto(c, "transact") /\ UNCHANGED result
         ELSE CASE op[c] = "start" -> Goto(c, "accept") /\ UNCHANGED result
                [] op[c] = "request" -> Answers(c, c, "not_connected")
                [] op[c] = "shutdown" ->
                     /\ result' = [result EXCEPT ![c] = "not_connected"]
                     /\ Goto(c, "release")
    /\ UNCHANGED <<recorded, op, taken, bindings, queue, process, executor, stopped>>

\* The connection is recorded before it is bound, unless there is one.
Accept(c) ==
    /\ At(c, "accept")
    /\ IF persistentBinder = NoBinder /\ persistentConnection = None
         THEN persistentConnection' = c /\ Goto(c, "bind")
         ELSE UNCHANGED persistentConnection /\ Goto(c, "refused")
    /\ UNCHANGED <<persistentBinder, op, service, taken, result, bindings, queue, process,
                   executor, stopped>>

\* Mutant of Refused: the binding in progress is expected to answer.
RefusedSilently(c) ==
    /\ At(c, "refused")
    /\ service' = [service EXCEPT ![c] = persistentBinder]
    /\ Goto(c, IF persistentBinder # NoBinder THEN "transact" ELSE "returned")
    /\ UNCHANGED <<recorded, op, taken, result, bindings, queue, process, executor, stopped>>

Refused(c) ==
    /\ At(c, "refused")
    /\ service' = [service EXCEPT ![c] = persistentBinder]
    /\ IF persistentBinder # NoBinder
         THEN Goto(c, "transact") /\ UNCHANGED result
         ELSE Answers(c, c, "in_progress")
    /\ UNCHANGED <<recorded, op, taken, bindings, queue, process, executor, stopped>>

\* bindService; the callbacks answer.
Bind(c) ==
    /\ At(c, "bind")
    /\ bound' = bound \cup {c}
    /\ Goto(c, "returned")
    /\ UNCHANGED <<recorded, op, service, taken, result, over, active, told, queue, process,
                   executor, stopped>>

\* bindService throws or returns false.
BindFails(c) ==
    /\ At(c, "bind")
    /\ result' = [result EXCEPT ![c] = "not_bound"]
    /\ Goto(c, "release")
    /\ UNCHANGED <<recorded, op, service, taken, bindings, queue, process, executor, stopped>>

\* transactPersistent: it fails when the process is gone.  A shutdown is told
\* STOPPED when there was an executor to stop.
Transact(c) ==
    /\ At(c, "transact")
    /\ LET works == service[c] = alive
           text == IF works THEN "done" ELSE "failed"
       IN  /\ executor' = IF ~works \/ op[c] = "request" THEN executor ELSE op[c] = "start"
           /\ stopped' = (stopped \/ (works /\ executor /\ op[c] = "shutdown"))
           /\ IF op[c] = "shutdown"
                THEN result' = [result EXCEPT ![c] = text] /\ Goto(c, "release")
                ELSE Answers(c, c, text)
    /\ UNCHANGED <<recorded, op, service, taken, bindings, queue, process>>

------------------------------------------------------------------------------
(* releasePersistentBinding, of a shutdown, a failed bind or a callback.   *)

Forget == persistentConnection' = None /\ persistentBinder' = NoBinder

\* Mutant of Release: the record is cleared after the connection is unbound.
ReleaseAfterUnbind(a) ==
    /\ At(a, "release")
    /\ taken' = [taken EXCEPT ![a] = persistentConnection]
    /\ Goto(a, "unbind")
    /\ UNCHANGED <<recorded, op, service, result, bindings, queue, process, executor, stopped>>

\* Mutant of Release: the binder stays recorded.
ReleaseKeepsBinder(a) ==
    /\ At(a, "release")
    /\ taken' = [taken EXCEPT ![a] = persistentConnection]
    /\ persistentConnection' = None
    /\ Goto(a, "unbind")
    /\ UNCHANGED <<persistentBinder, op, service, result, bindings, queue, process, executor, stopped>>

Release(a) ==
    /\ At(a, "release")
    /\ taken' = [taken EXCEPT ![a] = persistentConnection]
    /\ Forget
    /\ Goto(a, "unbind")
    /\ UNCHANGED <<op, service, result, bindings, queue, process, executor, stopped>>

\* unbindService; a connection that is not bound makes it throw, which is
\* ignored.
Unbind(a) ==
    /\ At(a, "unbind")
    /\ bound' = bound \ {taken[a]}
    /\ active' = [c \in Caller |-> IF c = taken[a] THEN NoBinder ELSE active[c]]
    /\ Goto(a, IF a = Main THEN "idle" ELSE "returned")
    /\ UNCHANGED <<recorded, op, service, taken, result, over, told, queue, process, executor, stopped>>

------------------------------------------------------------------------------
(* The callbacks.                                                          *)

Message ==
    [what : {"connected", "death"}, to : Caller, of : Process]
        \cup [what : {"died"}, to : Caller, of : {NoBinder}]

First == Head(queue)
Takes(what) ==
    /\ At(Main, "idle") /\ queue # <<>> /\ First.what = what
    /\ queue' = Tail(queue)

\* A message that no longer concerns anybody.
Stale(m) ==
    \/ m.to \notin bound
    \/ m.what = "connected" /\ (m.of # alive \/ m.of = active[m.to])
    \/ m.what = "death" /\ m.of # active[m.to]

Drop ==
    /\ \E what \in {"connected", "death", "died"} : Takes(what)
    /\ Stale(First)
    /\ UNCHANGED <<recorded, actors, bindings, process, executor, stopped>>

\* onServiceConnected begins, after onServiceDisconnected if the connection was
\* connected with another binder, ...
Connected ==
    /\ Takes("connected") /\ ~Stale(First)
    /\ active' = [active EXCEPT ![First.to] = First.of]
    /\ op' = [op EXCEPT ![Main] = First.to]
    /\ service' = [service EXCEPT ![Main] = First.of]
    /\ Goto(Main, "record")
    /\ IF active[First.to] # NoBinder THEN Forget ELSE UNCHANGED recorded
    /\ UNCHANGED <<taken, result, bound, over, told, process, executor, stopped>>

\* ... records the binder, whatever connection is recorded, ...
Record ==
    /\ At(Main, "record")
    /\ persistentBinder' = service[Main]
    /\ Goto(Main, "start")
    /\ UNCHANGED <<persistentConnection, op, service, taken, result, bindings, queue, process,
                   executor, stopped>>

\* ... and starts the executor for the call that bound it.
Starts ==
    /\ At(Main, "start")
    /\ executor' = (executor \/ service[Main] = alive)
    /\ Answers(Main, op[Main], IF service[Main] = alive THEN "done" ELSE "failed")
    /\ UNCHANGED <<recorded, op, service, taken, bindings, queue, process, stopped>>

\* Mutant of Disconnected: the binder is left recorded.
DisconnectedKeepsBinder ==
    /\ Takes("death") /\ ~Stale(First)
    /\ active' = [active EXCEPT ![First.to] = NoBinder]
    /\ persistentConnection' = None
    /\ UNCHANGED <<persistentBinder, actors, bound, over, told, process, executor, stopped>>

\* onServiceDisconnected: all is forgotten and nothing unbound.
Disconnected ==
    /\ Takes("death") /\ ~Stale(First)
    /\ active' = [active EXCEPT ![First.to] = NoBinder]
    /\ Forget
    /\ UNCHANGED <<actors, bound, over, told, process, executor, stopped>>

\* onBindingDied, after onServiceDisconnected if the connection is connected.
BindingDied ==
    /\ Takes("died") /\ ~Stale(First)
    /\ active' = [active EXCEPT ![First.to] = NoBinder]
    /\ IF active[First.to] # NoBinder THEN Forget ELSE UNCHANGED recorded
    /\ Goto(Main, "release")
    /\ UNCHANGED <<op, service, taken, result, bound, over, told, process, executor, stopped>>

------------------------------------------------------------------------------
(* The system.                                                             *)

Posts(messages) ==
    /\ \E s \in [1 .. Cardinality(messages) -> messages] :
        /\ \A m \in messages : \E i \in DOMAIN s : s[i] = m
        /\ queue' = queue \o s

\* For a binding, the first time or again; the same process serves all of them.
ServiceStarts ==
    /\ alive = NoBinder /\ bound \ over # {} /\ started < MaxProcess
    /\ alive' = started + 1 /\ started' = started + 1
    /\ UNCHANGED <<recorded, actors, bindings, queue, executor, stopped>>

Tell(c) ==
    /\ alive # NoBinder /\ c \in bound \ over /\ told[c] # alive
    /\ told' = [told EXCEPT ![c] = alive]
    /\ Posts({[what |-> "connected", to |-> c, of |-> alive]})
    /\ UNCHANGED <<recorded, actors, bound, over, active, process, executor, stopped>>

\* Its connected clients hear of it.
ServiceDies ==
    /\ alive # NoBinder
    /\ alive' = NoBinder /\ executor' = FALSE
    /\ Posts({[what |-> "death", to |-> c, of |-> alive] : c \in {b \in bound : active[b] = alive}})
    /\ UNCHANGED <<recorded, actors, bindings, started, stopped>>

\* The service is not started any more; always so after the last process.
GivesUp ==
    /\ alive = NoBinder /\ bound \ over # {}
    /\ over' = over \cup bound
    /\ Posts({[what |-> "died", to |-> c, of |-> NoBinder] : c \in bound \ over})
    /\ UNCHANGED <<recorded, actors, bound, active, told, process, executor, stopped>>

------------------------------------------------------------------------------
CallStep(c) ==
    \/ ReadBinder(c) \/ Accept(c) \/ Refused(c) \/ Bind(c) \/ BindFails(c) \/ Transact(c)
    \/ Release(c) \/ Unbind(c)

MainStep ==
    \/ Drop \/ Connected \/ Record \/ Starts \/ Disconnected \/ BindingDied
    \/ Release(Main) \/ Unbind(Main)

\* The system brings the service up or gives up, and tells who waits.
SystemStep == ServiceStarts \/ GivesUp \/ \E c \in Caller : Tell(c)

Next ==
    \/ \E c \in Caller : CallStep(c) \/ \E o \in {"start", "request", "shutdown"} : Call(c, o)
    \/ MainStep \/ SystemStep \/ ServiceDies

Spec == Init /\ [][Next]_vars

\* Threads go on, and the system does for its bindings what it promises.
FairSpec ==
    /\ Spec
    /\ \A c \in Caller : WF_vars(CallStep(c))
    /\ WF_vars(MainStep) /\ WF_vars(SystemStep)

------------------------------------------------------------------------------
(* Safety.                                                                 *)

\* The types of all variables; nothing is transacted on a null binder.
TypeOK ==
    /\ persistentConnection \in Caller \cup {None}
    /\ persistentBinder \in Process \cup {NoBinder}
    /\ op \in [Actor -> {"start", "request", "shutdown", None} \cup Caller]
    /\ \A c \in Caller : pc[c] # "idle" => op[c] \in {"start", "request", "shutdown"}
    /\ pc \in [Actor -> {"idle", "read", "accept", "refused", "bind", "transact", "release",
                         "unbind", "record", "start", "returned"}]
    /\ service \in [Actor -> Process \cup {NoBinder}]
    /\ \A a \in Actor : pc[a] \in {"transact", "record", "start"} => service[a] # NoBinder
    /\ taken \in [Actor -> Caller \cup {None}]
    /\ result \in [Caller -> {"done", "failed", "not_connected", "in_progress",
                              "not_bound", None}]
    /\ bound \subseteq Caller /\ over \subseteq Caller
    /\ active \in [Caller -> Process \cup {NoBinder}]
    /\ told \in [Caller -> Process \cup {NoBinder}]
    /\ queue \in Seq(Message)
    /\ alive \in Process \cup {NoBinder} /\ started \in 0 .. MaxProcess
    /\ executor \in BOOLEAN /\ stopped \in BOOLEAN

\* A recorded connection is one the system knows, or the call that recorded it
\* has still to bind it or to take the record back: from any thread, another
\* start is never refused in favour of a binding that does not exist.
RecordedIsBound ==
    LET c == persistentConnection
    IN  c # None => c \in bound \/ pc[c] \in {"bind", "release"}

\* With all calls on the main thread, a recorded binder is watched: a bound
\* connection is connected with it and will hear of its end, though it need not
\* be the recorded connection.
BinderIsWatched ==
    persistentBinder # NoBinder => \E c \in bound : active[c] = persistentBinder

\* "PERSISTENT_EXECUTOR_SHUTDOWN: OK State: STOPPED" (lib.rs:623): after that no
\* executor runs until the next start.
StoppedStays == stopped => ~executor

------------------------------------------------------------------------------
(* Liveness.                                                               *)

\* So a binder whose process has died is forgotten, and the next start binds
\* again instead of failing on it for ever.
DeadBinderForgotten ==
    \A i \in Process :
        (persistentBinder = i /\ alive # i) ~> (persistentBinder # i)

\* A start is answered, or its binding is given up, or another call or a callback
\* takes the connection back.
StartAnswered ==
    \A c \in Caller :
        (op[c] = "start" /\ pc[c] = "read") ~>
            \/ result[c] # None
            \/ c \in over \/ \E a \in Actor : taken[a] = c
=============================================================================
