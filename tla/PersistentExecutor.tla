------------------------- MODULE PersistentExecutor -------------------------
(***************************************************************************)
(* The persistent Guest Executor (rust/src/persistent_executor.rs): binder *)
(* threads of the isolated service call start, ping, status and shutdown;  *)
(* one mutex, STATE, protects the record of the one locked child, with     *)
(* which the caller talks over a SOCK_SEQPACKET pair.                      *)
(*                                                                         *)
(* A Child is one incarnation: the pid fork returns and the socket pair it *)
(* was given.  Both ends of every pair are open as long as some process    *)
(* has a descriptor for them, and fork copies descriptors, also into the   *)
(* proof children (Probe) other binder threads fork without the mutex.     *)
(*                                                                         *)
(* Outside the code and nondeterministic: when a process is killed from    *)
(* outside, when the service process dies, when poll or waitpid is         *)
(* interrupted, whether socketpair, fork or a lockdown step fails.         *)
(***************************************************************************)
EXTENDS Naturals, Sequences, IpcProtocol

CONSTANTS
    Thread,      \* binder pool threads that call the executor
    Child,       \* incarnations of the locked child; also bounds the starts
    Probe,       \* proof children forked by GET_IDENTITY; bounds those calls
    MaxId,       \* u32::MAX, after which request ids wrap
    Service,     \* the isolated service process
    NoThread, NoChild

ASSUME ExecutorAssumption ==
    /\ MaxId \in Nat \ {0}
    /\ NoThread \notin Thread
    /\ NoChild \notin Child
    /\ Child \cap Probe = {}
    /\ Service \notin Child \cup Probe

VARIABLES
    up,          \* the service process lives
    owner,       \* the thread that holds STATE
    state,       \* ExecutorState: pid and control_fd (one child), next id
    pc, op,      \* where each thread is in its call, and which call it is
    conn, rid,   \* its locals: pid and fd, and the request id
    result,      \* what its last call returned
    stage,       \* where each child is in child_main
    req,         \* the request the child has read
    exit,        \* how the child ended
    killed,      \* SIGKILL is pending
    svcHeld,     \* who has the service's end of each pair open
    chdHeld,     \* who has the child's end open
    toChild, toService,  \* messages in flight on each pair
    probe        \* the proof children

threadVars == <<owner, state, pc, op, conn, rid, result>>
childVars == <<stage, req, exit, killed>>
wireVars == <<toChild, toService>>
heldVars == <<svcHeld, chdHeld>>
vars == <<up, threadVars, childVars, heldVars, wireVars, probe>>

------------------------------------------------------------------------------
Op == {"start", "ping", "status", "shutdown"}

Proc == {Service} \cup Child \cup Probe

\* The request each call sends, and the answer it waits for.
Request == [ping |-> OP_PING, status |-> OP_STATUS, shutdown |-> OP_SHUTDOWN]
Expected == [start |-> RESP_READY, ping |-> RESP_PONG,
             status |-> RESP_LOCKED, shutdown |-> RESP_BYE]

\* STATE is held exactly in these places of a call.
Critical == {"fork", "install", "send", "await", "accepted",
             "terminate", "kill", "reap", "wait"}

\* The steps child_main takes before it serves, and what follows each.
After == [normalize |-> "scrub", scrub |-> "signals", signals |-> "pdeathsig",
          pdeathsig |-> "nnp", nnp |-> "seccomp", seccomp |-> "verify",
          verify |-> "greet"]
Setup == DOMAIN After
Unarmed == {"normalize", "scrub", "signals", "pdeathsig"}

Live == Setup \cup {"greet", "recv", "answer", "bye"}
Alive(c) == stage[c] \in Live

NoRequest == [opcode |-> 0, request_id |-> 0]
Ids == 0 .. MaxId
RequestMsg(o, id) == [kind |-> "Request", opcode |-> Request[o], request_id |-> id]
ResponseMsg(r, id) == [kind |-> "Response", opcode |-> r, request_id |-> id]
Requests == [kind: {"Request"}, opcode: {OP_PING, OP_STATUS, OP_SHUTDOWN}, request_id: Ids]
Responses == [kind: {"Response"},
              opcode: {RESP_READY, RESP_PONG, RESP_LOCKED, RESP_BYE, RESP_ERROR},
              request_id: Ids]

Result == [status: {"none", "ok", "EBUSY", "ENOENT", "failed"}, pid: Child \cup {NoChild}]
Outcome(status, c) == [status |-> status, pid |-> c]

Stopped == [child |-> NoChild, next |-> 1]
Running == state.child # NoChild

Init ==
    /\ up = TRUE
    /\ owner = NoThread
    /\ state = Stopped
    /\ pc = [t \in Thread |-> "idle"]
    /\ op = [t \in Thread |-> "none"]
    /\ conn = [t \in Thread |-> NoChild]
    /\ rid = [t \in Thread |-> 0]
    /\ result = [t \in Thread |-> Outcome("none", NoChild)]
    /\ stage = [c \in Child |-> "unborn"]
    /\ req = [c \in Child |-> NoRequest]
    /\ exit = [c \in Child |-> "none"]
    /\ killed = [c \in Child |-> FALSE]
    /\ svcHeld = [c \in Child |-> {}]
    /\ chdHeld = [c \in Child |-> {}]
    /\ toChild = [c \in Child |-> <<>>]
    /\ toService = [c \in Child |-> <<>>]
    /\ probe = [p \in Probe |-> "unborn"]

------------------------------------------------------------------------------
(* Helpers.                                                                *)

\* Mutant of take_request_id: the wrap does not skip 0.
TakeIdWrapsToZero(s) ==
    [s EXCEPT !.next = IF s.next = MaxId THEN 0 ELSE s.next + 1]

\* take_request_id: the id to use now, the next one skipping 0 at the wrap.
take_request_id(s) ==
    [s EXCEPT !.next = IF s.next = MaxId THEN 1 ELSE s.next + 1]

\* fork copies into process p every descriptor the service has open.
Inherit(held, p) ==
    [d \in Child |-> IF Service \in held[d] THEN held[d] \cup {p} ELSE held[d]]

\* Process p closes its descriptors of every pair.
Drop(held, p) == [d \in Child |-> held[d] \ {p}]

\* The service closes its end of the pair of c, unread answers with it.
CloseEnd(c) ==
    /\ svcHeld' = [svcHeld EXCEPT ![c] = @ \ {Service}]
    /\ toService' = [toService EXCEPT ![c] = <<>>]

\* waitpid returns the zombie c.
Reaped(c) ==
    /\ stage' = [stage EXCEPT ![c] = "reaped"]
    /\ exit' = [exit EXCEPT ![c] = "none"]

\* The call of t returns r: the guard is dropped and with it STATE unlocked.
Return(t, r) ==
    /\ pc' = [pc EXCEPT ![t] = "idle"]
    /\ op' = [op EXCEPT ![t] = "none"]
    /\ conn' = [conn EXCEPT ![t] = NoChild]
    /\ rid' = [rid EXCEPT ![t] = 0]
    /\ result' = [result EXCEPT ![t] = r]
    /\ owner' = NoThread

Goto(t, place) == pc' = [pc EXCEPT ![t] = place]

\* A child ends. Its own exit or the kernel closes all it has open, and what
\* it has not read nobody will; it stays a zombie for the service to reap, or
\* is reaped by init once that is gone.
Exit(c, how) ==
    /\ stage' = [stage EXCEPT ![c] = IF up THEN "zombie" ELSE "reaped"]
    /\ exit' = [exit EXCEPT ![c] = IF up THEN how ELSE "none"]
    /\ killed' = [killed EXCEPT ![c] = FALSE]
    /\ req' = [req EXCEPT ![c] = NoRequest]
    /\ svcHeld' = Drop(svcHeld, c)
    /\ chdHeld' = Drop(chdHeld, c)
    /\ toChild' = [toChild EXCEPT ![c] = <<>>]

------------------------------------------------------------------------------
(* The calls: binder threads in the service.                               *)

\* A transaction reaches onTransact on thread t, which blocks on STATE.lock.
Call(t, o) ==
    /\ up /\ pc[t] = "idle"
    /\ Goto(t, "lock")
    /\ op' = [op EXCEPT ![t] = o]
    /\ result' = [result EXCEPT ![t] = Outcome("none", NoChild)]
    /\ UNCHANGED <<up, owner, state, conn, rid, childVars, heldVars, wireVars, probe>>

AtLock(t) == up /\ pc[t] = "lock" /\ owner = NoThread

\* A second start, or a request with nothing started.
Refuse(t) ==
    /\ AtLock(t)
    /\ Running <=> op[t] = "start"
    /\ Return(t, Outcome(IF op[t] = "start" THEN "EBUSY" ELSE "ENOENT", NoChild))
    /\ UNCHANGED <<up, state, childVars, heldVars, wireVars, probe>>

\* Mutant of OpenPair: start does not ask whether a child is running.
OpenSecondPair(t, c) ==
    /\ AtLock(t) /\ op[t] = "start"
    /\ stage[c] = "unborn" /\ svcHeld[c] = {} /\ chdHeld[c] = {}
    /\ owner' = t
    /\ conn' = [conn EXCEPT ![t] = c]
    /\ svcHeld' = [svcHeld EXCEPT ![c] = {Service}]
    /\ chdHeld' = [chdHeld EXCEPT ![c] = {Service}]
    /\ Goto(t, "fork")
    /\ UNCHANGED <<up, state, op, rid, result, childVars, wireVars, probe>>

\* start: the socket pair, both ends in the service.
OpenPair(t, c) ==
    /\ AtLock(t) /\ op[t] = "start" /\ ~Running
    /\ stage[c] = "unborn" /\ svcHeld[c] = {} /\ chdHeld[c] = {}
    /\ owner' = t
    /\ conn' = [conn EXCEPT ![t] = c]
    /\ svcHeld' = [svcHeld EXCEPT ![c] = {Service}]
    /\ chdHeld' = [chdHeld EXCEPT ![c] = {Service}]
    /\ Goto(t, "fork")
    /\ UNCHANGED <<up, state, op, rid, result, childVars, wireVars, probe>>

\* getrlimit or socketpair fails.
OpenPairFails(t) ==
    /\ AtLock(t) /\ op[t] = "start" /\ ~Running
    /\ Return(t, Outcome("failed", NoChild))
    /\ UNCHANGED <<up, state, childVars, heldVars, wireVars, probe>>

Fork(t) ==
    /\ up /\ pc[t] = "fork"
    /\ stage' = [stage EXCEPT ![conn[t]] = "normalize"]
    /\ svcHeld' = Inherit(svcHeld, conn[t])
    /\ chdHeld' = Inherit(chdHeld, conn[t])
    /\ Goto(t, "install")
    /\ UNCHANGED <<up, owner, state, op, conn, rid, result, req, exit, killed,
                   wireVars, probe>>

\* Mutant of ForkFails: the child's end stays open in the service.
ForkFailsLeaks(t) ==
    /\ up /\ pc[t] = "fork"
    /\ svcHeld' = [svcHeld EXCEPT ![conn[t]] = @ \ {Service}]
    /\ Return(t, Outcome("failed", NoChild))
    /\ UNCHANGED <<up, state, childVars, chdHeld, wireVars, probe>>

ForkFails(t) ==
    /\ up /\ pc[t] = "fork"
    /\ svcHeld' = [svcHeld EXCEPT ![conn[t]] = @ \ {Service}]
    /\ chdHeld' = [chdHeld EXCEPT ![conn[t]] = @ \ {Service}]
    /\ Return(t, Outcome("failed", NoChild))
    /\ UNCHANGED <<up, state, childVars, wireVars, probe>>

\* The service closes its copy of the child's end, records the child and
\* waits for READY, which carries id 0.
Install(t) ==
    /\ up /\ pc[t] = "install"
    /\ chdHeld' = [chdHeld EXCEPT ![conn[t]] = @ \ {Service}]
    /\ state' = [child |-> conn[t], next |-> 1]
    /\ Goto(t, "await")
    /\ UNCHANGED <<up, owner, op, conn, rid, result, childVars, svcHeld, wireVars, probe>>

\* ping, status and shutdown: copy pid and fd, take a request id.
Begin(t) ==
    /\ AtLock(t) /\ op[t] # "start" /\ Running
    /\ owner' = t
    /\ conn' = [conn EXCEPT ![t] = state.child]
    /\ rid' = [rid EXCEPT ![t] = state.next]
    /\ state' = take_request_id(state)
    /\ Goto(t, "send")
    /\ UNCHANGED <<up, op, result, childVars, heldVars, wireVars, probe>>

CanSend(t) ==
    /\ Encodable("Request", Request[op[t]], rid[t])
    /\ chdHeld[conn[t]] # {}

parent_send(t) ==
    /\ up /\ pc[t] = "send" /\ CanSend(t)
    /\ toChild' = [toChild EXCEPT ![conn[t]] = Append(@, RequestMsg(op[t], rid[t]))]
    /\ Goto(t, "await")
    /\ UNCHANGED <<up, owner, state, op, conn, rid, result, childVars, heldVars,
                   toService, probe>>

\* EPROTO: the request cannot be encoded.  EPIPE: nobody has the other end.
SendFails(t) ==
    /\ up /\ pc[t] = "send" /\ ~CanSend(t)
    /\ Goto(t, "terminate")
    /\ UNCHANGED <<up, owner, state, op, conn, rid, result, childVars, heldVars,
                   wireVars, probe>>

\* parent_recv reads a packet: the expected answer, or EPROTO.
parent_recv(t) ==
    /\ up /\ pc[t] = "await" /\ toService[conn[t]] # <<>>
    /\ toService' = [toService EXCEPT ![conn[t]] = Tail(@)]
    /\ Goto(t, IF matches_response(Head(toService[conn[t]]), Expected[op[t]], rid[t])
               THEN "accepted" ELSE "terminate")
    /\ UNCHANGED <<up, owner, state, op, conn, rid, result, childVars, heldVars,
                   toChild, probe>>

\* recv returns 0: every copy of the child's end is closed.
RecvEof(t) ==
    /\ up /\ pc[t] = "await" /\ toService[conn[t]] = <<>> /\ chdHeld[conn[t]] = {}
    /\ Goto(t, "terminate")
    /\ UNCHANGED <<up, owner, state, op, conn, rid, result, childVars, heldVars,
                   wireVars, probe>>

\* Mutant of Timeout: the call gives up and keeps the child.
TimeoutKeepsChild(t) ==
    /\ up /\ pc[t] = "await" /\ toService[conn[t]] = <<>> /\ chdHeld[conn[t]] # {}
    /\ Return(t, Outcome("failed", NoChild))
    /\ UNCHANGED <<up, state, childVars, heldVars, wireVars, probe>>

\* ETIMEDOUT: nothing to read for STARTUP_TIMEOUT_MS.
Timeout(t) ==
    /\ up /\ pc[t] = "await" /\ toService[conn[t]] = <<>> /\ chdHeld[conn[t]] # {}
    /\ Goto(t, "terminate")
    /\ UNCHANGED <<up, owner, state, op, conn, rid, result, childVars, heldVars,
                   wireVars, probe>>

\* Mutant of PollFails: an interrupted poll is reported, the child kept.
PollFailsKeepsChild(t) ==
    /\ up /\ pc[t] = "await"
    /\ Return(t, Outcome("failed", NoChild))
    /\ UNCHANGED <<up, state, childVars, heldVars, wireVars, probe>>

\* poll or recv returns -1 (EINTR, ECONNRESET), whatever is in flight.
PollFails(t) ==
    /\ up /\ pc[t] = "await"
    /\ Goto(t, "terminate")
    /\ UNCHANGED <<up, owner, state, op, conn, rid, result, childVars, heldVars,
                   wireVars, probe>>

\* start, ping and status return the pid.
Finish(t) ==
    /\ up /\ pc[t] = "accepted" /\ op[t] # "shutdown"
    /\ Return(t, Outcome("ok", conn[t]))
    /\ UNCHANGED <<up, state, childVars, heldVars, wireVars, probe>>

\* shutdown has its BYE: forget the child and close the pair, then wait.
Detach(t) ==
    /\ up /\ pc[t] = "accepted" /\ op[t] = "shutdown"
    /\ state' = Stopped
    /\ CloseEnd(conn[t])
    /\ Goto(t, "wait")
    /\ UNCHANGED <<up, owner, op, conn, rid, result, childVars, chdHeld, toChild, probe>>

\* Mutant of Wait: a child that has not exited cleanly is terminated as well.
WaitThenKill(t) ==
    /\ up /\ pc[t] = "wait" /\ stage[conn[t]] = "zombie"
    /\ Reaped(conn[t])
    /\ IF exit[conn[t]] = "clean"
       THEN Return(t, Outcome("ok", NoChild))
       ELSE Goto(t, "kill") /\ UNCHANGED <<owner, op, conn, rid, result>>
    /\ UNCHANGED <<up, state, req, killed, heldVars, wireVars, probe>>

\* waitpid has no timeout; Ok only for exit status 0.
Wait(t) ==
    /\ up /\ pc[t] = "wait" /\ stage[conn[t]] = "zombie"
    /\ Reaped(conn[t])
    /\ Return(t, Outcome(IF exit[conn[t]] = "clean" THEN "ok" ELSE "failed", NoChild))
    /\ UNCHANGED <<up, state, req, killed, heldVars, wireVars, probe>>

\* waitpid is interrupted while it blocks: Err, and the child stays unreaped.
WaitInterrupted(t) ==
    /\ up /\ pc[t] = "wait" /\ stage[conn[t]] # "zombie"
    /\ Return(t, Outcome("failed", NoChild))
    /\ UNCHANGED <<up, state, childVars, heldVars, wireVars, probe>>

\* Mutant of parent_force_terminate: STATE keeps the pid of the child it kills.
TerminateKeepsState(t) ==
    /\ up /\ pc[t] = "terminate"
    /\ CloseEnd(conn[t])
    /\ Goto(t, "kill")
    /\ UNCHANGED <<up, owner, state, op, conn, rid, result, childVars, chdHeld, toChild, probe>>

\* parent_force_terminate: forget the child and close the pair ...
parent_force_terminate(t) ==
    /\ up /\ pc[t] = "terminate"
    /\ state' = Stopped
    /\ CloseEnd(conn[t])
    /\ Goto(t, "kill")
    /\ UNCHANGED <<up, owner, op, conn, rid, result, childVars, chdHeld, toChild, probe>>

\* Mutant of Kill: a signal child_main blocks.
KillWithBlockedSignal(t) ==
    /\ up /\ pc[t] = "kill"
    /\ Goto(t, "reap")
    /\ UNCHANGED <<up, owner, state, op, conn, rid, result, childVars,
                   heldVars, wireVars, probe>>

\* ... SIGKILL its pid (a zombie ignores it) ...
Kill(t) ==
    /\ up /\ pc[t] = "kill"
    /\ killed' = [killed EXCEPT ![conn[t]] = Alive(conn[t])]
    /\ Goto(t, "reap")
    /\ UNCHANGED <<up, owner, state, op, conn, rid, result, stage, req, exit,
                   heldVars, wireVars, probe>>

\* ... and waitpid, whose failure is ignored.
Reap(t) ==
    /\ up /\ pc[t] = "reap" /\ stage[conn[t]] = "zombie"
    /\ Reaped(conn[t])
    /\ Return(t, Outcome("failed", NoChild))
    /\ UNCHANGED <<up, state, req, killed, heldVars, wireVars, probe>>

ReapInterrupted(t) ==
    /\ up /\ pc[t] = "reap" /\ stage[conn[t]] # "zombie"
    /\ Return(t, Outcome("failed", NoChild))
    /\ UNCHANGED <<up, state, childVars, heldVars, wireVars, probe>>

------------------------------------------------------------------------------
(* The child: child_main from the fork on.                                 *)

\* child_normalize_control_fd: closes the inherited service end; the child's
\* end moves to CONTROL_FD.
Normalize(c) ==
    /\ stage[c] = "normalize"
    /\ svcHeld' = [svcHeld EXCEPT ![c] = @ \ {c}]
    /\ stage' = [stage EXCEPT ![c] = After[@]]
    /\ UNCHANGED <<up, threadVars, req, exit, killed, chdHeld, wireVars, probe>>

\* Mutant of Scrub: it closes from CONTROL_FD on, not from the next.
ScrubFromControlFd(c) ==
    /\ stage[c] = "scrub"
    /\ svcHeld' = Drop(svcHeld, c)
    /\ chdHeld' = Drop(chdHeld, c)
    /\ stage' = [stage EXCEPT ![c] = After[@]]
    /\ UNCHANGED <<up, threadVars, req, exit, killed, wireVars, probe>>

\* child_scrub_fds: closes every other inherited descriptor.
Scrub(c) ==
    /\ stage[c] = "scrub"
    /\ svcHeld' = Drop(svcHeld, c)
    /\ chdHeld' = [d \in Child |-> IF d = c THEN chdHeld[d] ELSE chdHeld[d] \ {c}]
    /\ stage' = [stage EXCEPT ![c] = After[@]]
    /\ UNCHANGED <<up, threadVars, req, exit, killed, wireVars, probe>>

\* Signals blocked, PDEATHSIG, no_new_privs, seccomp, boundary verified.
Harden(c) ==
    /\ stage[c] \in Setup \ {"normalize", "scrub"}
    /\ stage' = [stage EXCEPT ![c] = After[@]]
    /\ UNCHANGED <<up, threadVars, req, exit, killed, heldVars, wireVars, probe>>

\* A lockdown step fails, among them getppid() = 1 after PDEATHSIG: exit 101-107.
SetupFails(c) ==
    /\ stage[c] \in Setup
    /\ Exit(c, "failed")
    /\ UNCHANGED <<up, threadVars, toService, probe>>

\* child_send: possible while anybody has the service's end open.  READY has id
\* 0 and every answer the nonzero id of a parsed request: all can be encoded.
CanAnswer(c) == svcHeld[c] # {}
child_send(c, r, id) ==
    toService' = [toService EXCEPT ![c] = Append(@, ResponseMsg(r, id))]

Greet(c) ==
    /\ stage[c] = "greet" /\ CanAnswer(c)
    /\ child_send(c, RESP_READY, 0)
    /\ stage' = [stage EXCEPT ![c] = "recv"]
    /\ UNCHANGED <<up, threadVars, req, exit, killed, heldVars, toChild, probe>>

\* Mutant of child_recv: MSG_PEEK, the request stays in the queue.
ChildPeeks(c) ==
    /\ stage[c] = "recv" /\ toChild[c] # <<>>
    /\ req' = [req EXCEPT ![c] = [opcode |-> Head(toChild[c]).opcode,
                                  request_id |-> Head(toChild[c]).request_id]]
    /\ stage' = [stage EXCEPT ![c] = "answer"]
    /\ UNCHANGED <<up, threadVars, exit, killed, heldVars, wireVars, probe>>

\* The service sends nothing parse would refuse: the answers RESP_ERROR, 0 to a
\* packet that is malformed or no request are unreachable and left out.
child_recv(c) ==
    /\ stage[c] = "recv" /\ toChild[c] # <<>>
    /\ req' = [req EXCEPT ![c] = [opcode |-> Head(toChild[c]).opcode,
                                  request_id |-> Head(toChild[c]).request_id]]
    /\ toChild' = [toChild EXCEPT ![c] = Tail(@)]
    /\ stage' = [stage EXCEPT ![c] = "answer"]
    /\ UNCHANGED <<up, threadVars, exit, killed, heldVars, toService, probe>>

\* What child_main answers to an opcode other than SHUTDOWN.
Reply(opcode) ==
    IF opcode = OP_PING THEN RESP_PONG
    ELSE IF opcode = OP_STATUS THEN RESP_LOCKED ELSE RESP_ERROR

Answer(c) ==
    /\ stage[c] = "answer" /\ req[c].opcode # OP_SHUTDOWN /\ CanAnswer(c)
    /\ child_send(c, Reply(req[c].opcode), req[c].request_id)
    /\ stage' = [stage EXCEPT ![c] = "recv"]
    /\ req' = [req EXCEPT ![c] = NoRequest]
    /\ UNCHANGED <<up, threadVars, exit, killed, heldVars, toChild, probe>>

\* BYE is best effort: the child leaves whether or not it could be sent.
Bye(c) ==
    /\ stage[c] = "answer" /\ req[c].opcode = OP_SHUTDOWN
    /\ IF CanAnswer(c) THEN child_send(c, RESP_BYE, req[c].request_id)
                       ELSE UNCHANGED toService
    /\ stage' = [stage EXCEPT ![c] = "bye"]
    /\ req' = [req EXCEPT ![c] = NoRequest]
    /\ UNCHANGED <<up, threadVars, exit, killed, heldVars, toChild, probe>>

ExitClean(c) ==
    /\ stage[c] = "bye"
    /\ Exit(c, "clean")
    /\ UNCHANGED <<up, threadVars, toService, probe>>

\* Mutant of LosesPeer: READY is sent again until somebody takes it.
RetriesReady(c) ==
    /\ svcHeld[c] = {}
    /\ \/ stage[c] = "recv" /\ toChild[c] = <<>>
       \/ stage[c] = "answer" /\ req[c].opcode # OP_SHUTDOWN
    /\ Exit(c, "failed")
    /\ UNCHANGED <<up, threadVars, toService, probe>>

\* recvfrom returns 0: exit 109.  READY or an answer cannot be sent: 108, 111-113.
LosesPeer(c) ==
    /\ svcHeld[c] = {}
    /\ \/ stage[c] = "recv" /\ toChild[c] = <<>>
       \/ stage[c] = "greet"
       \/ stage[c] = "answer" /\ req[c].opcode # OP_SHUTDOWN
    /\ Exit(c, "failed")
    /\ UNCHANGED <<up, threadVars, toService, probe>>

\* SIGKILL is delivered.
Die(c) ==
    /\ killed[c] /\ Alive(c)
    /\ Exit(c, "signal")
    /\ UNCHANGED <<up, threadVars, toService, probe>>

------------------------------------------------------------------------------
(* Around the executor.                                                    *)

\* GET_IDENTITY on another binder thread forks a proof child, which inherits
\* whatever the service has open at that moment and holds it until it exits.
ForkProbe(p) ==
    /\ up /\ probe[p] = "unborn"
    /\ probe' = [probe EXCEPT ![p] = "running"]
    /\ svcHeld' = Inherit(svcHeld, p)
    /\ chdHeld' = Inherit(chdHeld, p)
    /\ UNCHANGED <<up, threadVars, childVars, wireVars>>

ProbeExits(p) ==
    /\ probe[p] = "running"
    /\ probe' = [probe EXCEPT ![p] = "done"]
    /\ svcHeld' = Drop(svcHeld, p)
    /\ chdHeld' = Drop(chdHeld, p)
    /\ UNCHANGED <<up, threadVars, childVars, wireVars>>

\* Android kills a child process of the service.
KilledFromOutside(c) ==
    /\ Alive(c) /\ ~killed[c]
    /\ killed' = [killed EXCEPT ![c] = TRUE]
    /\ UNCHANGED <<up, threadVars, stage, req, exit, heldVars, wireVars, probe>>

\* The service process dies, with its threads and its memory.  The kernel
\* sends PDEATHSIG to the children that have asked for it; init adopts them.
ServiceDies ==
    /\ up
    /\ up' = FALSE
    /\ owner' = NoThread
    /\ state' = Stopped
    /\ pc' = [t \in Thread |-> "gone"]
    /\ op' = [t \in Thread |-> "none"]
    /\ conn' = [t \in Thread |-> NoChild]
    /\ rid' = [t \in Thread |-> 0]
    /\ result' = [t \in Thread |-> Outcome("none", NoChild)]
    /\ killed' = [c \in Child |-> killed[c] \/ (Alive(c) /\ stage[c] \notin Unarmed)]
    /\ stage' = [c \in Child |-> IF stage[c] = "zombie" THEN "reaped" ELSE stage[c]]
    /\ exit' = [c \in Child |-> "none"]
    /\ toService' = [c \in Child |-> <<>>]
    /\ svcHeld' = Drop(svcHeld, Service)
    /\ chdHeld' = Drop(chdHeld, Service)
    /\ UNCHANGED <<req, toChild, probe>>

\* Nothing is left to run.
Over ==
    /\ ~up
    /\ \A c \in Child : ~Alive(c)
    /\ \A p \in Probe : probe[p] # "running"
    /\ UNCHANGED vars

------------------------------------------------------------------------------
\* The steps of a call once it holds STATE, interrupted system calls apart.
CallStep(t) ==
    \/ Fork(t) \/ ForkFails(t) \/ Install(t)
    \/ parent_send(t) \/ SendFails(t)
    \/ parent_recv(t) \/ RecvEof(t) \/ Timeout(t)
    \/ Finish(t) \/ Detach(t) \/ Wait(t)
    \/ parent_force_terminate(t) \/ Kill(t) \/ Reap(t)

ThreadStep(t) ==
    \/ \E o \in Op : Call(t, o)
    \/ Refuse(t) \/ OpenPairFails(t) \/ Begin(t)
    \/ \E c \in Child : OpenPair(t, c)
    \/ CallStep(t)
    \/ PollFails(t) \/ WaitInterrupted(t) \/ ReapInterrupted(t)

\* The steps the child takes by itself when nothing fails.
ChildProgress(c) ==
    \/ Normalize(c) \/ Scrub(c) \/ Harden(c) \/ Greet(c)
    \/ child_recv(c) \/ Answer(c) \/ Bye(c) \/ ExitClean(c) \/ LosesPeer(c)

ChildStep(c) == ChildProgress(c) \/ SetupFails(c) \/ Die(c) \/ KilledFromOutside(c)

Next ==
    \/ \E t \in Thread : ThreadStep(t)
    \/ \E c \in Child : ChildStep(c)
    \/ \E p \in Probe : ForkProbe(p) \/ ProbeExits(p)
    \/ ServiceDies
    \/ Over

Spec == Init /\ [][Next]_vars

------------------------------------------------------------------------------
(* Fairness.  A thread that holds STATE goes on: the system calls it makes   *)
(* return, poll after its timeout at the latest, waitpid once the child has  *)
(* ended.  Of the child it is only assumed that a pending SIGKILL is         *)
(* delivered and that, after BYE, it exits: it may hang anywhere else.       *)
CallFairness ==
    /\ \A t \in Thread : WF_vars(CallStep(t))
    /\ \A c \in Child : WF_vars(ExitClean(c) \/ Die(c))

\* The kernel also schedules the child and the proof children.
ChildFairness ==
    /\ \A c \in Child : WF_vars(ChildProgress(c) \/ Die(c))
    /\ \A p \in Probe : WF_vars(ProbeExits(p))

------------------------------------------------------------------------------
(* Safety.                                                                 *)

\* The types of all variables.
ThreadTypes ==
    /\ owner \in Thread \cup {NoThread}
    /\ state \in [child: Child \cup {NoChild}, next: 1 .. MaxId]
    /\ pc \in [Thread -> Critical \cup {"idle", "lock", "gone"}]
    /\ op \in [Thread -> Op \cup {"none"}]
    /\ conn \in [Thread -> Child \cup {NoChild}]
    /\ rid \in [Thread -> Ids]
    /\ result \in [Thread -> Result]
ChildTypes ==
    /\ stage \in [Child -> Live \cup {"unborn", "zombie", "reaped"}]
    /\ req \in [Child -> [opcode: {0, OP_PING, OP_STATUS, OP_SHUTDOWN}, request_id: Ids]]
    /\ exit \in [Child -> {"none", "clean", "failed", "signal"}]
    /\ killed \in [Child -> BOOLEAN]
HeldTypes ==
    /\ svcHeld \in [Child -> SUBSET Proc]
    /\ chdHeld \in [Child -> SUBSET Proc]
WireTypes ==
    /\ toChild \in [Child -> Seq(Requests)]
    /\ toService \in [Child -> Seq(Responses)]
TypeOK ==
    /\ up \in BOOLEAN
    /\ ThreadTypes /\ ChildTypes /\ HeldTypes /\ WireTypes
    /\ probe \in [Probe -> {"unborn", "running", "done"}]

\* A call that returns leaves nothing behind for the next one to trip over:
\* while STATE is free, the channel of the recorded child is empty both ways
\* and the child, if it lives, is back in recvfrom.
Quiet(c) ==
    /\ toChild[c] = <<>> /\ toService[c] = <<>>
    /\ stage[c] \in {"recv", "zombie"}
ChannelIsQuiet == owner = NoThread /\ Running => Quiet(state.child)

\* A packet a waiting call finds is the answer to the very request it sent,
\* the only one in flight: late answers to calls that timed out, answers of an
\* earlier child and answers after the id has wrapped never reach it.
AnswerIsForThisCall ==
    \A t \in Thread : pc[t] = "await" /\ toService[conn[t]] # <<>> =>
        /\ toService[conn[t]] = <<ResponseMsg(Expected[op[t]], rid[t])>>
        /\ toChild[conn[t]] = <<>>

\* c is on its way out, whatever the service does from now on.
Doomed(c) == killed[c] \/ stage[c] = "bye"

\* At most one child goes on living: any other than the recorded one, or the
\* one the holder of STATE is dealing with, is about to end, also when a fork,
\* a poll or a waitpid has failed half way.
OneExecutor ==
    up => \A c \in Child : Alive(c) =>
        \/ c = state.child
        \/ Doomed(c)
        \/ \E t \in Thread : pc[t] \in {"install", "kill"} /\ conn[t] = c

\* The service has the ends open that STATE or the current start accounts for,
\* on no path one more (socketpair, fork, install, terminate, detach).
NoDescriptorLeak ==
    \A c \in Child :
        /\ Service \in svcHeld[c] =>
               c = state.child \/ \E t \in Thread : pc[t] \in {"fork", "install"} /\ conn[t] = c
        /\ Service \in chdHeld[c] =>
               \E t \in Thread : pc[t] \in {"fork", "install"} /\ conn[t] = c

\* Past the scrub a child has one descriptor, its own control socket, whatever
\* the service had open when it forked (persistent_executor.rs:1241).
SoleCapability ==
    \A c, d \in Child : stage[c] \in Live \ {"normalize", "scrub"} =>
        /\ c \notin svcHeld[d]
        /\ c \in chdHeld[d] <=> c = d

\* kill and waitpid are given the pid of a child not yet reaped, which the
\* kernel cannot have given to another process.
PidIsOwned ==
    \A t \in Thread : pc[t] \in {"kill", "reap", "wait"} =>
        Alive(conn[t]) \/ stage[conn[t]] = "zombie"

------------------------------------------------------------------------------
(* Liveness.                                                               *)

\* Whoever holds STATE gives it back, be the child hung, dead or closed: no
\* call keeps the others waiting for ever (shutdown relies on the child exiting
\* once it has sent BYE, for its waitpid has no timeout).
CallsEnd == CallFairness => \A t \in Thread : owner = t ~> owner # t

\* The service is done with c: it is gone, or has no record of c left.
Abandoned(c) ==
    \/ ~up
    \/ c # state.child /\ \A t \in Thread : pc[t] = "install" => conn[t] # c

\* A child the service is done with ends even if nobody kills it: closing the
\* service's end is enough once the proof children that inherited it are
\* gone, and a child whose service dies ends at whatever point it is, PDEATHSIG
\* already asked for or not.
AbandonedChildEnds ==
    ChildFairness => \A c \in Child : Alive(c) /\ Abandoned(c) ~> ~Alive(c)
=============================================================================
