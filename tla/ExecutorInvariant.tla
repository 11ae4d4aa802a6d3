------------------------- MODULE ExecutorInvariant -------------------------
(***************************************************************************)
(* The inductive invariant from which the safety properties of             *)
(* PersistentExecutor follow.                                              *)
(***************************************************************************)
EXTENDS PersistentExecutor

\* STATE is held in the critical places of a call and nowhere else.
LockInv ==
    /\ \A t \in Thread : owner = t <=> pc[t] \in Critical
    /\ \A t \in Thread : up <=> pc[t] # "gone"
    /\ ~up => ~Running /\ owner = NoThread

\* A call is in the places its operation goes through, with its request id.
CallInv ==
    \A t \in Thread :
        /\ op[t] = "none" <=> pc[t] \in {"idle", "gone"}
        /\ pc[t] \in {"fork", "install"} => op[t] = "start"
        /\ pc[t] = "send" => op[t] # "start"
        /\ pc[t] = "wait" => op[t] = "shutdown"
        /\ rid[t] = 0 <=> pc[t] \notin Critical \/ op[t] = "start"

\* The child in a thread's locals against the one in STATE.
HandleInv ==
    \A t \in Thread :
        /\ pc[t] \notin Critical => conn[t] = NoChild
        /\ pc[t] \in Critical => conn[t] \in Child
        /\ pc[t] \in {"fork", "install", "kill", "reap", "wait"} => ~Running
        /\ pc[t] \in {"send", "await", "accepted", "terminate"} => state.child = conn[t]

\* What the service has open, exactly.
Opening(c) == \E t \in Thread : pc[t] \in {"fork", "install"} /\ conn[t] = c
EndInv ==
    \A c \in Child :
        /\ Service \in svcHeld[c] <=> c = state.child \/ Opening(c)
        /\ Service \in chdHeld[c] <=> Opening(c)

\* The children the service deals with exist, and are not reaped.
Unreaped(c) == stage[c] \in Live \cup {"zombie"}
LifeInv ==
    /\ Running => Unreaped(state.child)
    /\ \A t \in Thread :
        /\ pc[t] = "fork" => stage[conn[t]] = "unborn"
        /\ pc[t] \in {"install", "kill", "reap", "wait"} => Unreaped(conn[t])
    /\ \A c \in Child : stage[c] = "unborn" =>
        ~killed[c] /\ toChild[c] = <<>> /\ toService[c] = <<>>

\* What each child has open, at each point of its life.
CapabilityInv ==
    \A c, d \in Child :
        /\ c \in svcHeld[d] => stage[c] = "normalize" \/ (stage[c] = "scrub" /\ c # d)
        /\ c \in chdHeld[d] => stage[c] \in {"normalize", "scrub"} \/ (Alive(c) /\ c = d)
        /\ Alive(c) => c \in chdHeld[c]

\* The channel while start waits for READY ...
Early(c) ==
    /\ toChild[c] = <<>>
    /\ \/ stage[c] \in Setup \cup {"greet", "zombie"} /\ toService[c] = <<>>
       \/ stage[c] \in {"recv", "zombie"} /\ toService[c] = <<ResponseMsg(RESP_READY, 0)>>

\* ... while a request waits for its answer ...
Exchange(t, c) ==
    \/ /\ toChild[c] = <<RequestMsg(op[t], rid[t])>> /\ toService[c] = <<>>
       /\ stage[c] \in {"recv", "zombie"}
    \/ /\ toChild[c] = <<>> /\ toService[c] = <<>>
       /\ \/ stage[c] = "zombie"
          \/ /\ stage[c] = "answer"
             /\ req[c] = [opcode |-> Request[op[t]], request_id |-> rid[t]]
    \/ /\ toChild[c] = <<>>
       /\ toService[c] = <<ResponseMsg(Expected[op[t]], rid[t])>>
       /\ stage[c] \in {"zombie", IF op[t] = "shutdown" THEN "bye" ELSE "recv"}

\* ... and once BYE has been read.
Leaving(c) ==
    /\ toChild[c] = <<>> /\ toService[c] = <<>>
    /\ stage[c] \in {"bye", "zombie"}

ChannelInv ==
    /\ ChannelIsQuiet
    /\ \A t \in Thread :
        /\ pc[t] = "install" => Early(conn[t])
        /\ pc[t] = "send" => Quiet(conn[t])
        /\ pc[t] = "await" =>
            IF op[t] = "start" THEN Early(conn[t]) ELSE Exchange(t, conn[t])
        /\ pc[t] = "accepted" =>
            IF op[t] = "shutdown" THEN Leaving(conn[t]) ELSE Quiet(conn[t])
        /\ pc[t] = "wait" => stage[conn[t]] \in {"bye", "zombie"}

ReapInv ==
    \A t \in Thread : pc[t] = "reap" => killed[conn[t]] \/ ~Alive(conn[t])

\* Every conjunct is needed for the next: which call holds STATE fixes which
\* child it talks to, that fixes which ends are open and which child lives,
\* and only then is the content of the channel determined.
IndInv ==
    /\ TypeOK /\ LockInv /\ CallInv /\ HandleInv /\ EndInv
    /\ LifeInv /\ CapabilityInv /\ ChannelInv /\ ReapInv /\ OneExecutor
=============================================================================
