-------------------------- MODULE AbstractExecutor --------------------------
(***************************************************************************)
(* What the four entry points of the persistent executor promise their     *)
(* callers: there is at most one executor, every call takes effect at one  *)
(* moment, a refused call changes nothing, and a call that fails any other *)
(* way leaves no executor behind.  Sockets, processes and STATE are not    *)
(* seen here.                                                              *)
(***************************************************************************)
CONSTANTS Thread, Child, NoChild

VARIABLES
    up,       \* the service process lives
    exec,     \* the child that start last reported, or NoChild
    spent,    \* pids that have been given to a child before
    call,     \* what each thread has asked for, "none" outside a call
    result    \* what its last call returned

absVars == <<up, exec, spent, call, result>>

Op == {"start", "ping", "status", "shutdown"}

Outcome(status, c) == [status |-> status, pid |-> c]

Init ==
    /\ up = TRUE
    /\ exec = NoChild
    /\ spent = {}
    /\ call = [t \in Thread |-> "none"]
    /\ result = [t \in Thread |-> Outcome("none", NoChild)]

Invoke(t, o) ==
    /\ up /\ call[t] = "none"
    /\ call' = [call EXCEPT ![t] = o]
    /\ result' = [result EXCEPT ![t] = Outcome("none", NoChild)]
    /\ UNCHANGED <<up, exec, spent>>

Return(t, r) ==
    /\ up
    /\ call' = [call EXCEPT ![t] = "none"]
    /\ result' = [result EXCEPT ![t] = r]
    /\ UNCHANGED up

\* start reports a new child.
StartOk(t, c) ==
    /\ call[t] = "start" /\ exec = NoChild /\ c \notin spent
    /\ exec' = c
    /\ spent' = spent \cup {c}
    /\ Return(t, Outcome("ok", c))

\* start fails; a child it may have forked is not reported.
StartFails(t) ==
    /\ call[t] = "start" /\ exec = NoChild
    /\ spent' \in {spent} \cup {spent \cup {c} : c \in Child}
    /\ Return(t, Outcome("failed", NoChild))
    /\ UNCHANGED exec

StartBusy(t) ==
    /\ call[t] = "start" /\ exec # NoChild
    /\ Return(t, Outcome("EBUSY", NoChild))
    /\ UNCHANGED <<exec, spent>>

\* ping and status report the child that was started.
RequestOk(t) ==
    /\ call[t] \in {"ping", "status"} /\ exec # NoChild
    /\ Return(t, Outcome("ok", exec))
    /\ UNCHANGED <<exec, spent>>

ShutdownOk(t) ==
    /\ call[t] = "shutdown" /\ exec # NoChild
    /\ exec' = NoChild
    /\ Return(t, Outcome("ok", NoChild))
    /\ UNCHANGED spent

\* Any failure of a request is final for the executor it was sent to.
RequestFails(t) ==
    /\ call[t] \in Op \ {"start"} /\ exec # NoChild
    /\ exec' = NoChild
    /\ Return(t, Outcome("failed", NoChild))
    /\ UNCHANGED spent

NotRunning(t) ==
    /\ call[t] \in Op \ {"start"} /\ exec = NoChild
    /\ Return(t, Outcome("ENOENT", NoChild))
    /\ UNCHANGED <<exec, spent>>

\* The service process dies and every call in progress with it.
Vanish ==
    /\ up
    /\ up' = FALSE
    /\ exec' = NoChild
    /\ spent' \in SUBSET Child
    /\ call' = [t \in Thread |-> "none"]
    /\ result' = [t \in Thread |-> Outcome("none", NoChild)]

Next ==
    \/ \E t \in Thread :
        \/ \E o \in Op : Invoke(t, o)
        \/ \E c \in Child : StartOk(t, c)
        \/ StartFails(t) \/ StartBusy(t)
        \/ RequestOk(t) \/ ShutdownOk(t) \/ RequestFails(t) \/ NotRunning(t)
    \/ Vanish

Spec == Init /\ [][Next]_absVars
=============================================================================
