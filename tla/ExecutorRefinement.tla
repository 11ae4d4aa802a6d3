------------------------- MODULE ExecutorRefinement -------------------------
(***************************************************************************)
(* PersistentExecutor implements AbstractExecutor.  A call takes effect    *)
(* when it returns: until then the executor its callers can rely on is the *)
(* one there was when it took STATE, however far the call has got with     *)
(* tearing it down or starting a new one.                                  *)
(***************************************************************************)
EXTENDS PersistentExecutor

AbsExec ==
    IF owner = NoThread THEN state.child
    ELSE IF op[owner] = "start" THEN NoChild ELSE conn[owner]

\* A child counts as given out once its start has returned.
AbsSpent ==
    {c \in Child : /\ stage[c] # "unborn"
                   /\ ~ \E t \in Thread : op[t] = "start" /\ conn[t] = c}

Abs == INSTANCE AbstractExecutor
           WITH exec <- AbsExec, spent <- AbsSpent, call <- op

\* The implementation of start, ping, status and shutdown, with its locking,
\* its timeouts and its failure paths, does what AbstractExecutor promises:
\* Ok names the child of the last successful start, EBUSY and ENOENT change
\* nothing, any other failure leaves nothing running.
ImplementsAbstract == Abs!Spec
=============================================================================
