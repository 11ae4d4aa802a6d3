---------------------------- MODULE ChildLockdown ----------------------------
(***************************************************************************)
(* The descriptors of the locked child between fork and the end of the     *)
(* scrub (persistent_executor.rs): which numbers are open, and what each   *)
(* of them is.  The socket ends may have any number, those of the standard *)
(* streams and CONTROL_FD included, since the service may have closed its  *)
(* own.  The kernel may refuse close_range, in which case the child closes *)
(* every number below the limit that was captured before the fork.         *)
(*                                                                         *)
(* The table is the child's own: nothing else changes it.                  *)
(***************************************************************************)
EXTENDS Naturals

CONSTANTS
    Fd,              \* descriptor numbers
    Limit,           \* soft limits of RLIMIT_NOFILE the service can have
    FallbackMax,     \* MAX_FALLBACK_CLOSE_FDS
    U32Max           \* u32::MAX

CONTROL_FD == 3

ASSUME LockdownAssumption ==
    /\ Fd \subseteq Nat /\ 0 .. CONTROL_FD \subseteq Fd
    /\ Limit \subseteq Nat
    /\ FallbackMax \in Nat /\ U32Max \in Nat /\ FallbackMax < U32Max

VARIABLES
    table,                 \* what each number is open on
    parent_fd, child_fd,   \* the ends of the socket pair
    max_fd,                \* the captured limit
    place, fd              \* where the child is; the counter of its loop

args == <<parent_fd, child_fd, max_fd>>
vars == <<table, args, place, fd>>

------------------------------------------------------------------------------
Closed == "closed"
Object == {Closed, "service", "control", "other"}

Setting == {"close_parent", "dup", "close_child", "stdio", "scrub", "loop"}

\* Mutant of capture_fd_limit: the last number below the limit is lost.
CaptureOneShort(limit) ==
    IF limit > U32Max THEN U32Max ELSE IF limit = 0 THEN 0 ELSE limit - 1

capture_fd_limit(limit) == IF limit > U32Max THEN U32Max ELSE limit

\* The child inherits all the service has open, below the limit all of it.
Init ==
    /\ parent_fd \in Fd /\ child_fd \in Fd \ {parent_fd}
    /\ \E limit \in Limit :
        /\ max_fd = capture_fd_limit(limit)
        /\ table \in [Fd -> Object]
        /\ \A f \in Fd : table[f] # Closed => f < limit
    /\ \A f \in Fd : /\ table[f] = "service" <=> f = parent_fd
                     /\ table[f] = "control" <=> f = child_fd
    /\ place = "close_parent"
    /\ fd = 0

child_close(f) == table' = [table EXCEPT ![f] = Closed]

------------------------------------------------------------------------------
(* child_normalize_control_fd.                                             *)

\* Mutant of CloseParent: the standard streams are closed at once.
CloseStdioFirst ==
    /\ place = "close_parent"
    /\ table' = [f \in Fd |-> IF f \in 0 .. 2 \cup {parent_fd} THEN Closed ELSE table[f]]
    /\ place' = "dup"
    /\ UNCHANGED <<args, fd>>

CloseParent ==
    /\ place = "close_parent"
    /\ child_close(parent_fd)
    /\ place' = "dup"
    /\ UNCHANGED <<args, fd>>

AlreadyControl ==
    /\ place = "dup" /\ child_fd = CONTROL_FD
    /\ place' = "stdio"
    /\ UNCHANGED <<table, args, fd>>

\* dup3 closes what CONTROL_FD was before.
Dup3 ==
    /\ place = "dup" /\ child_fd # CONTROL_FD
    /\ table' = [table EXCEPT ![CONTROL_FD] = table[child_fd]]
    /\ place' = "close_child"
    /\ UNCHANGED <<args, fd>>

\* exit 101.
Dup3Fails ==
    /\ place = "dup" /\ child_fd # CONTROL_FD
    /\ place' = "exited"
    /\ UNCHANGED <<table, args, fd>>

CloseChild ==
    /\ place = "close_child"
    /\ child_close(child_fd)
    /\ place' = "stdio"
    /\ UNCHANGED <<args, fd>>

CloseStdio ==
    /\ place = "stdio"
    /\ table' = [f \in Fd |-> IF f \in 0 .. 2 THEN Closed ELSE table[f]]
    /\ place' = "scrub"
    /\ UNCHANGED <<args, fd>>

------------------------------------------------------------------------------
(* child_scrub_fds.                                                        *)

CloseRange ==
    /\ place = "scrub"
    /\ table' = [f \in Fd |-> IF f > CONTROL_FD THEN Closed ELSE table[f]]
    /\ place' = "scrubbed"
    /\ UNCHANGED <<args, fd>>

\* Mutant of CloseRangeRefused: the loop starts at CONTROL_FD.
LoopFromControlFd ==
    /\ place = "scrub" /\ max_fd <= FallbackMax
    /\ place' = "loop"
    /\ fd' = CONTROL_FD
    /\ UNCHANGED <<table, args>>

\* The kernel does not have it or an inherited policy denies it.
CloseRangeRefused ==
    /\ place = "scrub" /\ max_fd <= FallbackMax
    /\ place' = "loop"
    /\ fd' = CONTROL_FD + 1
    /\ UNCHANGED <<table, args>>

\* exit 102: too many numbers to close one by one.
TooMany ==
    /\ place = "scrub" /\ max_fd > FallbackMax
    /\ place' = "exited"
    /\ UNCHANGED <<table, args, fd>>

CloseNext ==
    /\ place = "loop" /\ fd < max_fd
    /\ table' = [f \in Fd |-> IF f = fd THEN Closed ELSE table[f]]
    /\ fd' = fd + 1
    /\ UNCHANGED <<args, place>>

LoopEnds ==
    /\ place = "loop" /\ fd >= max_fd
    /\ place' = "scrubbed"
    /\ UNCHANGED <<table, args, fd>>

------------------------------------------------------------------------------
\* Nothing more happens to the table.
Over == place \in {"scrubbed", "exited"} /\ UNCHANGED vars

NormalizeStep ==
    \/ CloseParent \/ AlreadyControl \/ Dup3 \/ Dup3Fails \/ CloseChild \/ CloseStdio
ScrubStep == CloseRange \/ CloseRangeRefused \/ TooMany \/ CloseNext \/ LoopEnds

Next == NormalizeStep \/ ScrubStep \/ Over

Spec == Init /\ [][Next]_vars

------------------------------------------------------------------------------
(* Safety.                                                                 *)

\* The types of all variables; the loop stays above CONTROL_FD.
TypeOK ==
    /\ table \in [Fd -> Object]
    /\ parent_fd \in Fd /\ child_fd \in Fd
    /\ max_fd \in 0 .. U32Max
    /\ place \in Setting \cup {"scrubbed", "exited"}
    /\ fd \in Nat
    /\ place = "loop" => fd > CONTROL_FD

\* After the scrub the child's end of the pair, at CONTROL_FD, is all that is
\* open (persistent_executor.rs:821-823, 831-833), whatever numbers the ends
\* had, whatever else was open and whichever way it was closed.
OnlyControl ==
    place = "scrubbed" =>
        \A f \in Fd : table[f] = IF f = CONTROL_FD THEN "control" ELSE Closed

\* On the way there the child never closes its own end, or puts another
\* descriptor in its place: a number is not closed while it is still needed.
ControlKept == place # "exited" => \E f \in Fd : table[f] = "control"
=============================================================================
