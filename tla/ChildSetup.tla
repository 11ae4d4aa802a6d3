------------------------------ MODULE ChildSetup ------------------------------
(***************************************************************************)
(* The way of a child from fork to its work: the locked child of the       *)
(* executor first gives up its descriptors (ChildLockdown), then, with the *)
(* signals blocked, its rights (Confinement); the proof child and the      *)
(* payload give up their rights only and keep the descriptors.  A step     *)
(* that fails ends the child with a code of its own, which the one who     *)
(* waits for it is told (child_main, persistent_executor.rs).              *)
(*                                                                         *)
(* The program a child may inherit denies none of the calls made here.     *)
(***************************************************************************)
EXTENDS ChildLockdown

CONSTANTS Signal, Number

VARIABLES kind, step, nnp, filters, own, code, status, report

C == INSTANCE Confinement WITH place <- step

\* Signals have the numbers of the native kernel, and so have the calls of the code.
ASSUME SetupAssumption ==
    /\ Signal \subseteq 1 .. 64
    /\ {C!nr[call] : call \in DOMAIN C!nr} \subseteq Number

rightsVars == <<kind, step, nnp, filters, own, code, status, report>>
allVars == <<vars, rightsVars>>

------------------------------------------------------------------------------
\* The table of a child that keeps its descriptors does not matter: one stands
\* for all.
Keeps == parent_fd = 0 /\ child_fd = 1 /\ \A f \in Fd : table[f] # "other"

SetupInit ==
    /\ Init /\ C!Init
    /\ kind # "executor" => Keeps

Closes == kind = "executor" /\ step = "nnp"

CloseStep ==
    /\ Closes
    /\ \/ CloseParent \/ AlreadyControl \/ Dup3 \/ CloseChild \/ CloseStdio
       \/ CloseRange \/ CloseRangeRefused \/ CloseNext \/ LoopEnds
    /\ UNCHANGED rightsVars

\* child_normalize_control_fd or child_scrub_fds returns false.
CloseFails ==
    /\ Closes
    /\ \/ Dup3Fails /\ C!Exit(101)
       \/ TooMany /\ C!Exit(102)

\* child_block_catchable_signals or child_set_pdeathsig does.
HardenFails ==
    /\ Closes /\ place = "scrubbed"
    /\ C!Exit(103) \/ C!Exit(104)
    /\ UNCHANGED vars

\* Mutant of ConfineStep: the rights go before the descriptors.
ConfineFirst == C!ChildStep /\ UNCHANGED vars

ConfineStep ==
    /\ Closes => place = "scrubbed"
    /\ C!ChildStep
    /\ UNCHANGED vars

\* Signals, and whoever waits for the child.
Outside == (C!Killed \/ C!Report \/ C!WaitFails \/ C!Over) /\ UNCHANGED vars

SetupNext == CloseStep \/ CloseFails \/ HardenFails \/ ConfineStep \/ Outside

\* A child that has been told to exit goes on doing so.
SetupSpec ==
    SetupInit /\ [][SetupNext]_allVars /\ WF_allVars(ConfineStep /\ step = "exit")

------------------------------------------------------------------------------
\* The types of all variables of both parts.
SetupTypeOK == TypeOK /\ C!TypeOK

\* A child serves only when confined, the locked child with its control socket
\* and nothing else open (Confinement!ServesConfined; persistent_executor.rs:1241).
ServesConfined ==
    /\ C!ServesConfined
    /\ kind = "executor" /\ step = "serve" =>
        \A f \in Fd : table[f] # Closed <=> f = CONTROL_FD

\* The proof is reported as passed of a confined child only (Confinement).
PassedMeansConfined == C!PassedMeansConfined

\* What is reported is how the child ended, at whichever step that was, the
\* descriptors' included (Confinement).
ReportIsTrue == C!ReportIsTrue

\* A child that gives up ends, so that the waits without timeout for it return
\* (Confinement).
ExitsEnd == C!ExitsEnd
=============================================================================
