-------------------------- MODULE ChildSetupProofs --------------------------
(***************************************************************************)
(* Proofs about the way of a child from fork to its work, for any          *)
(* descriptor numbers, whatever the service had open and whatever limit it *)
(* ran under, and for any set of system calls:                             *)
(*   - the locked child keeps its control socket and nothing else;         *)
(*   - what the two seccomp programs say of every system call;             *)
(*   - a child serves, and is reported, as what it is.                     *)
(***************************************************************************)
EXTENDS ChildSetup, Sequences, WellFoundedInduction, TLAPS

(***************************************************************************)
(* The descriptors (ChildLockdown).                                        *)
(***************************************************************************)

\* Numbers the child's end has while the child sets itself up.
ControlAt ==
    CASE place \in {"close_parent", "dup"} -> {child_fd}
      [] place = "close_child" -> {child_fd, CONTROL_FD}
      [] OTHER -> {CONTROL_FD}

\* It has these and no others.
ControlWhere ==
    place # "exited" => \A f \in Fd : table[f] = "control" <=> f \in ControlAt

\* The service's end is the first to go.
ServiceWhere ==
    \A f \in Fd : table[f] = "service" =>
        place \in {"close_parent", "exited"} /\ f = parent_fd

\* The standard streams are closed before the scrub.
StdioClosed ==
    place \in {"scrub", "loop", "scrubbed"} => \A f \in 0 .. 2 : table[f] = Closed

\* A captured limit the fallback accepts is the limit itself, above every
\* number but CONTROL_FD.
BelowLimit ==
    place # "exited" /\ max_fd <= FallbackMax =>
        \A f \in Fd \ {CONTROL_FD} : table[f] # Closed => f < max_fd

\* The loop has closed what it has passed.
LoopDone ==
    place = "loop" =>
        /\ max_fd <= FallbackMax
        /\ \A f \in Fd : f > CONTROL_FD /\ f < fd => table[f] = Closed

\* After the scrub nothing above CONTROL_FD is open.
ScrubDone ==
    place = "scrubbed" => \A f \in Fd : f > CONTROL_FD => table[f] = Closed

LockdownInv ==
    /\ TypeOK
    /\ child_fd # parent_fd
    /\ place = "close_child" => child_fd # CONTROL_FD
    /\ ControlWhere /\ ServiceWhere /\ StdioClosed
    /\ BelowLimit /\ LoopDone /\ ScrubDone

------------------------------------------------------------------------------
\* The captured limit fits u32, and is the limit itself if the loop accepts it.
LEMMA CapturedLimit ==
  ASSUME NEW limit \in Limit
  PROVE  /\ capture_fd_limit(limit) \in 0 .. U32Max
         /\ capture_fd_limit(limit) <= FallbackMax => capture_fd_limit(limit) = limit
  BY LockdownAssumption DEF capture_fd_limit

\* The initial state.
LEMMA LockdownInit == Init => LockdownInv
  <1> SUFFICES ASSUME Init PROVE LockdownInv OBVIOUS
  <1>1. PICK limit \in Limit :
          /\ max_fd = capture_fd_limit(limit)
          /\ \A f \in Fd : table[f] # Closed => f < limit
    BY DEF Init
  <1>2. TypeOK
    BY <1>1, CapturedLimit DEF Init, TypeOK, Setting
  <1>3. BelowLimit BY <1>1, CapturedLimit DEF BelowLimit
  <1>4. ControlWhere /\ ServiceWhere
    BY DEF Init, ControlWhere, ControlAt, ServiceWhere
  <1>5. StdioClosed /\ LoopDone /\ ScrubDone
    BY DEF Init, StdioClosed, LoopDone, ScrubDone
  <1> QED BY <1>2, <1>3, <1>4, <1>5 DEF Init, LockdownInv

\* Every step of child_normalize_control_fd.
LEMMA NormalizeKeeps == LockdownInv /\ NormalizeStep => LockdownInv'
  <1> SUFFICES ASSUME LockdownInv, NormalizeStep PROVE LockdownInv' OBVIOUS
  <1> USE LockdownAssumption
      DEF LockdownInv, TypeOK, Setting, Object, Closed, args, child_close, CONTROL_FD,
          ControlWhere, ControlAt, ServiceWhere, StdioClosed, BelowLimit, LoopDone, ScrubDone
  <1>1. CASE CloseParent BY <1>1 DEF CloseParent
  <1>2. CASE AlreadyControl BY <1>2 DEF AlreadyControl
  <1>3. CASE Dup3 BY <1>3 DEF Dup3
  <1>4. CASE Dup3Fails BY <1>4 DEF Dup3Fails
  <1>5. CASE CloseChild BY <1>5 DEF CloseChild
  <1>6. CASE CloseStdio BY <1>6 DEF CloseStdio
  <1> QED BY <1>1, <1>2, <1>3, <1>4, <1>5, <1>6 DEF NormalizeStep

\* Every step of child_scrub_fds.
LEMMA ScrubKeeps == LockdownInv /\ ScrubStep => LockdownInv'
  <1> SUFFICES ASSUME LockdownInv, ScrubStep PROVE LockdownInv' OBVIOUS
  <1> USE LockdownAssumption
      DEF LockdownInv, TypeOK, Setting, Object, Closed, args, CONTROL_FD,
          ControlWhere, ControlAt, ServiceWhere, StdioClosed, BelowLimit, LoopDone, ScrubDone
  <1>1. CASE CloseRange BY <1>1 DEF CloseRange
  <1>2. CASE CloseRangeRefused BY <1>2 DEF CloseRangeRefused
  <1>3. CASE TooMany BY <1>3 DEF TooMany
  <1>4. CASE CloseNext BY <1>4 DEF CloseNext
  <1>5. CASE LoopEnds BY <1>5 DEF LoopEnds
  <1> QED BY <1>1, <1>2, <1>3, <1>4, <1>5 DEF ScrubStep

\* The invariant of the lockdown holds in every reachable state.
THEOREM LockdownInvariance == Spec => []LockdownInv
  <1>1. Init => LockdownInv BY LockdownInit
  <1>2. LockdownInv /\ [Next]_vars => LockdownInv'
    <2> SUFFICES ASSUME LockdownInv, [Next]_vars PROVE LockdownInv' OBVIOUS
    <2>1. CASE NormalizeStep BY <2>1, NormalizeKeeps
    <2>2. CASE ScrubStep BY <2>2, ScrubKeeps
    <2>3. CASE UNCHANGED vars
      BY <2>3 DEF vars, args, LockdownInv, TypeOK, ControlWhere, ControlAt, ServiceWhere,
                  StdioClosed, BelowLimit, LoopDone, ScrubDone
    <2> QED BY <2>1, <2>2, <2>3 DEF Next, Over
  <1> QED BY <1>1, <1>2, PTL DEF Spec

\* Types are kept, and the loop stays above CONTROL_FD.
THEOREM LockdownTypes == Spec => []TypeOK
  <1>1. LockdownInv => TypeOK BY DEF LockdownInv
  <1> QED BY <1>1, LockdownInvariance, PTL

\* The locked child has its control socket and nothing else
\* (persistent_executor.rs:790-850).
THEOREM OnlyControlLeft == Spec => []OnlyControl
  <1>1. LockdownInv => OnlyControl
    <2> SUFFICES ASSUME LockdownInv, place = "scrubbed", NEW f \in Fd
                 PROVE  table[f] = IF f = CONTROL_FD THEN "control" ELSE Closed
      BY DEF OnlyControl
    <2>1. f = CONTROL_FD \/ f \in 0 .. 2 \/ f > CONTROL_FD
      BY LockdownAssumption DEF CONTROL_FD
    <2>2. table[CONTROL_FD] = "control"
      BY LockdownAssumption DEF LockdownInv, ControlWhere, ControlAt, CONTROL_FD
    <2>3. f \in 0 .. 2 \/ f > CONTROL_FD => table[f] = Closed /\ f # CONTROL_FD
      BY LockdownAssumption DEF LockdownInv, StdioClosed, ScrubDone, CONTROL_FD
    <2> QED BY <2>1, <2>2, <2>3
  <1> QED BY <1>1, LockdownInvariance, PTL

\* It never closes its own end on the way (persistent_executor.rs:794-810).
THEOREM ControlAlwaysKept == Spec => []ControlKept
  <1>1. LockdownInv => ControlKept
    BY LockdownAssumption
       DEF LockdownInv, TypeOK, ControlWhere, ControlAt, ControlKept, CONTROL_FD
  <1> QED BY <1>1, LockdownInvariance, PTL

(***************************************************************************)
(* The programs (Seccomp).  Run is a recursive function: that there is one *)
(* that satisfies its equation is shown by induction on the first          *)
(* instruction looked at, from the last one backwards, in the form of the  *)
(* least number principle.                                                 *)
(***************************************************************************)

\* A set of numbers has a least one.
LEMMA LeastNumber ==
  ASSUME NEW T, T \subseteq Nat, T # {}
  PROVE  \E x \in T : \A y \in T : x <= y
  <1> DEFINE R == OpToRel(<, Nat)
  <1>1. PICK x \in T : \A y \in T : ~ (<<y, x>> \in R)
    <2>1. IsWellFoundedOn(R, Nat) BY NatLessThanWellFounded
    <2> HIDE DEF R
    <2> QED BY <2>1, WFMin
  <1>2. \A y \in T : <<y, x>> \in R <=> y < x BY DEF OpToRel
  <1>3. \A y \in T : ~ (y < x) BY <1>1, <1>2
  <1> HIDE DEF R
  <1> QED BY <1>3

\* The verdicts from instruction first on.
Gives(program, data, first, verdict) ==
  verdict = [i \in first .. Len(program) |->
               [acc \in C!Word(data) |-> C!Outcome(program, data, verdict, i, acc)]]

\* A program as the code writes it: instructions numbered from 1.
IsProgram(program) ==
  /\ Len(program) \in Nat \ {0} /\ DOMAIN program = 1 .. Len(program)
  /\ C!Loadable(program)

\* Verdicts can be continued to the instruction before: it jumps forward only.
LEMMA GivesFrom ==
  ASSUME NEW program, IsProgram(program), NEW data,
         NEW k \in DOMAIN program, NEW v, Gives(program, data, k + 1, v)
  PROVE  \E w : Gives(program, data, k, w)
  <1> USE DEF IsProgram
  <1> DEFINE n == Len(program)
             w == [i \in k .. n |->
                     IF i = k THEN [acc \in C!Word(data) |-> C!Outcome(program, data, v, k, acc)]
                     ELSE v[i]]
  <1>1. n \in Nat /\ k \in 1 .. n /\ k \in Nat OBVIOUS
  <1>2. \A i \in k + 1 .. n :
          v[i] = [acc \in C!Word(data) |-> C!Outcome(program, data, v, i, acc)]
    BY DEF Gives
  <1>3. \A i \in k + 1 .. n : w[i] = v[i] OBVIOUS
  <1>4. ASSUME NEW i \in k .. n, NEW acc \in C!Word(data)
        PROVE  C!Outcome(program, data, v, i, acc) = C!Outcome(program, data, w, i, acc)
    <2>1. i \in DOMAIN program /\ i \in Nat /\ k <= i /\ i <= n BY <1>1
    <2> HIDE DEF w
    <2>2. CASE program[i].code = "BPF_LD_W_ABS"
      <3>1. i # n BY <2>2 DEF C!Loadable
      <3>2. i + 1 \in k + 1 .. n BY <1>1, <2>1, <3>1
      <3> QED BY <1>3, <2>2, <3>2 DEF C!Outcome
    <2>3. CASE program[i].code = "BPF_JMP_JEQ_K"
      <3>1. \A j \in {program[i].jt, program[i].jf} : j \in Nat /\ i + 1 + j \in k + 1 .. n
        BY <1>1, <2>1, <2>3 DEF C!Loadable
      <3> QED BY <1>3, <2>3, <3>1 DEF C!Outcome
    <2>4. CASE program[i].code = "BPF_RET_K" BY <2>4 DEF C!Outcome
    <2> QED BY <2>1, <2>2, <2>3, <2>4 DEF C!Loadable
  <1>5. \A i \in k .. n :
          w[i] = [acc \in C!Word(data) |-> C!Outcome(program, data, v, i, acc)]
    BY <1>2
  <1>6. \A i \in k .. n :
          w[i] = [acc \in C!Word(data) |-> C!Outcome(program, data, w, i, acc)]
    <2> HIDE DEF w
    <2> QED BY <1>4, <1>5
  <1>7. w = [i \in k .. n |-> w[i]] OBVIOUS
  <1> HIDE DEF w
  <1> QED BY <1>6, <1>7 DEF Gives

\* So there are verdicts from the first instruction on.
LEMMA GivesAll ==
  ASSUME NEW program, IsProgram(program), NEW data
  PROVE  \E v : Gives(program, data, 1, v)
  <1> USE DEF IsProgram
  <1> DEFINE n == Len(program)
             Solved(k) == \E v : Gives(program, data, k, v)
             T == {k \in 1 .. n : Solved(k)}
  <1>1. Solved(n)
    <2> DEFINE v == [i \in n .. n |-> [acc \in C!Word(data) |-> program[n].k]]
    <2>1. \A acc : C!Outcome(program, data, v, n, acc) = program[n].k
      BY DEF C!Outcome, C!Loadable
    <2>2. Gives(program, data, n, v) BY <2>1 DEF Gives
    <2> QED BY <2>2
  <1>2. \A k \in 1 .. n : k + 1 \in T => k \in T
    BY GivesFrom
  <1> HIDE DEF Solved
  <1>3. PICK k \in T : \A j \in T : k <= j
    <2>1. n \in T BY <1>1
    <2>2. T \subseteq Nat OBVIOUS
    <2> HIDE DEF T
    <2> QED BY <2>1, <2>2, LeastNumber
  <1>4. k = 1
    <2> SUFFICES ASSUME k # 1 PROVE FALSE OBVIOUS
    <2>1. k - 1 \in 1 .. n /\ (k - 1) + 1 = k OBVIOUS
    <2>2. k - 1 \in T BY <1>2, <2>1
    <2> QED BY <1>3, <2>2
  <1> QED BY <1>4 DEF Solved

\* v holds what becomes of the program at each of its instructions.
Unfolds(program, data, v) ==
  /\ C!Run(program, data) = v[1][0]
  /\ \A i \in DOMAIN program : \A acc \in C!Word(data) :
        v[i][acc] = C!Outcome(program, data, v, i, acc)

\* Run computes what its equation says, for every program the kernel loads and
\* every system call.
LEMMA RunUnfolds ==
  ASSUME NEW program, IsProgram(program), NEW data
  PROVE  \E v : Unfolds(program, data, v)
  <1> DEFINE Is(v) == v = [i \in DOMAIN program |->
                             [acc \in C!Word(data) |-> C!Outcome(program, data, v, i, acc)]]
             w == CHOOSE v : Is(v)
  <1>1. \E v : Is(v) BY GivesAll DEF Gives, IsProgram
  <1>2. C!Run(program, data) = w[1][0] BY Zenon DEF C!Run
  <1>3. Is(w)
    <2> HIDE DEF Is
    <2> QED BY <1>1, Zenon
  <1> HIDE DEF w
  <1>4. \A i \in DOMAIN program :
          w[i] = [acc \in C!Word(data) |-> C!Outcome(program, data, w, i, acc)]
    BY <1>3
  <1>5. \A i \in DOMAIN program : \A acc \in C!Word(data) :
          w[i][acc] = C!Outcome(program, data, w, i, acc)
    BY <1>4
  <1> HIDE DEF Is
  <1> QED BY <1>2, <1>5 DEF Unfolds

\* One instruction of each kind.
LEMMA OneInstruction ==
  ASSUME NEW program, NEW data, NEW v, Unfolds(program, data, v),
         NEW i \in DOMAIN program, NEW acc \in C!Word(data)
  PROVE  /\ \A offset : program[i] = C!Load(offset) =>
              v[i][acc] = v[i + 1][IF offset = 0 THEN data.nr ELSE data.arch]
         /\ \A value, jt, jf : program[i] = C!Jeq(value, jt, jf) =>
              v[i][acc] = v[i + 1 + (IF acc = value THEN jt ELSE jf)][acc]
         /\ \A verdict : program[i] = C!Ret(verdict) => v[i][acc] = verdict
  <1>1. v[i][acc] = C!Outcome(program, data, v, i, acc) BY DEF Unfolds
  <1>2. ASSUME NEW offset, program[i] = C!Load(offset)
        PROVE  v[i][acc] = v[i + 1][IF offset = 0 THEN data.nr ELSE data.arch]
    <2>1. program[i].code = "BPF_LD_W_ABS" /\ program[i].k = offset BY <1>2 DEF C!Load
    <2> QED BY <1>1, <2>1 DEF C!Outcome
  <1>3. ASSUME NEW value, NEW jt, NEW jf, program[i] = C!Jeq(value, jt, jf)
        PROVE  v[i][acc] = v[i + 1 + (IF acc = value THEN jt ELSE jf)][acc]
    <2>1. /\ program[i].code = "BPF_JMP_JEQ_K" /\ program[i].k = value
          /\ program[i].jt = jt /\ program[i].jf = jf
      BY <1>3 DEF C!Jeq
    <2> QED BY <1>1, <2>1 DEF C!Outcome
  <1>4. ASSUME NEW verdict, program[i] = C!Ret(verdict) PROVE v[i][acc] = verdict
    <2>1. program[i].code = "BPF_RET_K" /\ program[i].k = verdict BY <1>4 DEF C!Ret
    <2> QED BY <1>1, <2>1 DEF C!Outcome
  <1> QED BY <1>2, <1>3, <1>4

\* The strict program, instruction by instruction.
LEMMA StrictCode ==
  LET p == C!StrictFilter IN
  /\ DOMAIN p = 1 .. 17 /\ Len(p) = 17
  /\ p[1] = C!Load(4) /\ p[2] = C!Jeq(C!AUDIT_ARCH_NATIVE, 1, 0) /\ p[3] = C!Ret("kill")
  /\ p[4] = C!Load(0)
  /\ p[5] = C!Jeq(C!nr.recvfrom, 0, 1) /\ p[6] = C!Ret("allow")
  /\ p[7] = C!Jeq(C!nr.sendto, 0, 1) /\ p[8] = C!Ret("allow")
  /\ p[9] = C!Jeq(C!nr.close, 0, 1) /\ p[10] = C!Ret("allow")
  /\ p[11] = C!Jeq(C!nr.getpid, 0, 1) /\ p[12] = C!Ret("allow")
  /\ p[13] = C!Jeq(C!nr.exit, 0, 1) /\ p[14] = C!Ret("allow")
  /\ p[15] = C!Jeq(C!nr.exit_group, 0, 1) /\ p[16] = C!Ret("allow")
  /\ p[17] = C!Ret("eperm")
  BY DEF C!StrictFilter

\* The probe, likewise.
LEMMA ProbeCode ==
  LET p == C!ProbeFilter IN
  /\ DOMAIN p = 1 .. 4 /\ Len(p) = 4
  /\ p[1] = C!Load(0) /\ p[2] = C!Jeq(C!nr.getppid, 0, 1)
  /\ p[3] = C!Ret("eperm") /\ p[4] = C!Ret("allow")
  BY DEF C!ProbeFilter

\* A jump over one instruction at most stays inside the program.
Instruction(ins, i, n) ==
  \/ ins.code \in {"BPF_LD_W_ABS", "BPF_RET_K"}
  \/ ins.code = "BPF_JMP_JEQ_K" /\ ins.jt \in {0, 1} /\ ins.jf \in {0, 1} /\ i + 2 <= n

LEMMA ShortJumpsLoad ==
  ASSUME NEW p, NEW n \in Nat \ {0}, Len(p) = n, DOMAIN p = 1 .. n, p # <<>>,
         p[n].code = "BPF_RET_K", \A i \in 1 .. n : Instruction(p[i], i, n)
  PROVE  IsProgram(p)
  <1>1. ASSUME NEW i \in 1 .. n
        PROVE  /\ p[i].code \in {"BPF_LD_W_ABS", "BPF_JMP_JEQ_K", "BPF_RET_K"}
               /\ p[i].code = "BPF_JMP_JEQ_K" => {p[i].jt, p[i].jf} \subseteq 0 .. n - 1 - i
    <2>1. Instruction(p[i], i, n) OBVIOUS
    <2>2. i \in Nat OBVIOUS
    <2> QED BY <2>1, <2>2 DEF Instruction
  <1> QED BY <1>1 DEF IsProgram, C!Loadable

\* The kernel loads both.
LEMMA StrictLoads == IsProgram(C!StrictFilter)
  <1> DEFINE p == C!StrictFilter
  <1> USE StrictCode DEF Instruction, C!Load, C!Ret, C!Jeq
  <1>1. /\ Instruction(p[1], 1, 17) /\ Instruction(p[2], 2, 17) /\ Instruction(p[3], 3, 17)
        /\ Instruction(p[4], 4, 17) /\ Instruction(p[5], 5, 17) /\ Instruction(p[6], 6, 17)
    OBVIOUS
  <1>2. /\ Instruction(p[7], 7, 17) /\ Instruction(p[8], 8, 17) /\ Instruction(p[9], 9, 17)
        /\ Instruction(p[10], 10, 17) /\ Instruction(p[11], 11, 17) /\ Instruction(p[12], 12, 17)
    OBVIOUS
  <1>3. /\ Instruction(p[13], 13, 17) /\ Instruction(p[14], 14, 17) /\ Instruction(p[15], 15, 17)
        /\ Instruction(p[16], 16, 17) /\ Instruction(p[17], 17, 17)
    OBVIOUS
  <1>4. p[17].code = "BPF_RET_K" OBVIOUS
  <1> HIDE StrictCode DEF Instruction, C!Load, C!Ret, C!Jeq
  <1>0. Len(p) = 17 /\ DOMAIN p = 1 .. 17 BY StrictCode
  <1> HIDE DEF p
  <1>5. \A i \in 1 .. 17 : Instruction(p[i], i, 17)
    <2> TAKE i \in 1 .. 17
    <2>1. \/ i = 1 \/ i = 2 \/ i = 3 \/ i = 4 \/ i = 5 \/ i = 6 \/ i = 7 \/ i = 8 \/ i = 9
          \/ i = 10 \/ i = 11 \/ i = 12 \/ i = 13 \/ i = 14 \/ i = 15 \/ i = 16 \/ i = 17
      OBVIOUS
    <2> QED BY <2>1, <1>1, <1>2, <1>3
  <1>6. p # <<>>
    <2>1. 1 \in DOMAIN p BY <1>0
    <2>2. 1 \notin DOMAIN <<>> OBVIOUS
    <2> QED BY <2>1, <2>2
  <1>n. 17 \in Nat \ {0} OBVIOUS
  <1>7. IsProgram(p) BY <1>0, <1>n, <1>4, <1>5, <1>6, ShortJumpsLoad
  <1> QED BY <1>7 DEF p

LEMMA ProbeLoads == IsProgram(C!ProbeFilter)
  <1> DEFINE p == C!ProbeFilter
  <1>1. /\ Instruction(p[1], 1, 4) /\ Instruction(p[2], 2, 4)
        /\ Instruction(p[3], 3, 4) /\ Instruction(p[4], 4, 4)
    BY ProbeCode DEF Instruction, C!Load, C!Ret, C!Jeq
  <1>2. Len(p) = 4 /\ DOMAIN p = 1 .. 4 /\ p # <<>> /\ p[4].code = "BPF_RET_K"
    BY ProbeCode DEF C!Ret
  <1> HIDE DEF p
  <1>3. \A i \in 1 .. 4 : Instruction(p[i], i, 4)
    <2> TAKE i \in 1 .. 4
    <2>1. i = 1 \/ i = 2 \/ i = 3 \/ i = 4 OBVIOUS
    <2> QED BY <2>1, <1>1
  <1>4. 4 \in Nat \ {0} OBVIOUS
  <1>5. IsProgram(p) BY <1>2, <1>3, <1>4, ShortJumpsLoad
  <1> QED BY <1>5 DEF p

\* What follows a number that is let through, or is stepped over.
LEMMA PairStep ==
  ASSUME NEW program, NEW data, NEW v, Unfolds(program, data, v),
         NEW i \in Nat, i \in DOMAIN program, i + 1 \in DOMAIN program,
         NEW number, NEW verdict, NEW acc \in C!Word(data),
         program[i] = C!Jeq(number, 0, 1), program[i + 1] = C!Ret(verdict)
  PROVE  v[i][acc] = IF acc = number THEN verdict ELSE v[i + 2][acc]
  <1>1. v[i][acc] = v[i + 1 + (IF acc = number THEN 0 ELSE 1)][acc]
    BY OneInstruction
  <1>2. v[i + 1][acc] = verdict BY OneInstruction
  <1>3. CASE acc = number
    <2>1. v[i][acc] = v[i + 1 + 0][acc] BY <1>1, <1>3
    <2> QED BY <2>1, <1>2, <1>3
  <1>4. CASE acc # number
    <2>1. v[i][acc] = v[i + 1 + 1][acc] BY <1>1, <1>4
    <2>2. i + 1 + 1 = i + 2 OBVIOUS
    <2> QED BY <2>1, <2>2, <1>4
  <1> QED BY <1>3, <1>4

\* The calls the strict program lets through.
Surface == {C!nr.recvfrom, C!nr.sendto, C!nr.close, C!nr.getpid, C!nr.exit, C!nr.exit_group}

\* What the strict program makes of a call: those six on the native machine, and
\* none on another, which is killed (persistent_executor.rs:922-930).
THEOREM StrictVerdict ==
  ASSUME NEW number, NEW machine
  PROVE  C!Run(C!StrictFilter, [nr |-> number, arch |-> machine]) =
           IF machine # C!AUDIT_ARCH_NATIVE THEN "kill"
           ELSE IF number \in Surface THEN "allow" ELSE "eperm"
  <1> DEFINE p == C!StrictFilter
             data == [nr |-> number, arch |-> machine]
  <1>1. PICK v : Unfolds(p, data, v) BY StrictLoads, RunUnfolds
  <1>2. {0, number, machine} = C!Word(data) BY DEF C!Word
  <1>3. data.nr = number /\ data.arch = machine OBVIOUS
  <1> HIDE DEF data
  <1>4. v[1][0] = v[2][machine]
    <2>1. 1 \in DOMAIN p /\ p[1] = C!Load(4) BY StrictCode
    <2>2. v[1][0] = v[1 + 1][IF 4 = 0 THEN data.nr ELSE data.arch]
      BY <1>1, <1>2, <2>1, OneInstruction
    <2> QED BY <2>2, <1>3
  <1>5. v[2][machine] = v[2 + 1 + (IF machine = C!AUDIT_ARCH_NATIVE THEN 1 ELSE 0)][machine]
    <2>1. 2 \in DOMAIN p /\ p[2] = C!Jeq(C!AUDIT_ARCH_NATIVE, 1, 0) BY StrictCode
    <2> QED BY <1>1, <1>2, <2>1, OneInstruction
  <1>6. v[3][machine] = "kill"
    <2>1. 3 \in DOMAIN p /\ p[3] = C!Ret("kill") BY StrictCode
    <2> QED BY <1>1, <1>2, <2>1, OneInstruction
  <1>7. v[4][machine] = v[5][number]
    <2>1. 4 \in DOMAIN p /\ p[4] = C!Load(0) BY StrictCode
    <2>2. v[4][machine] = v[4 + 1][IF 0 = 0 THEN data.nr ELSE data.arch]
      BY <1>1, <1>2, <2>1, OneInstruction
    <2> QED BY <2>2, <1>3
  <1>8. v[5][number] = IF number = C!nr.recvfrom THEN "allow" ELSE v[7][number]
    BY <1>1, <1>2, StrictCode, PairStep
  <1>9. v[7][number] = IF number = C!nr.sendto THEN "allow" ELSE v[9][number]
    BY <1>1, <1>2, StrictCode, PairStep
  <1>10. v[9][number] = IF number = C!nr.close THEN "allow" ELSE v[11][number]
    BY <1>1, <1>2, StrictCode, PairStep
  <1>11. v[11][number] = IF number = C!nr.getpid THEN "allow" ELSE v[13][number]
    BY <1>1, <1>2, StrictCode, PairStep
  <1>12. v[13][number] = IF number = C!nr.exit THEN "allow" ELSE v[15][number]
    BY <1>1, <1>2, StrictCode, PairStep
  <1>13. v[15][number] = IF number = C!nr.exit_group THEN "allow" ELSE v[17][number]
    BY <1>1, <1>2, StrictCode, PairStep
  <1>14. v[17][number] = "eperm"
    <2>1. 17 \in DOMAIN p /\ p[17] = C!Ret("eperm") BY StrictCode
    <2> QED BY <1>1, <1>2, <2>1, OneInstruction
  <1>15. C!Run(p, data) = v[1][0] BY <1>1 DEF Unfolds
  <1>16. CASE machine # C!AUDIT_ARCH_NATIVE
    <2>1. v[2][machine] = v[2 + 1 + 0][machine] BY <1>5, <1>16
    <2> QED BY <2>1, <1>4, <1>6, <1>15, <1>16 DEF data
  <1>17. CASE machine = C!AUDIT_ARCH_NATIVE
    <2>1. v[2][machine] = v[2 + 1 + 1][machine] BY <1>5, <1>17
    <2>2. v[1][0] = v[5][number] BY <2>1, <1>4, <1>7
    <2>3. v[5][number] = IF number \in Surface THEN "allow" ELSE "eperm"
      BY <1>8, <1>9, <1>10, <1>11, <1>12, <1>13, <1>14 DEF Surface
    <2> QED BY <2>2, <2>3, <1>15, <1>17 DEF data
  <1> QED BY <1>16, <1>17

\* The probe denies getppid and nothing else, whatever the machine.
THEOREM ProbeVerdict ==
  ASSUME NEW number, NEW machine
  PROVE  C!Run(C!ProbeFilter, [nr |-> number, arch |-> machine]) =
           IF number = C!nr.getppid THEN "eperm" ELSE "allow"
  <1> DEFINE p == C!ProbeFilter
             data == [nr |-> number, arch |-> machine]
  <1>1. PICK v : Unfolds(p, data, v) BY ProbeLoads, RunUnfolds
  <1>2. {0, number, machine} = C!Word(data) BY DEF C!Word
  <1>3. data.nr = number OBVIOUS
  <1> HIDE DEF data
  <1>4. v[1][0] = v[2][number]
    <2>1. 1 \in DOMAIN p /\ p[1] = C!Load(0) BY ProbeCode
    <2>2. v[1][0] = v[1 + 1][IF 0 = 0 THEN data.nr ELSE data.arch]
      BY <1>1, <1>2, <2>1, OneInstruction
    <2> QED BY <2>2, <1>3
  <1>5. v[2][number] = IF number = C!nr.getppid THEN "eperm" ELSE v[4][number]
    BY <1>1, <1>2, ProbeCode, PairStep
  <1>6. v[4][number] = "allow"
    <2>1. 4 \in DOMAIN p /\ p[4] = C!Ret("allow") BY ProbeCode
    <2> QED BY <1>1, <1>2, <2>1, OneInstruction
  <1>7. C!Run(p, data) = v[1][0] BY <1>1 DEF Unfolds
  <1> QED BY <1>4, <1>5, <1>6, <1>7 DEF data

\* What the kernel makes of a call of the native machine, with any of the two
\* programs installed.
LEMMA NativeVerdict ==
  ASSUME NEW S, S \subseteq DOMAIN C!Program, NEW number
  PROVE  C!Verdict(S, C!Native(number)) =
           IF \/ "strict" \in S /\ number \notin Surface
              \/ "probe" \in S /\ number = C!nr.getppid
           THEN "eperm" ELSE "allow"
  <1> DEFINE run(f) == C!Run(C!Program[f], C!Native(number))
             verdicts == {run(f) : f \in S}
  <1>1. DOMAIN C!Program = {"strict", "probe"} BY DEF C!Program
  <1>2. run("strict") = IF number \in Surface THEN "allow" ELSE "eperm"
    <2>1. C!Program["strict"] = C!StrictFilter BY DEF C!Program
    <2> QED BY <2>1, StrictVerdict DEF C!Native
  <1>3. run("probe") = IF number = C!nr.getppid THEN "eperm" ELSE "allow"
    <2>1. C!Program["probe"] = C!ProbeFilter BY DEF C!Program
    <2> QED BY <2>1, ProbeVerdict DEF C!Native
  <1>4. C!Verdict(S, C!Native(number)) =
          IF "kill" \in verdicts THEN "kill" ELSE IF "eperm" \in verdicts THEN "eperm" ELSE "allow"
    BY DEF C!Verdict
  <1> HIDE DEF run
  <1>5. \A f \in S : run(f) # "kill" BY <1>1, <1>2, <1>3
  <1>6. (\E f \in S : run(f) = "eperm") <=>
          \/ "strict" \in S /\ number \notin Surface
          \/ "probe" \in S /\ number = C!nr.getppid
    BY <1>1, <1>2, <1>3
  <1> QED BY <1>4, <1>5, <1>6

\* No call of another machine survives the strict program.
LEMMA ForeignVerdict ==
  ASSUME NEW S, "strict" \in S, NEW number
  PROVE  C!Verdict(S, C!Foreign(number)) = "kill"
  <1>1. C!Program["strict"] = C!StrictFilter BY DEF C!Program
  <1>2. C!Run(C!Program["strict"], C!Foreign(number)) = "kill"
    BY <1>1, StrictVerdict DEF C!Foreign, C!AUDIT_ARCH_NATIVE
  <1> QED BY <1>2 DEF C!Verdict

\* The calls of the code are told apart by their numbers.
LEMMA NumbersDiffer ==
  /\ C!nr.getppid \notin Surface /\ C!nr.read # C!nr.getppid /\ C!nr.getuid \notin Surface
  /\ {C!nr.read, C!nr.getppid} \cup Surface \subseteq Number
  <1>1. C!nr.getppid \notin Surface /\ C!nr.read # C!nr.getppid /\ C!nr.getuid \notin Surface
    BY DEF C!nr, Surface
  <1>2. {"recvfrom", "sendto", "close", "getpid", "exit", "exit_group", "read", "getppid"}
          \subseteq DOMAIN C!nr
    BY DEF C!nr
  <1>3. \A call \in DOMAIN C!nr : C!nr[call] \in Number BY SetupAssumption
  <1> QED BY <1>1, <1>2, <1>3 DEF Surface

(***************************************************************************)
(* The rights (Confinement), in the child that also has descriptors.       *)
(***************************************************************************)

\* How a child has ended: by the code it was given, or by a signal.
Ended ==
  \/ code # C!NoCode /\ status = code * 256
  \/ \E s \in Signal, core \in {0, 128} : status = s + core

\* Only the executor installs the strict program; past its installation the child
\* has its own; 0 is the code of a child that has.
Installed ==
  /\ kind # "executor" => "strict" \notin filters
  /\ step \in {"tryAllowed", "tryDenied", "serve"} => own
  /\ step = "serve" => kind # "proof"
  /\ code = 0 => own
  /\ step \notin {"exit", "gone"} => code = C!NoCode

\* A child has a status when it has ended, and not before.
Stated ==
  /\ step = "gone" <=> status # C!NoStatus
  /\ step = "gone" => Ended

\* What is reported was read off the status.
Reported ==
  \/ report \in {"none", "wait_failed"}
  \/ step = "gone" /\ report # "unknown" /\ (report = "passed" => status = 0)

RightsInv == C!TypeOK /\ Installed /\ Stated /\ Reported

\* The rights of the executor go after its descriptors.
Joined ==
  kind = "executor" /\ step \in {"check", "install", "tryAllowed", "tryDenied", "serve"} =>
    place = "scrubbed"

SetupInv == LockdownInv /\ RightsInv /\ Joined

\* The three children.
LEMMA MyPart ==
  ASSUME kind \in DOMAIN C!Children
  PROVE  /\ kind \in {"executor", "proof", "payload"}
         /\ C!Me.fails.nnp \in 1 .. 125 /\ C!Me.fails.check \in 1 .. 125
         /\ C!Me.fails.install \in 1 .. 125 /\ C!Me.fails.allowed \in 1 .. 125
         /\ C!Me.fails.denied \in 1 .. 125
         /\ C!Me.program = IF kind = "executor" THEN "strict" ELSE "probe"
         /\ C!Me.next = IF kind = "proof" THEN "exit" ELSE "serve"
  <1>1. kind \in {"executor", "proof", "payload"} BY DEF C!Children
  <1>2. CASE kind = "executor" BY <1>2 DEF C!Me, C!Children, C!Child
  <1>3. CASE kind = "proof" BY <1>3 DEF C!Me, C!Children, C!Child
  <1>4. CASE kind = "payload" BY <1>4 DEF C!Me, C!Children, C!Child
  <1> QED BY <1>1, <1>2, <1>3, <1>4

\* A status is taken apart as it was put together.
LEMMA StatusParts ==
  /\ \A c \in 0 .. 125 : C!Decoded(c * 256) = <<"code", c>>
  /\ \A s \in 1 .. 64, core \in {0, 128} : C!Decoded(s + core) = <<"signal", s>>
  <1>1. ASSUME NEW c \in 0 .. 125 PROVE C!Decoded(c * 256) = <<"code", c>>
    <2>1. (c * 256) % 128 = 0 /\ ((c * 256) \div 256) % 256 = c OBVIOUS
    <2> QED BY <2>1 DEF C!Decoded, C!wait_if_signaled, C!wait_if_exited, C!wait_exit_status
  <1>2. ASSUME NEW s \in 1 .. 64, NEW core \in {0, 128}
        PROVE  C!Decoded(s + core) = <<"signal", s>>
    <2>1. (s + core) % 128 = s OBVIOUS
    <2> QED BY <2>1 DEF C!Decoded, C!wait_if_signaled, C!wait_term_signal
  <1> QED BY <1>1, <1>2

\* What is no status is above all that are.
LEMMA NoStatusAbove ==
  /\ C!NoStatus \in Nat
  /\ \A c \in 0 .. 125 : c * 256 # C!NoStatus /\ c * 256 \in 0 .. C!NoStatus
  /\ \A s \in 1 .. 64, core \in {0, 128} : s + core # C!NoStatus /\ s + core \in 0 .. C!NoStatus
  <1>1. \E n \in Nat : C!NoStatus = n /\ n > 40000 BY DEF C!NoStatus
  <1>2. PICK n \in Nat : C!NoStatus = n /\ n > 40000 BY <1>1
  <1>3. \A c \in 0 .. 125 : c * 256 < n /\ c * 256 \in Nat BY <1>2
  <1>4. \A s \in 1 .. 64, core \in {0, 128} : s + core < n /\ s + core \in Nat BY <1>2
  <1> QED BY <1>2, <1>3, <1>4

\* A step that gives the child a code.
LEMMA ExitKeepsRights ==
  ASSUME RightsInv, step \notin {"exit", "gone"}, NEW c \in 0 .. 125, c = 0 => own, C!Exit(c)
  PROVE  RightsInv'
  <1>1. /\ step' = "exit" /\ code' = c /\ UNCHANGED <<kind, nnp, filters, own, status, report>>
    BY DEF C!Exit, C!rights
  <1>2. C!TypeOK' BY <1>1 DEF RightsInv, C!TypeOK, C!NoCode, C!Me
  <1>3. Installed' BY <1>1 DEF RightsInv, Installed
  <1>4. Stated' BY <1>1 DEF RightsInv, Stated
  <1>5. Reported' BY <1>1 DEF RightsInv, Reported
  <1> QED BY <1>2, <1>3, <1>4, <1>5 DEF RightsInv

\* A step on the way to the work of the child.
LEMMA GoingOnKeepsRights ==
  ASSUME RightsInv,
         \/ C!SetNnp \/ C!CheckNnp \/ C!Install
         \/ step = "tryAllowed" /\ step' = "tryDenied" /\ UNCHANGED <<kind, C!rights, code, status, report>>
         \/ /\ step = "tryDenied" /\ C!Me.next # "exit"
            /\ step' = "serve" /\ UNCHANGED <<kind, C!rights, code, status, report>>
  PROVE  RightsInv'
  <1>1. /\ step \in {"nnp", "check", "install", "tryAllowed", "tryDenied"}
        /\ step' \in {"check", "install", "tryAllowed", "tryDenied", "serve"}
        /\ UNCHANGED <<kind, code, status, report>>
    BY DEF C!SetNnp, C!CheckNnp, C!Install
  <1>2. kind \in DOMAIN C!Children BY DEF RightsInv, C!TypeOK
  <1>3. /\ nnp' \in BOOLEAN /\ (nnp => nnp')
        /\ \/ UNCHANGED <<filters, own>>
           \/ nnp /\ own' = TRUE /\ filters' = filters \cup {C!Me.program}
    BY DEF RightsInv, C!TypeOK, C!SetNnp, C!CheckNnp, C!Install, C!rights
  <1>4. C!TypeOK'
    <2>1. C!Me.program \in DOMAIN C!Program
      BY <1>2, MyPart DEF C!Program
    <2>2. filters' \subseteq DOMAIN C!Program /\ (filters' # {} => nnp')
      BY <1>3, <2>1 DEF RightsInv, C!TypeOK
    <2>3. own' => C!Me.program \in filters' BY <1>3 DEF RightsInv, C!TypeOK
    <2>4. C!Me' = C!Me BY <1>1 DEF C!Me
    <2> QED BY <1>1, <1>3, <2>2, <2>3, <2>4 DEF RightsInv, C!TypeOK
  <1>5. Installed'
    <2>1. kind' # "executor" => "strict" \notin filters'
      BY <1>1, <1>2, <1>3, MyPart DEF RightsInv, Installed
    <2>2. step' \in {"tryAllowed", "tryDenied", "serve"} => own'
      <3>1. step' \in {"tryAllowed", "tryDenied", "serve"} =>
              own' = TRUE \/ step \in {"tryAllowed", "tryDenied"}
        BY DEF C!SetNnp, C!CheckNnp, C!Install
      <3> QED BY <3>1, <1>3 DEF RightsInv, Installed
    <2>3. step' = "serve" => kind' # "proof"
      <3>1. step' = "serve" => C!Me.next # "exit" BY DEF C!SetNnp, C!CheckNnp, C!Install
      <3> QED BY <3>1, <1>1, <1>2, MyPart
    <2>4. code' # 0 BY <1>1 DEF RightsInv, Installed, C!NoCode
    <2>5. step' \notin {"exit", "gone"} => code' = C!NoCode
      BY <1>1 DEF RightsInv, Installed
    <2> QED BY <2>1, <2>2, <2>3, <2>4, <2>5 DEF Installed
  <1>6. Stated' BY <1>1 DEF RightsInv, Stated
  <1>7. Reported' BY <1>1 DEF RightsInv, Reported
  <1> QED BY <1>4, <1>5, <1>6, <1>7 DEF RightsInv

\* A child that ends, by its code or by a signal.
LEMMA EndKeepsRights ==
  ASSUME RightsInv, step # "gone", NEW s, C!End(s),
         \/ code # C!NoCode /\ s = code * 256
         \/ \E signal \in Signal, core \in {0, 128} : s = signal + core
  PROVE  RightsInv'
  <1>1. /\ step' = "gone" /\ status' = s /\ UNCHANGED <<kind, nnp, filters, own, code, report>>
    BY DEF C!End, C!rights
  <1>2. code \in 0 .. 125 \cup {C!NoCode} BY DEF RightsInv, C!TypeOK
  <1>3. s # C!NoStatus /\ s \in 0 .. C!NoStatus
    <2>1. CASE code # C!NoCode /\ s = code * 256 BY <1>2, <2>1, NoStatusAbove
    <2>2. CASE \E signal \in Signal, core \in {0, 128} : s = signal + core
      <3>1. \A signal \in Signal : signal \in 1 .. 64 BY SetupAssumption
      <3> QED BY <2>2, <3>1, NoStatusAbove
    <2> QED BY <2>1, <2>2
  <1>4. C!TypeOK' BY <1>1, <1>3 DEF RightsInv, C!TypeOK, C!Me
  <1>5. Installed' BY <1>1 DEF RightsInv, Installed
  <1>6. Stated' BY <1>1, <1>3 DEF Stated, Ended
  <1>7. Reported' BY <1>1 DEF RightsInv, Reported
  <1> QED BY <1>4, <1>5, <1>6, <1>7 DEF RightsInv

\* Every step of the child's own.
LEMMA ChildKeepsRights ==
  ASSUME RightsInv, C!ChildStep PROVE RightsInv'
  <1>1. kind \in DOMAIN C!Children BY DEF RightsInv, C!TypeOK
  <1>2. step \notin {"exit", "gone"} => code = C!NoCode BY DEF RightsInv, Installed
  <1>3. C!NoCode # 0 BY DEF C!NoCode
  <1>4. 1 .. 125 \subseteq 0 .. 125 /\ 0 \notin 1 .. 125 OBVIOUS
  <1>5. CASE C!SetNnp BY <1>5, GoingOnKeepsRights
  <1>6. CASE C!SetNnpFails
    BY <1>1, <1>4, <1>6, MyPart, ExitKeepsRights DEF C!SetNnpFails
  <1>7. CASE C!CheckNnp BY <1>7, GoingOnKeepsRights
  <1>8. CASE C!CheckNnpFails
    BY <1>1, <1>4, <1>8, MyPart, ExitKeepsRights DEF C!CheckNnpFails
  <1>9. CASE C!Install BY <1>9, GoingOnKeepsRights
  <1>10. CASE C!InstallFails
    BY <1>1, <1>4, <1>10, MyPart, ExitKeepsRights DEF C!InstallFails
  <1>11. CASE C!TryAllowed
    <2>1. CASE C!Exit(C!Me.fails.allowed)
      BY <1>1, <1>4, <1>11, <2>1, MyPart, ExitKeepsRights DEF C!TryAllowed
    <2> QED BY <1>11, <2>1, GoingOnKeepsRights DEF C!TryAllowed
  <1>12. CASE C!TryDenied
    <2>1. CASE C!Exit(C!Me.fails.denied)
      BY <1>1, <1>4, <1>12, <2>1, MyPart, ExitKeepsRights DEF C!TryDenied
    <2>2. CASE C!Exit(0)
      <3>1. own /\ 0 \in 0 .. 125 BY <1>12 DEF RightsInv, Installed, C!TryDenied
      <3> QED BY <1>12, <2>2, <3>1, ExitKeepsRights DEF C!TryDenied
    <2> QED BY <1>12, <2>1, <2>2, GoingOnKeepsRights DEF C!TryDenied
  <1>13. CASE C!Serve
    BY <1>13 DEF C!Serve, C!vars, C!rights, RightsInv, C!TypeOK, C!Me, Installed, Stated, Ended, Reported
  <1>14. CASE C!Leave
    <2>1. own /\ step = "serve" BY <1>14 DEF RightsInv, Installed, C!Leave
    <2>2. PICK c \in {0} \cup 108 .. 113 : C!Exit(c) BY <1>14 DEF C!Leave
    <2>3. c \in 0 .. 125 OBVIOUS
    <2> QED BY <2>1, <2>2, <2>3, ExitKeepsRights
  <1>15. CASE C!ExitGroup
    <2>1. code # C!NoCode /\ step = "exit" /\ code \in 0 .. 125
      BY <1>15 DEF C!ExitGroup, RightsInv, C!TypeOK
    <2>2. C!Clamped(code) = code BY <2>1 DEF C!Clamped
    <2>3. C!End(code * 256) BY <1>15, <2>2 DEF C!ExitGroup
    <2> QED BY <2>1, <2>3, EndKeepsRights
  <1> QED BY <1>5, <1>6, <1>7, <1>8, <1>9, <1>10, <1>11, <1>12, <1>13, <1>14, <1>15
          DEF C!ChildStep

\* Signals, and whoever waits for it.
LEMMA OutsideKeepsRights ==
  ASSUME RightsInv, C!Killed \/ C!Report \/ C!WaitFails \/ C!Over PROVE RightsInv'
  <1>1. CASE C!Killed
    <2>1. PICK s \in Signal, core \in {0, 128} : C!End(s + core) BY <1>1 DEF C!Killed
    <2>2. step # "gone" BY <1>1 DEF C!Killed, C!Alive
    <2> QED BY <2>1, <2>2, EndKeepsRights
  <1>2. CASE C!Report
    <2>1. /\ step = "gone" /\ UNCHANGED <<kind, step, nnp, filters, own, code, status>>
      BY <1>2 DEF C!Report, C!Alive, C!rights
    <2>2. report' # "unknown" /\ (report' = "passed" => status = 0)
      <3> DEFINE d == C!Decoded(status)
      <3>1. \/ \E c \in 0 .. 125 : status = c * 256 /\ d = <<"code", c>>
            \/ \E s \in 1 .. 64 : d = <<"signal", s>>
        <4>1. code \in 0 .. 125 \cup {C!NoCode} BY DEF RightsInv, C!TypeOK
        <4>2. \A s \in Signal : s \in 1 .. 64 BY SetupAssumption
        <4>3. Ended BY <2>1 DEF RightsInv, Stated
        <4>4. CASE code # C!NoCode /\ status = code * 256
          <5>1. code \in 0 .. 125 BY <4>1, <4>4
          <5> QED BY <4>4, <5>1, StatusParts
        <4>5. CASE \E s \in Signal, core \in {0, 128} : status = s + core
          <5>1. PICK s \in Signal, core \in {0, 128} : status = s + core BY <4>5
          <5>2. d = <<"signal", s>> BY <4>2, <5>1, StatusParts
          <5> QED BY <4>2, <5>2
        <4> QED BY <4>3, <4>4, <4>5 DEF Ended
      <3>2. report' = IF d[1] # "code" THEN d[1]
                      ELSE IF kind = "proof" THEN C!Step(d[2])
                      ELSE IF d[2] = 0 THEN "passed" ELSE "unexpected"
        BY <1>2 DEF C!Report
      <3>3. \A c : C!Step(c) # "unknown" /\ (C!Step(c) = "passed" => c = 0)
        BY DEF C!Step
      <3> HIDE DEF d
      <3> QED BY <3>1, <3>2, <3>3
    <2>3. C!TypeOK' BY <2>1 DEF RightsInv, C!TypeOK, C!Me
    <2>4. Installed' BY <2>1 DEF RightsInv, Installed
    <2>5. Stated' BY <2>1 DEF RightsInv, Stated, Ended
    <2>6. Reported' BY <2>1, <2>2 DEF Reported
    <2> QED BY <2>3, <2>4, <2>5, <2>6 DEF RightsInv
  <1>3. CASE C!WaitFails
    BY <1>3 DEF C!WaitFails, C!rights, RightsInv, C!TypeOK, C!Me, Installed, Stated, Ended, Reported
  <1>4. CASE C!Over
    BY <1>4 DEF C!Over, C!vars, C!rights, RightsInv, C!TypeOK, C!Me, Installed, Stated, Ended, Reported
  <1> QED BY <1>1, <1>2, <1>3, <1>4

(***************************************************************************)
(* Both parts together (ChildSetup).                                       *)
(***************************************************************************)

\* The child gives up its descriptors as ChildLockdown says, whatever happens
\* to its rights: the specification of the whole implements that of the part.
THEOREM SetupIsLockdown == SetupSpec => Spec
  <1>1. SetupInit => Init BY DEF SetupInit
  <1>2. [SetupNext]_allVars => [Next]_vars
    <2> SUFFICES ASSUME [SetupNext]_allVars PROVE [Next]_vars OBVIOUS
    <2>1. CASE CloseStep BY <2>1 DEF CloseStep, Next, NormalizeStep, ScrubStep
    <2>2. CASE CloseFails BY <2>2 DEF CloseFails, Next, NormalizeStep, ScrubStep
    <2>3. CASE HardenFails BY <2>3 DEF HardenFails
    <2>4. CASE ConfineStep BY <2>4 DEF ConfineStep
    <2>5. CASE Outside BY <2>5 DEF Outside
    <2>6. CASE UNCHANGED allVars BY <2>6 DEF allVars
    <2> QED BY <2>1, <2>2, <2>3, <2>4, <2>5, <2>6 DEF SetupNext
  <1> QED BY <1>1, <1>2, PTL DEF SetupSpec, Spec

\* The rights of a child that has just been forked.
LEMMA RightsInit == SetupInit => RightsInv /\ Joined
  <1> SUFFICES ASSUME SetupInit PROVE RightsInv /\ Joined OBVIOUS
  <1>1. /\ kind \in DOMAIN C!Children /\ step = "nnp" /\ own = FALSE
        /\ code = C!NoCode /\ status = C!NoStatus /\ report = "none"
    BY DEF SetupInit, C!Init
  <1>2. /\ nnp \in BOOLEAN /\ filters \in {{}, {"probe"}} /\ (filters # {} => nnp)
    BY DEF SetupInit, C!Init, C!Inherited
  <1>3. filters \subseteq DOMAIN C!Program BY <1>2 DEF C!Program
  <1>4. C!NoStatus \in 0 .. C!NoStatus /\ C!NoCode # 0 BY NoStatusAbove DEF C!NoCode
  <1>5. C!TypeOK BY <1>1, <1>2, <1>3, <1>4 DEF C!TypeOK
  <1>6. Installed BY <1>1, <1>2, <1>4 DEF Installed
  <1>7. Stated /\ Reported /\ Joined BY <1>1 DEF Stated, Reported, Joined
  <1> QED BY <1>5, <1>6, <1>7 DEF RightsInv

\* Every step, of either part.
LEMMA RightsKept == RightsInv /\ Joined /\ [SetupNext]_allVars => RightsInv' /\ Joined'
  <1> SUFFICES ASSUME RightsInv, Joined, [SetupNext]_allVars PROVE RightsInv' /\ Joined'
    OBVIOUS
  <1>1. ASSUME NEW c \in 1 .. 125, Closes, C!Exit(c) PROVE RightsInv' /\ Joined'
    <2>1. step = "nnp" /\ c \in 0 .. 125 /\ c # 0 BY <1>1 DEF Closes
    <2>2. step' = "exit" BY <1>1 DEF C!Exit
    <2> QED BY <1>1, <2>1, <2>2, ExitKeepsRights DEF Joined
  <1>2. ASSUME UNCHANGED rightsVars PROVE RightsInv'
    BY <1>2 DEF rightsVars, RightsInv, C!TypeOK, C!Me, Installed, Stated, Ended, Reported
  <1>3. CASE CloseStep
    <2>1. step' = step /\ step = "nnp" BY <1>3 DEF CloseStep, rightsVars, Closes
    <2> QED BY <1>2, <1>3, <2>1 DEF CloseStep, Joined
  <1>4. CASE CloseFails BY <1>1, <1>4 DEF CloseFails
  <1>5. CASE HardenFails BY <1>1, <1>5 DEF HardenFails
  <1>6. CASE ConfineStep
    <2>1. C!ChildStep /\ UNCHANGED place /\ kind' = kind
      BY <1>6 DEF ConfineStep, vars, C!ChildStep, C!SetNnp, C!SetNnpFails, C!CheckNnp,
                  C!CheckNnpFails, C!Install, C!InstallFails, C!TryAllowed, C!TryDenied,
                  C!Serve, C!Leave, C!ExitGroup, C!Exit, C!End, C!vars
    <2>2. RightsInv' BY <2>1, ChildKeepsRights
    <2>3. kind = "executor" /\ step = "nnp" => place = "scrubbed"
      BY <1>6 DEF ConfineStep, Closes
    <2>4. \/ step \in {"nnp", "check", "install", "tryAllowed", "tryDenied", "serve"}
          \/ step' \in {"exit", "gone"}
      BY <2>1 DEF C!ChildStep, C!SetNnp, C!SetNnpFails, C!CheckNnp,
                  C!CheckNnpFails, C!Install, C!InstallFails, C!TryAllowed, C!TryDenied,
                  C!Serve, C!Leave, C!ExitGroup, C!End
    <2>5. Joined' BY <2>1, <2>3, <2>4 DEF Joined
    <2> QED BY <2>2, <2>5
  <1>7. CASE Outside
    <2>1. RightsInv' BY <1>7, OutsideKeepsRights DEF Outside
    <2>2. UNCHANGED place /\ kind' = kind /\ step' \in {step, "gone"}
      BY <1>7 DEF Outside, vars, C!Killed, C!Report, C!WaitFails, C!Over, C!End, C!vars
    <2> QED BY <2>1, <2>2 DEF Joined
  <1>8. CASE UNCHANGED allVars
    <2>1. UNCHANGED rightsVars /\ UNCHANGED place /\ kind' = kind /\ step' = step
      BY <1>8 DEF allVars, vars, rightsVars
    <2> QED BY <1>2, <2>1 DEF Joined
  <1> QED BY <1>3, <1>4, <1>5, <1>6, <1>7, <1>8 DEF SetupNext

\* The invariant of the whole holds in every reachable state.
THEOREM SetupInvariance == SetupSpec => []SetupInv
  <1>1. SetupSpec => []LockdownInv BY SetupIsLockdown, LockdownInvariance, PTL
  <1>2. SetupSpec => [](RightsInv /\ Joined)
    BY RightsInit, RightsKept, PTL DEF SetupSpec
  <1>3. LockdownInv /\ RightsInv /\ Joined => SetupInv BY DEF SetupInv
  <1> QED BY <1>1, <1>2, <1>3, PTL

\* Types are kept in both parts.
THEOREM SetupTypes == SetupSpec => []SetupTypeOK
  <1>1. SetupInv => SetupTypeOK BY DEF SetupInv, LockdownInv, RightsInv, SetupTypeOK
  <1> QED BY <1>1, SetupInvariance, PTL

\* Its control socket is all the locked child keeps, whatever comes of its
\* rights and whoever ends it (persistent_executor.rs:790-850).
THEOREM SetupOnlyControl == SetupSpec => []OnlyControl
  BY SetupIsLockdown, OnlyControlLeft, PTL

\* And it never closes it on the way.
THEOREM SetupControlKept == SetupSpec => []ControlKept
  BY SetupIsLockdown, ControlAlwaysKept, PTL

\* What a program that is installed lets through, by the child that has it.
LEMMA InstalledSurface ==
  ASSUME RightsInv, own, NEW number
  PROVE  /\ kind = "executor" => (C!Allowed(number) <=> number \in Surface)
         /\ kind = "payload" => (C!Allowed(number) <=> number # C!nr.getppid)
  <1>1. /\ kind \in DOMAIN C!Children /\ filters \subseteq DOMAIN C!Program
        /\ C!Me.program \in filters
    BY DEF RightsInv, C!TypeOK
  <1>2. C!Allowed(number) <=>
          ~ (\/ "strict" \in filters /\ number \notin Surface
             \/ "probe" \in filters /\ number = C!nr.getppid)
    BY <1>1, NativeVerdict DEF C!Allowed
  <1>3. CASE kind = "executor"
    <2>1. "strict" \in filters BY <1>1, <1>3, MyPart
    <2> QED BY <1>2, <1>3, <2>1, NumbersDiffer
  <1>4. CASE kind = "payload"
    <2>1. "probe" \in filters BY <1>1, <1>4, MyPart
    <2>2. "strict" \notin filters BY <1>4 DEF RightsInv, Installed
    <2> QED BY <1>2, <1>4, <2>1, <2>2
  <1> QED BY <1>3, <1>4

\* A child serves only when confined: the locked child with its control socket,
\* its own program and the calls of its loop, the payload with everything but
\* getppid (persistent_executor.rs:922-930, 1241; guest.rs:118-120).
THEOREM ConfinedServes == SetupSpec => []ServesConfined
  <1>1. SetupInv /\ OnlyControl => ServesConfined
    <2> SUFFICES ASSUME SetupInv, OnlyControl, step = "serve" PROVE ServesConfined
      BY DEF ServesConfined, C!ServesConfined
    <2>1. RightsInv /\ own /\ kind \in {"executor", "payload"} /\ nnp
      BY MyPart DEF SetupInv, RightsInv, C!TypeOK, Installed
    <2>2. \A number : /\ kind = "executor" => (C!Allowed(number) <=> number \in Surface)
                      /\ kind = "payload" => (C!Allowed(number) <=> number # C!nr.getppid)
      BY <2>1, InstalledSurface
    <2> DEFINE surface == {number \in Number : C!Allowed(number)}
    <2>3. CASE kind = "executor"
      <3>1. C!Serving[kind] = {C!nr.recvfrom, C!nr.sendto, C!nr.close}
            /\ C!Serving.executor = {C!nr.recvfrom, C!nr.sendto, C!nr.close}
        BY <2>3 DEF C!Serving
      <3>2. \A number \in C!Serving[kind] : C!Allowed(number)
        BY <2>2, <2>3, <3>1 DEF Surface
      <3>3. surface = C!Serving.executor \cup {C!nr.getpid, C!nr.exit, C!nr.exit_group}
        BY <2>2, <2>3, <3>1, NumbersDiffer DEF Surface
      <3>4. "strict" \in filters
        BY <2>1, <2>3, MyPart DEF RightsInv, C!TypeOK
      <3>5. \A number \in surface : C!Verdict(filters, C!Foreign(number)) = "kill"
        BY <3>4, ForeignVerdict
      <3>6. C!ServesConfined
        BY <2>1, <2>3, <3>2, <3>3, <3>5 DEF C!ServesConfined
      <3>7. \A f \in Fd : table[f] # Closed <=> f = CONTROL_FD
        BY <2>3 DEF SetupInv, Joined, OnlyControl, Closed
      <3> QED BY <3>6, <3>7 DEF ServesConfined
    <2>4. CASE kind = "payload"
      <3>1. C!Serving[kind] = {C!nr.read} BY <2>4 DEF C!Serving
      <3>2. \A number \in C!Serving[kind] : C!Allowed(number)
        BY <2>2, <2>4, <3>1, NumbersDiffer
      <3>3. surface = Number \ {C!nr.getppid} BY <2>2, <2>4
      <3>4. C!ServesConfined BY <2>1, <2>4, <3>2, <3>3 DEF C!ServesConfined
      <3> QED BY <2>4, <3>4 DEF ServesConfined
    <2> QED BY <2>1, <2>3, <2>4
  <1> QED BY <1>1, SetupInvariance, SetupOnlyControl, PTL

\* A proof child that is reported as passed has no_new_privs and a program it
\* installed itself (lib.rs:514-520).
THEOREM PassedConfined == SetupSpec => []PassedMeansConfined
  <1>1. SetupInv => PassedMeansConfined
    <2> SUFFICES ASSUME SetupInv, report = "passed" PROVE nnp /\ own /\ code = 0
      BY DEF PassedMeansConfined, C!PassedMeansConfined
    <2>1. step = "gone" /\ status = 0 BY DEF SetupInv, RightsInv, Reported
    <2>2. code \in 0 .. 125 \cup {C!NoCode} BY DEF SetupInv, RightsInv, C!TypeOK
    <2>3. code = 0
      <3>1. \A s \in Signal, core \in {0, 128} : s + core # 0
        <4>1. \A s \in Signal : s \in Nat /\ s > 0 BY SetupAssumption
        <4> QED BY <4>1
      <3>2. code # C!NoCode /\ code * 256 = 0
        BY <2>1, <3>1 DEF SetupInv, RightsInv, Stated, Ended
      <3> QED BY <2>2, <3>2
    <2>4. own BY <2>3 DEF SetupInv, RightsInv, Installed
    <2> QED BY <2>3, <2>4 DEF SetupInv, RightsInv, C!TypeOK
  <1> QED BY <1>1, SetupInvariance, PTL

\* What is reported is how the child ended (lib.rs:418-431).
THEOREM ReportTrue == SetupSpec => []ReportIsTrue
  <1>1. SetupInv => ReportIsTrue
    <2> SUFFICES ASSUME SetupInv PROVE ReportIsTrue OBVIOUS
    <2>1. report # "unknown" BY DEF SetupInv, RightsInv, Reported
    <2>2. ASSUME status # C!NoStatus
          PROVE  LET d == C!Decoded(status)
                 IN  \/ d[1] = "code" /\ d[2] = code
                     \/ d[1] = "signal" /\ d[2] \in Signal
      <3>1. Ended BY <2>2 DEF SetupInv, RightsInv, Stated
      <3>2. CASE code # C!NoCode /\ status = code * 256
        <4>1. code \in 0 .. 125 BY <3>2 DEF SetupInv, RightsInv, C!TypeOK
        <4> QED BY <3>2, <4>1, StatusParts
      <3>3. CASE \E s \in Signal, core \in {0, 128} : status = s + core
        <4>1. PICK s \in Signal, core \in {0, 128} : status = s + core BY <3>3
        <4>2. s \in 1 .. 64 BY SetupAssumption
        <4>3. C!Decoded(status) = <<"signal", s>> BY <4>1, <4>2, StatusParts
        <4> QED BY <4>3
      <3> QED BY <3>1, <3>2, <3>3 DEF Ended
    <2> QED BY <2>1, <2>2 DEF ReportIsTrue, C!ReportIsTrue
  <1> QED BY <1>1, SetupInvariance, PTL
=============================================================================
