------------------------------- MODULE Seccomp -------------------------------
(***************************************************************************)
(* The seccomp programs of the repository: the strict one of the locked    *)
(* child (persistent_executor.rs) and the probe, which denies getppid, of  *)
(* the service, of its proof child (lib.rs) and of the payload (guest.rs). *)
(* An instruction is [code, jt, jf, k] as in SockFilter; the kernel runs a *)
(* program on the number and the architecture of a system call.            *)
(***************************************************************************)
EXTENDS Integers, Sequences

\* The system calls of the code, by their AArch64 numbers, and one more.
nr == [dup3 |-> 24, close |-> 57, read |-> 63, exit |-> 93, exit_group |-> 94,
       rt_sigprocmask |-> 135, prctl |-> 167, getpid |-> 172, getppid |-> 173,
       getuid |-> 174, sendto |-> 206, recvfrom |-> 207, close_range |-> 436]

\* The machine of AUDIT_ARCH, without its flags.
AUDIT_ARCH_NATIVE == 183

Load(offset) == [code |-> "BPF_LD_W_ABS", jt |-> 0, jf |-> 0, k |-> offset]
Jeq(value, jt, jf) == [code |-> "BPF_JMP_JEQ_K", jt |-> jt, jf |-> jf, k |-> value]
Ret(verdict) == [code |-> "BPF_RET_K", jt |-> 0, jf |-> 0, k |-> verdict]

\* Mutant of StrictFilter: EXIT is stepped over together with EXIT_GROUP.
StrictFilterNoExit ==
    <<Load(4), Jeq(AUDIT_ARCH_NATIVE, 1, 0), Ret("kill"), Load(0),
      Jeq(nr.recvfrom, 0, 1), Ret("allow"), Jeq(nr.sendto, 0, 1), Ret("allow"),
      Jeq(nr.close, 0, 1), Ret("allow"), Jeq(nr.getpid, 0, 5), Ret("allow"),
      Jeq(nr.exit, 0, 1), Ret("allow"), Jeq(nr.exit_group, 0, 1), Ret("allow"), Ret("eperm")>>

\* child_install_strict_seccomp: each number falls through to its ALLOW, or
\* steps over it.
StrictFilter ==
    <<Load(4), Jeq(AUDIT_ARCH_NATIVE, 1, 0), Ret("kill"), Load(0),
      Jeq(nr.recvfrom, 0, 1), Ret("allow"), Jeq(nr.sendto, 0, 1), Ret("allow"),
      Jeq(nr.close, 0, 1), Ret("allow"), Jeq(nr.getpid, 0, 1), Ret("allow"),
      Jeq(nr.exit, 0, 1), Ret("allow"), Jeq(nr.exit_group, 0, 1), Ret("allow"), Ret("eperm")>>

\* install_getppid_probe_seccomp, install_executor_probe_seccomp.
ProbeFilter == <<Load(0), Jeq(nr.getppid, 0, 1), Ret("eperm"), Ret("allow")>>

Program == [strict |-> StrictFilter, probe |-> ProbeFilter]

------------------------------------------------------------------------------
(* The kernel.                                                             *)

\* What the accumulator of a program can hold: nothing loaded, or a word loaded.
Word(data) == {0, data.nr, data.arch}

\* What becomes of a program at instruction i with acc loaded, given what
\* becomes of it further on; jumps go forward only.
Outcome(program, data, verdict, i, acc) ==
    LET ins == program[i]
    IN  CASE ins.code = "BPF_LD_W_ABS" ->
               verdict[i + 1][IF ins.k = 0 THEN data.nr ELSE data.arch]
          [] ins.code = "BPF_JMP_JEQ_K" ->
               verdict[i + 1 + (IF acc = ins.k THEN ins.jt ELSE ins.jf)][acc]
          [] ins.code = "BPF_RET_K" -> ins.k

\* A program runs from its first instruction with nothing loaded.
Run(program, data) ==
    LET verdict[i \in DOMAIN program] ==
            [acc \in Word(data) |-> Outcome(program, data, verdict, i, acc)]
    IN  verdict[1][0]

\* What the kernel asks of a program before it installs it.
Loadable(program) ==
    /\ program # <<>> /\ program[Len(program)].code = "BPF_RET_K"
    /\ \A i \in DOMAIN program :
        /\ program[i].code \in {"BPF_LD_W_ABS", "BPF_JMP_JEQ_K", "BPF_RET_K"}
        /\ program[i].code = "BPF_JMP_JEQ_K" =>
            {program[i].jt, program[i].jf} \subseteq 0 .. Len(program) - 1 - i

\* Every installed program is run; the strictest verdict counts.
Verdict(filters, data) ==
    LET verdicts == {Run(Program[f], data) : f \in filters}
    IN  IF "kill" \in verdicts THEN "kill"
        ELSE IF "eperm" \in verdicts THEN "eperm" ELSE "allow"

Native(number) == [nr |-> number, arch |-> AUDIT_ARCH_NATIVE]
Foreign(number) == [nr |-> number, arch |-> 0]
=============================================================================
