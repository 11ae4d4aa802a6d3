----------------------------- MODULE Confinement -----------------------------
(***************************************************************************)
(* How the three children of the repository give up their rights: the      *)
(* locked child (persistent_executor.rs), the proof child (lib.rs) and the *)
(* payload of the guest (guest.rs).  Each sets no_new_privs, reads it      *)
(* back, installs a seccomp program, tries it out, and exits with a code   *)
(* of its own for the step that failed.  Whoever waits for it is told by   *)
(* the wait status.                                                        *)
(*                                                                         *)
(* Every system call goes through the programs installed so far, and may   *)
(* fail besides.  The child may inherit no_new_privs and the probe from    *)
(* the thread that forks it (the service installs them in onCreate).       *)
(***************************************************************************)
EXTENDS Seccomp, FiniteSets

CONSTANTS
    Signal,     \* signals that may end the child
    Number      \* system call numbers

VARIABLES
    kind,          \* which child
    place,         \* where it is
    nnp, filters,  \* no_new_privs, and the programs installed
    own,           \* one of them it has installed itself
    code,          \* the exit code it was given
    status,        \* the wait status, once it has ended
    report         \* what is made of it

rights == <<nnp, filters, own>>
vars == <<kind, place, rights, code, status, report>>

------------------------------------------------------------------------------
(* The three children.                                                     *)

Child(program, blocked, nnpCode, checkCode, installCode, allowCode, blockCode, next) ==
    [program |-> program, blocked |-> blocked,
     fails |-> [nnp |-> nnpCode, check |-> checkCode, install |-> installCode,
                allowed |-> allowCode, denied |-> blockCode],
     next |-> next]

Children ==
    [executor |-> Child("strict", nr.getuid, 105, 105, 106, 107, 107, "serve"),
     proof    |-> Child("probe", nr.getppid, 101, 102, 103, 104, 105, "exit"),
     payload  |-> Child("probe", nr.getppid, 123, 123, 124, 125, 125, "serve")]

\* What a child calls once it serves: the executor its socket, the payload files
\* (one call stands for them, the probe knows getppid only).
Serving == [executor |-> {nr.recvfrom, nr.sendto, nr.close}, payload |-> {nr.read}]

Me == Children[kind]
Allowed(number) == Verdict(filters, Native(number)) = "allow"
Denied(number) == Verdict(filters, Native(number)) = "eperm"

Alive == place # "gone"
NoCode == 256
NoStatus == 65536

\* What the thread that forks has: nothing, or what no_new_privs_report and then
\* seccomp_install_report have set for it, each of which may fail.
Inherited ==
    /\ nnp \in BOOLEAN
    /\ filters \in {{}, {"probe"}} /\ (filters # {} => nnp)

Init ==
    /\ kind \in DOMAIN Children
    /\ place = "nnp"
    /\ Inherited
    /\ own = FALSE
    /\ code = NoCode /\ status = NoStatus /\ report = "none"

\* A step has failed, or all is done.
Exit(c) == place' = "exit" /\ code' = c /\ UNCHANGED <<kind, rights, status, report>>

------------------------------------------------------------------------------
(* The steps of a child.                                                   *)

\* prctl(PR_SET_NO_NEW_PRIVS).
SetNnp ==
    /\ place = "nnp" /\ Allowed(nr.prctl)
    /\ nnp' = TRUE
    /\ place' = "check"
    /\ UNCHANGED <<kind, filters, own, code, status, report>>

SetNnpFails == place = "nnp" /\ Exit(Me.fails.nnp)

\* prctl(PR_GET_NO_NEW_PRIVS) says 1.
CheckNnp ==
    /\ place = "check" /\ Allowed(nr.prctl) /\ nnp
    /\ place' = "install"
    /\ UNCHANGED <<kind, rights, code, status, report>>

CheckNnpFails == place = "check" /\ Exit(Me.fails.check)

\* Mutant of Install: the result of prctl is not looked at.
InstallUnchecked ==
    /\ place = "install"
    /\ \/ filters' = filters \cup {Me.program} /\ own' = TRUE
       \/ UNCHANGED <<filters, own>>
    /\ place' = "tryAllowed"
    /\ UNCHANGED <<kind, nnp, code, status, report>>

\* The kernel wants no_new_privs and a program it can load.
Install ==
    /\ place = "install" /\ Allowed(nr.prctl)
    /\ nnp /\ Loadable(Program[Me.program])
    /\ filters' = filters \cup {Me.program}
    /\ own' = TRUE
    /\ place' = "tryAllowed"
    /\ UNCHANGED <<kind, nnp, code, status, report>>

InstallFails == place = "install" /\ Exit(Me.fails.install)

\* getpid must succeed, ...
TryAllowed ==
    /\ place = "tryAllowed"
    /\ IF Allowed(nr.getpid)
         THEN place' = "tryDenied" /\ UNCHANGED <<kind, rights, code, status, report>>
         ELSE Exit(Me.fails.allowed)

\* ... and the other call be denied with EPERM: nothing but a program does that.
TryDenied ==
    /\ place = "tryDenied"
    /\ IF ~Denied(Me.blocked) THEN Exit(Me.fails.denied)
       ELSE IF Me.next = "exit" THEN Exit(0)
       ELSE place' = "serve" /\ UNCHANGED <<kind, rights, code, status, report>>

\* A call of a serving child; if a program denies one it leaves.
Serve ==
    /\ place = "serve"
    /\ \A number \in Serving[kind] : Allowed(number)
    /\ UNCHANGED vars

\* SHUTDOWN, or its socket fails: exit 0, or 108-113.
Leave ==
    /\ place = "serve" /\ kind = "executor"
    /\ \E c \in {0} \cup 108 .. 113 : Exit(c)

------------------------------------------------------------------------------
(* child_exit_now, child_exit, _exit.                                      *)

Clamped(c) == IF c > 255 THEN 255 ELSE IF c < 0 THEN 0 ELSE c

End(s) == place' = "gone" /\ status' = s /\ UNCHANGED <<kind, rights, code, report>>

\* exit_group, or exit when that is denied; denied both it would spin for ever.
ExitGroup ==
    /\ place = "exit" /\ (Allowed(nr.exit_group) \/ Allowed(nr.exit))
    /\ End(Clamped(code) * 256)

\* A signal ends it, with or without a core dump.
Killed ==
    /\ Alive
    /\ \E s \in Signal, core \in {0, 128} : End(s + core)

------------------------------------------------------------------------------
(* What is made of the wait status.                                        *)

\* Mutant of wait_exit_status: the low byte is taken, as if it were shifted.
WaitExitStatusLow(s) == s % 256

wait_if_exited(s) == s % 128 = 0
wait_exit_status(s) == (s \div 256) % 256
wait_if_signaled(s) == s % 128 # 0 /\ s % 128 # 127
wait_term_signal(s) == s % 128

\* isolated_executor_parent_report, run_supervisor and shutdown take the status
\* apart in this order; other codes are reported as unexpected.
Decoded(s) ==
    IF wait_if_signaled(s) THEN <<"signal", wait_term_signal(s)>>
    ELSE IF ~wait_if_exited(s) THEN <<"unknown", 0>>
    ELSE <<"code", wait_exit_status(s)>>

\* The names of the steps the exit codes of the proof child stand for.
Step(c) ==
    CASE c = 0 -> "passed" [] c = 101 -> "nnp" [] c = 102 -> "check"
      [] c = 103 -> "install" [] c = 104 -> "allowed" [] c = 105 -> "denied"
      [] OTHER -> "unexpected"

Report ==
    /\ ~Alive /\ report = "none"
    /\ report' = IF Decoded(status)[1] # "code" THEN Decoded(status)[1]
                 ELSE IF kind = "proof" THEN Step(Decoded(status)[2])
                 ELSE IF Decoded(status)[2] = 0 THEN "passed" ELSE "unexpected"
    /\ UNCHANGED <<kind, place, rights, code, status>>

\* waitpid fails.
WaitFails ==
    /\ report = "none" /\ report' = "wait_failed"
    /\ UNCHANGED <<kind, place, rights, code, status>>

\* Nobody looks any more.
Over == ~Alive /\ report # "none" /\ UNCHANGED vars

------------------------------------------------------------------------------
ChildStep ==
    \/ SetNnp \/ SetNnpFails \/ CheckNnp \/ CheckNnpFails
    \/ Install \/ InstallFails \/ TryAllowed \/ TryDenied
    \/ Serve \/ Leave \/ ExitGroup

Next == ChildStep \/ Killed \/ Report \/ WaitFails \/ Over

Spec == Init /\ [][Next]_vars

------------------------------------------------------------------------------
(* Safety.                                                                 *)

\* The types of all variables; a program is installed only under no_new_privs.
TypeOK ==
    /\ kind \in DOMAIN Children
    /\ place \in {"nnp", "check", "install", "tryAllowed", "tryDenied", "serve", "exit", "gone"}
    /\ nnp \in BOOLEAN /\ filters \subseteq DOMAIN Program
    /\ filters # {} => nnp
    /\ own => Me.program \in filters
    /\ code \in 0 .. 125 \cup {NoCode}
    /\ place = "exit" => code # NoCode
    /\ status \in 0 .. NoStatus

\* A child that serves has no_new_privs and its own program, which denies no call
\* of its loop.  The program of the locked child leaves it those calls, getpid and
\* the exits, of its own architecture, and nothing else (persistent_executor.rs:
\* 922-930); that of the payload denies getppid only (guest.rs:118-120).
ServesConfined ==
    place = "serve" =>
        /\ nnp /\ own
        /\ \A number \in Serving[kind] : Allowed(number)
        /\ LET surface == {number \in Number : Allowed(number)}
           IN  IF kind = "payload" THEN surface = Number \ {nr.getppid}
               ELSE /\ surface = Serving.executor \cup {nr.getpid, nr.exit, nr.exit_group}
                    /\ \A number \in surface : Verdict(filters, Foreign(number)) = "kill"

\* "ISOLATED_EXECUTOR_PROOF: PASSED ... NoNewPrivs: VERIFIED, seccomp:
\* INSTALLED" (lib.rs:514-520) is said of such a child only, though the probe it
\* inherits would deny getppid just as well.
PassedMeansConfined ==
    report = "passed" /\ kind = "proof" => nnp /\ own /\ code = 0

\* What is reported is how the child ended: the code it was given, by exit and
\* not by a signal, or a signal that was sent; a status of neither kind, which
\* the code provides for, does not come up.
ReportIsTrue ==
    /\ report # "unknown"
    /\ status # NoStatus =>
        LET d == Decoded(status)
        IN  \/ d[1] = "code" /\ d[2] = code
            \/ d[1] = "signal" /\ d[2] \in Signal

------------------------------------------------------------------------------
\* A child that gives up ends: whatever it has installed lets it exit, so that
\* the waits without timeout for it return (if it goes on with its exit).
ExitsEnd == place = "exit" ~> place = "gone"
=============================================================================
