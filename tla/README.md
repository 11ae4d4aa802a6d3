# SecureGSI in TLA+

A verification project for SecureGSI: an Android application whose native library
(`rust/src`) runs work in a locked-down child of an Android *isolated* service. The modules
here model the parts of the code that have state and concurrency, TLC checks them on small
instances, and TLAPS proves the main properties for every instance. Paths below are relative to
the repository root; `persistent_executor.rs` and the other `.rs` files are in `rust/src/`, the
Kotlin files in `app/src/main/java/com/securegsi/`.

## 1. The system

| Part | Code | State | Operations | What makes it correct |
|---|---|---|---|---|
| Persistent Guest Executor, service side | `persistent_executor.rs` 245-621 | `STATE` (pid, control fd, next request id) under a mutex; the service's descriptors and children | `start`, `ping`, `status`, `shutdown`, from any binder thread | an answer reaches the call it belongs to; at most one child lives on; every call ends; no descriptor and no pid is lost or used twice |
| Locked child | `persistent_executor.rs` 765-1259 | its place in `child_main`, its descriptors, the request it has read | seven lockdown steps, then receive and answer | after the scrub it has one descriptor; it ends when the service is done with it |
| IPC protocol v1 | `ipc_protocol.rs` | none | `encode`, `parse_slice`, `matches_response` | the parser accepts what `encode` builds and nothing else |
| Child lockdown internals | `persistent_executor.rs` 789-1070 | descriptor numbers, BPF program | `child_normalize_control_fd`, `child_scrub_fds`, `child_install_strict_seccomp` ... | whatever the numbers are, only fd 3 remains; the filter allows its list and nothing else |
| Isolated executor proof | `lib.rs` 221-576 | one short-lived child per call | fork, confine, report by exit status | the child is reaped; its inherited descriptors do not disturb the executor |
| Guest runtime | `guest.rs` | `GUEST_PID`, status and pid files, supervisor and payload processes | `start_guest`, `run_supervisor`, `run_builtin_payload`, `stop_guest`, `guest_pid` | one supervisor; nothing of the guest runs after a stop; files tell the truth |
| Duress vault | `duress.rs`, `lib.rs` 632-672 | verifier file, temporary file, `instances/` | `configure`, `configured`, `matches`, `wipe_instances`, and the trigger that stops the guest first | a crash between two file operations loses neither the old PIN nor the ability to retry |
| Isolated service | `AegisIsolatedService.kt` | none of its own | `onTransact`, on the binder pool | calls reach the native library |
| Isolated client | `AegisIsolatedClient.kt` | binder, connection, context under one lock | bind, transact, release; `ServiceConnection` callbacks | a recorded connection is bound, a recorded binder watched; each start is answered; after a shutdown nothing starts by itself |
| JNI reports, `RustBridge` | `lib.rs`, `RustBridge.kt` | none | text of results | - |
| Image hashing and import | `image.rs`, `lib.rs` 40-65, 674-715, `ImageManager.kt` | the descriptor Kotlin opened and its duplicate | open, dup, read, close | each descriptor is closed once, by its owner; the hash is that of the whole file |
| User interface | `MainActivity.kt`, `SystemStatus.kt`, `ui/` | Compose state | buttons | - |
| Bootstrap binary | `bootstrap/main.rs` | none | prints and exits | - |
| Scripts, fuzz target, Kani harnesses | `scripts/`, `rust/fuzz/`, `security_sweep_strict_v6.sh` | - | - | tooling |

**How they interact.** The UI calls the client; the client sends binder transactions to the
isolated service; its binder pool threads call the native library through `RustBridge`; the
executor forks the locked child and talks to it over a `SOCK_SEQPACKET` pair in packets of the
IPC protocol. `GET_IDENTITY`, on another binder thread, forks a proof child without taking
`STATE`. The guest runtime and the duress vault run in the application process; the duress
trigger calls `stop_guest` and then `wipe_instances`. All three kinds of child (executor, proof,
payload) confine themselves in the same way, by no_new_privs and a seccomp program, and tell
their parent by their exit status what failed.

**What is hard.** Several binder threads contend for `STATE`; a call that times out leaves an
answer on its way; fork copies whatever descriptors are open at that moment; system calls are
interrupted half way through a termination; child and service may die at any point, and the
child asks for its parent-death signal only after some steps; request ids wrap. All of these
are in the model below. The hazards, each at its line with the properties that guard against
it, are listed in `PROJECT.json`.

## 2. The modules

| Module | Contents |
|---|---|
| `IpcProtocol` | the protocol as operators: no variable, no bound |
| `PersistentExecutor` | service threads, locked children, proof children, sockets |
| `ExecutorInvariant` | the inductive invariant `IndInv` |
| `AbstractExecutor` | what the four entry points promise their callers |
| `ExecutorRefinement` | `PersistentExecutor` implements `AbstractExecutor` |
| `MCPersistentExecutor` | instances of all these for TLC; what `parse_slice` makes of packets like those in flight |
| `PersistentExecutorProofs` | `IndInv` is inductive; the safety theorems |
| `ExecutorRefinementProofs` | the refinement of `AbstractExecutor`, from `IndInv` |
| `IpcProtocolProofs` | `encode` and `parse_slice` are inverse, for every packet; what is in flight is always what `encode` builds |
| `ChildLockdown` | the descriptor numbers of the locked child, from fork to the end of the scrub |
| `Seccomp` | the two seccomp programs and the kernel's evaluation of them |
| `Confinement` | no_new_privs, seccomp, trial and exit of the three children, over `Seccomp` |
| `ChildSetup`, `MCChildSetup` | composes `ChildLockdown` and `Confinement` into the way of a child from fork to its work |
| `ChildSetupProofs` | the control socket stays, and nothing else; what the programs say of every call; a child serves, and is reported, as what it is |
| `GuestRuntime`, `MCGuestRuntime` | application, supervisors, payloads and the status file |
| `AbstractGuest` | what `start_guest` and `stop_guest` promise about supervisors |
| `GuestRefinement` | `GuestRuntime` implements `AbstractGuest`; its invariant |
| `GuestRuntimeProofs` | the safety theorems of the guest runtime and the refinement |
| `DuressVault` | verifier and instances, file operation by file operation |
| `AbstractVault` | what the vault promises |
| `VaultRefinement`, `MCDuressVault` | `DuressVault` implements `AbstractVault`; its invariant |
| `DuressVaultProofs` | the vault's safety theorems and the refinement |
| `IsolatedClient`, `MCIsolatedClient` | calls of the client against the callbacks of its binding |
| `IsolatedClientProofs` | its safety theorems |
| `ImageReader`, `MCImageReader` | hashing and header reading next to other threads |
| `ImageReaderProofs` | its safety theorems |

Operators whose comment begins with *Mutant of* are plausible bugs. They are used by no
specification; put in place of the definition they belong to, each makes TLC report the
property that `PROJECT.json` names with it, which shows that the property is not vacuous.

### IpcProtocol

A packet is a record of its fields; a little-endian group of bytes is the number it encodes.
`Passed(p)` tells for each error of `ParseError` whether `p` passes the check that reports it,
`Check` is the order in which `parse_slice` makes the checks, so that `parse_slice(p)` returns
the error the code returns. `Encodable` is the condition under which `encode` returns `Some`.

### PersistentExecutor

*Variables.* `state` is `STATE`; pid and control fd name the same incarnation and are one value,
`state.child` (`NoChild` is pid 0, fd -1). `owner` is the thread that holds the mutex. `pc`, `op`, `conn`
and `rid` are, per thread, the place in the call, the call, and its locals. `stage` and `req` are the
place of each child in `child_main` and the request it has parsed. `svcHeld[c]` and `chdHeld[c]`
are the processes that have the service's, or the child's, end of the pair of `c` open; an end is closed
for its peer when the set is empty. `toChild` and `toService` are the packets in flight. `exit`
and `killed` are the wait status and the pending SIGKILL. `probe` are the proof children.

*Actions and code.*

| Actions | Code |
|---|---|
| `Call`, `Refuse` | binder transaction, `STATE.lock()`, EBUSY and ENOENT |
| `OpenPair`, `OpenPairFails`, `Fork`, `ForkFails`, `Install` | `start` 453-522 |
| `Begin`, `parent_send`, `SendFails` | `request_response` 545-556, `shutdown` 570-581 |
| `parent_recv`, `RecvEof`, `Timeout`, `PollFails` | `parent_recv` 347-400 |
| `Finish`, `Detach`, `Wait`, `WaitInterrupted` | the ends of `start`, `request_response`, `shutdown` |
| `parent_force_terminate`, `Kill`, `Reap`, `ReapInterrupted` | `parent_force_terminate` 402-428, in its three effects: forget and close, kill, wait |
| `Normalize`, `Scrub`, `Harden`, `SetupFails`, `Greet` | `child_main` 1115-1166 |
| `child_recv`, `Answer`, `Bye`, `ExitClean`, `LosesPeer` | the loop of `child_main` 1168-1258 |
| `ForkProbe`, `ProbeExits` | `lib.rs` 436-478, 552-574 |
| `Die`, `KilledFromOutside`, `ServiceDies` | the kernel |

An action is what happens between two points at which another process can observe or
interfere: one system call, with the local computation around it. Taking the mutex and
checking `running()` are one step, since nobody else can look at `STATE` in between.

Abstractions. Packets in flight are messages (`IpcProtocolProofs` shows that nothing is lost by
that: encoding and parsing give back the message). The service sends nothing
that the child's parser would refuse, so the answers `RESP_ERROR` to malformed packets are
unreachable and left out. Error numbers are collapsed to `failed`, except EBUSY and ENOENT,
which callers tell apart. A socket whose peer has gone with unread data reports ECONNRESET
once instead of EOF: that is `PollFails`. Poisoning of the mutex is left out, for no code
panics while holding it. A child never reaped because waitpid was interrupted stays a zombie.
On other targets than AArch64 the child exits at once (status 119), which is `SetupFails` in its first step.

### AbstractExecutor

Four operations that take effect at one moment on `exec`, the child last reported by `start`.
The refinement (`ExecutorRefinement`) takes as that moment the return of the call: while a
thread holds `STATE`, `exec` is still the child it found there (for `start`: none).

### GuestRuntime

A `Guest` is one supervisor with the payload it forks. *Variables.* `pc`, `op`, `cur` are the place of
the application's thread, its call and the pid it has forked: one thread, since the buttons of
`MainActivity` call on the main thread. `guestPid` is `GUEST_PID`; `own` are the supervisors this
life of the application has forked. `sup` and `pay` are the places of the processes, with
zombies and reaped ones; `sigSup`, `sigPay` pending SIGTERMs; `armed` those payloads whose
`PR_SET_PDEATHSIG` took effect. `tree` and `status` are the directory of the guest and its file
`status`.

| Actions | Code |
|---|---|
| `StartPrepares`, `StartFindsRunning`, `PrepareFails`, `AppWrite`, `Fork`, `ForkFails`, `Store`, `StoreFails`, `UndoWait`, `UndoWaitInterrupted` | `start_guest` 593-657, `prepare_guest_filesystem` 259-299 |
| `StopFindsNothing`, `StopTerminates`, `StopWaits`, `StopWaitInterrupted`, `AppWrite`, `Stopped` | `stop_guest` 659-751 |
| `WipeBegins`, `WipeEnds` | the duress trigger, `lib.rs` 663-671 |
| `SupWrite`, `SupForks`, `SupForkFails`, `SupWaits`, `SupWaitInterrupted`, `SupExits` | `run_supervisor` 482-591 |
| `PayArms`, `PayLocksDown`, `PayEnds` | `run_builtin_payload` 385-480, `run_native_bootstrap` 348-383 |
| `SupDies`, `SupKilled`, `PayKilled`, `AppDies`, `AppRestarts` | the kernel, Android |

Abstractions. The code reads none of the runtime files; `status` alone is kept, the others are written within the
steps shown. Steps of the wipe are in the two actions between which it works. Each pid is used
once. The answers ESRCH, EPERM and ECHILD of `kill` and `waitpid` cannot come up, which
`GuestPidIsOwned` shows. After a restart of the application the supervisors of its former life
run on without being known to it.

### AbstractGuest

`guest` is the guest last reported as started, `ours` those forked in this life of the application, `life` what has become of
each. A start reports a guest, or fails and has told it to end, and either only while no other goes on (`Started`,
`NotStarted`); a stop tells the guest to end and strikes it off when it has (`Told`, `Stopped`); the death of the application
forgets everything (`Lost`). In the refinement a start takes effect when the pid is stored: until then the fork is nobody's
business (`Secret`), and from then on it is known whether the start will be reported.

### ChildLockdown

`table` is the child's descriptor table: what each number is open on. `Init` allows every table
the service may have below its soft limit, with the two socket ends on any two numbers. The
actions follow `child_normalize_control_fd` (790-813) and `child_scrub_fds` (816-850) call by call;
`capture_fd_limit` (430-451) cuts the limit to `u32`. `close_range` may be refused, in which case the loop closes
one number after the other, or the child exits when there would be too many. Assumed of the
service: it has nothing open at or above its own soft limit, which holds unless the limit was lowered
while it ran.

### Seccomp, Confinement and ChildSetup

`Seccomp` holds the programs as sequences of instructions, `Run` is the kernel's interpreter (a recursive function of the instruction and
the word loaded, `Outcome` one step of it), `Loadable` its check: forward jumps inside the program, and a return at the end, and `Verdict` the strictest answer of all installed programs. The four places
that install the probe (`lib.rs` 221-275, for the service and its proof child, `guest.rs` 125-199) have the same program.

`Confinement` takes a child of any of the three kinds through its steps. `Children` names for each its program,
the call it expects to be denied, and the exit code of each step that fails. A system call is answered by
`Verdict`, and may fail besides; what a child inherits from the forking thread is either nothing, or
no_new_privs, or that and the probe (`Inherited`: what `onCreate` of the service sets, on one thread of it).
A signal may end the child anywhere. The wait status is a number, and
`wait_if_exited` and the others take it apart by arithmetic as the code does by masks.

| Actions | Code |
|---|---|
| `SetNnp`, `CheckNnp` and their failures | `child_enable_nnp` 896-909, `lib.rs` 437-451, `guest.rs` 88-111 |
| `Install`, `InstallFails` | `child_install_strict_seccomp` 912-1057, `lib.rs` 221-275, `guest.rs` 125-199 |
| `TryAllowed`, `TryDenied` | `child_verify_boundary` 1060-1070, `lib.rs` 457-472, `guest.rs` 226-236 |
| `Serve`, `Leave`, `ExitGroup` | `child_main` 1161-1258, `child_exit_now` 775-787 |
| `Report`, `WaitFails` | `isolated_executor_parent_report` 480-550 |

`ChildSetup` puts the two parts one after the other, as `child_main` does: the locked child confines itself only after the
scrub has succeeded (`CloseStep`, `CloseFails`: 1118-1128) and its signals are blocked (`HardenFails`: 1130-1140); the
proof child and the payload skip the descriptors. A failure before the confinement goes through the same exit.

### DuressVault

`ver` is the verifier file, `temp` each caller's temporary one, `inst` the instances directory with the
files left in it and whether a wipe has removed some. A PIN is a value; the verifier holds the value it
was made from, or `Torn`. Callers are threads, since nothing in the library serialises these
functions. `configure` is `Open`, `WriteAll`, `Sync`, `Rename`; the trigger is `Accept`, `GuestStopped`, `Scan`,
`RemoveEntry` for one file after the other, `RemoveDir`, `Forget`. At each of them the operation may fail
(`ConfigureFails`, `Refuse`, `StopFails`, `WipeFails`).

*Fault model.* `AppDies`: the calls are gone, the files as they are. `Commit` and `PowerLoss`: the file system is a journal
whose last commit (`disk`) comes back, verifier and instances as of one moment; a file that was not synced
may come back torn. `StartsMeanwhile` tells whether a guest may be started during a trigger: nothing in
the library excludes it, the screen does by running both on its main thread. A payload that `stop_guest` did not wait for goes on
writing either way (finding of `guest_wipe`).

Left out: symbolic links and the other refusals of odd paths, which are `Refuse` and `WipeFails`; a temporary
file left behind, whose random name nobody opens again.

### IsolatedClient

`persistentConnection` and `persistentBinder` are the fields under `persistentLock` (the context goes with the connection); each
`synchronized` block is one step. A connection is named by the call that made it, a binder by
the number of the process that serves it. `Call`, `ReadBinder`, `Accept`, `Refused`, `Bind`, `BindFails`, `Transact` are
`startPersistentExecutor`, the two requests and the shutdown; `Release` and `Unbind` the two halves of
`releasePersistentBinding`; `Connected`, `Record`, `Starts`, `Disconnected`, `BindingDied` the callbacks, which the
main thread runs from its queue.

The system is external, modelled from how the code uses it and Android's contract for bound services: it starts
the service for a binding made with `BIND_AUTO_CREATE`, again when its process has died, or gives the binding up;
connected clients hear of a death; a connection that is connected with a new binder is
disconnected from the old one first; a connection that was unbound hears of nothing, unless its callback is
already running (`Stale`). With `OneThread` the calls are made on the main thread, so that a
call and a callback exclude each other; without, each is made on a thread of its own, as the
instrumented test does.

### ImageReader

`table` tells whose each descriptor number is; `open` and `dup` take the lowest free one, as the kernel does,
which is the worst case for a number closed twice. `Open` and `Close` are Kotlin's `use`, `Duplicate` and `DropFile`
the `File` in Rust. `Read` returns any piece that `read` may return. SHA-256 is a function of the bytes
it is fed, so these are kept in its place.

## 3. What the runs check

All runs check for deadlock but those of `IsolatedClient`, where every caller may have returned and the
service be given up. Otherwise the only states without a real step are those in which all
processes are gone (`Over`).

**executor_safety** (`MCPersistentExecutor.cfg`, 423,766 states). Two threads, two children, `MaxId` = 2, no proof
child. Two threads suffice for contention, as the mutex lets one in; two children for a restart while the
previous child is not gone. With two ids the counter wraps in the life of one child, and the same id soon
comes again: the worst case, in which the id no longer tells a late answer from the one expected.

- `ChannelIsQuiet`: a call that returns leaves nothing in flight. It is what makes matching by
  opcode and id sound although ids are reused.
- `AnswerIsForThisCall`: what a waiting call finds in its socket is the answer to its request.
- `OneExecutor`: a living child other than the recorded one is already on its way out.
- `PidIsOwned`: kill and waitpid never get the pid of a child that has been reaped.
- `IndInv`: the invariant from which these are proved.
- `ImplementsAbstract`: every behaviour of the executor is one of `AbstractExecutor`.
- `AcceptedIsCanonical`, `EncodedIsParsed`: both sides send only what `encode` accepts, the other side parses it back, and of
  the packets like it each is refused or is the encoding of the message it is parsed to. "Like it" is: any
  two fields have any of the values the code compares with or those next to them (`Around`). The parser looks
  at each field by itself except for kind, opcode and id. No packet is a `RESP_ERROR`, which is why the answers to malformed packets are
  left out of the model.
- `TypeOK`.

**executor_liveness** (`MCPersistentExecutor_liveness.cfg`, 133,594 states). One thread, two children and a proof child, which
inherits whatever ends are open when it is forked. One thread is enough here: calls exclude each other, and a caller
that waits for `STATE` does nothing.

- `CallsEnd`: whoever holds `STATE` gives it back. It assumes `CallFairness`: each thread that can go on in its call does so,
  as system calls return, `poll` after its timeout at the latest; a pending SIGKILL is delivered and a child that has
  sent BYE exits. Nothing else is assumed of the child: it may hang before, between or after requests. Not
  claimed: that each waiting caller gets its turn, since the mutex is not fair.
- `AbandonedChildEnds`: a child the service has let go of, or whose service has died, ends. It assumes
  `ChildFairness`: children and proof children are scheduled; the service is not assumed to do anything.
- `NoDescriptorLeak`: the service has the ends open that `STATE` or the start in progress accounts
  for, and no more. `SoleCapability`: past the scrub a child has its control socket only. Both
  with the copies of the proof child about.

The two fairness assumptions differ and each belongs to one property, so they are written into the properties
(`CallFairness => ...`) and the run's specification is `Spec`.

**guest_safety** (`MCGuestRuntime.cfg`, 625,859 states). Two supervisors, symmetric, which allow
a restart next to an orphan or a zombie; every process may die, every write may fail, and waits may be
interrupted.

- `OneSupervisor`: a supervisor of this life of the application that is not the recorded one is
  about to end, whatever failed on the way.
- `GuestPidIsOwned`: the recorded pid is that of a child not yet reaped, so `stop_guest`
  neither signals a stranger nor waits in vain.
- `ImplementsGuest`: every behaviour of the runtime is one of `AbstractGuest`. Of a stop it says what no invariant above does, that
  the pid is forgotten only after the supervisor has ended.
- `TypeOK`.

**guest_calls** (`MCGuestRuntime_calls.cfg`, 13,080 states). Two supervisors, so that a start follows a stop.
`CallsReturn`: `stop_guest` comes back from a wait without timeout in whatever step the supervisor is caught.
`StatusRests`: after a stop nobody writes the status until the next start. The second needs that no supervisor
is left behind, so restarts and interrupted waits are off in this run: orphans of an earlier life do
write the file. *Fairness* (`FairSpec`): the thread goes on with its call, the kernel schedules
supervisor and payload and delivers queued signals; no call need ever be made, and nobody need interrupt or kill.

**guest_zombie** (`MCGuestRuntime_zombie.cfg`, expected violation). `DeadGuestIsNoticed`, under `PatientSpec`
(`FairSpec`, and `start_guest` is called again and again): a supervisor that ended by itself
is a zombie, `kill(pid, 0)` succeeds, and `start_guest` reports it "already running" for good.

**guest_wipe** (`MCGuestRuntime_wipe.cfg`, expected violation). `WipeFindsGuestStopped`: "Stop the guest before
touching its filesystem." In the trace the supervisor ends before the payload has asked for
its parent-death signal; `stop_guest` waits for the supervisor only, and the wipe begins while the payload
runs. The same happens while a queued SIGTERM is on its way.

**vault** (`MCDuressVault.cfg`, 126,224 states). Two callers, since three do nothing to a file that two do not; two PINs to
tell old from new; two files, so that a removal can stop between them. `VerifierIsWhole`: a verifier that is there is
complete, also after a power loss in the middle of `configure`. `RetryKept`: instances of which a part is gone
never outlive the verifier. `TriggeredMeansGone`: a trigger that reports success has left none, whatever a
payload still alive has written. `ImplementsVault`: all of it is the atomic vault, on disk as well as in use. No guest is
started during a trigger (`StartsMeanwhile`); `AlwaysWhole` is proved without that restriction.

**child_setup** (`MCChildSetup.cfg`, 408,343 states). Six descriptor numbers: 0 to 3 and two above; limits on both sides of
`FallbackMax` and of `U32Max`. Every system call number up to 460, of the native and of a foreign architecture: the programs
compare numbers for equality only, so more of them add nothing. Signals at the edges of the bits a status is made of.

- `OnlyControl`, `ControlKept`: what the scrub leaves, and that the control socket survives it.
- `ServesConfined`: no child serves without its own program and no_new_privs, what the strict program leaves is what
  serving needs and no more, and the locked child that serves has nothing open but its socket.
- `PassedMeansConfined`: the proof is reported as passed of a confined child only, although the inherited probe denies `getppid` as well.
- `ReportIsTrue`: the report is how the child ended, at whichever step.
- `ExitsEnd`: a child that gives up ends, since what it has installed allows `exit_group` or `exit`. *Fairness*
  (`SetupSpec`): a child that has been told to exit goes on.
- `SetupTypeOK`.

**client_main** (`MCIsolatedClient.cfg`, 172,066 states). Calls on the main thread; two processes, so that the service dies and comes back.
`BinderIsWatched`: some bound connection is connected with the recorded binder. `DeadBinderForgotten`: a dead binder is not kept for ever.
*Fairness:* calls go on, the main thread runs its queue, the system starts the service or gives it up and tells who waits; deaths are never required.

**client_threads** (`MCIsolatedClient_threads.cfg`, 134,429 states). Calls on threads of their own: a start, one that overtakes it, and
a shutdown between the two. `RecordedIsBound`; `StartAnswered`: a start is answered, unless its binding was given up
or taken back, and the instrumented test waits for just that. Same fairness. `BinderIsWatched` and `DeadBinderForgotten`
do not hold here: a release from another thread between the beginning of `onServiceConnected` and its synchronized
block leaves a binder that nobody watches (see the hazards).

**client_stopped** (`MCIsolatedClient_stopped.cfg`, expected violation). `StoppedStays`: "State: STOPPED". A third process is needed: the first
dies and is forgotten without unbinding, the second is shut down, the third is started by itself.

**image_reader** (`MCImageReader.cfg`, 45,711 states). Files up to four bytes, a buffer of two and a header of three: whole pieces,
short ones, and a file longer than the header. Four numbers for the two descriptors and two other threads, so that every
number freed is soon taken. `OwnersOnly`, `ResultIsTrue`, `ReadingEnds`. *Fairness:* the main thread
goes on once it is in a call; no read need fail.

## 4. What is proved

TLAPS checks eight modules of proofs. Every invariant and action property of the runs that are expected to pass is the conclusion of one of the theorems. They assume nothing but the named assumptions on the constants,
which say that names are distinct, bounds natural numbers and signal numbers at most 64, and that the system calls considered include those of the code; sets may be infinite (except `Caller` in `IsolatedClient`, whose
messages are posted in some order). Each invariant was checked with TLC before it was proved.

### PersistentExecutor

*The argument.* None of the safety properties is inductive alone: that the channel is quiet
between calls depends on what each call has in flight at each of its places, that on whom the
caller talks to, and that on the lock. `IndInv` says all of it:

1. `LockInv`, `CallInv`, `HandleInv`: `STATE` is held in the critical places of a call and there only;
   the locals of the holder agree with `STATE` until it is cleared.
2. `EndInv`, `CapabilityInv`: exactly which ends the service and each child have open.
3. `LifeInv`, `ReapInv`, `OneExecutor`: the child a call deals with has been forked and not been
   reaped, what is killed is pending or dead, others are on their way out.
4. `ChannelInv`: the contents of both directions and the place of the child, for each
   place of the call that holds `STATE`.

Each part has a lemma for the steps of threads, one for those of children and one for the whole of
`Next`, which rests on the parts before it (`TypeStep`, `ControlStep`, `EndStep`, `LifeStep`,
`ChannelStep`); `IndStep` puts them together and `Invariance` concludes `Spec => []IndInv`. The
theorems `TypeCorrect`, `QuietChannel`, `RightAnswer`, `SingleExecutor`, `DescriptorsAccounted`,
`ControlIsSole` and `PidsOwned` are properties of the runs `executor_safety` and `executor_liveness`, each for every number of threads, children
and proof children and every width of the request id.

`ExecutorRefines` (`ExecutorRefinementProofs`) is the property `ImplementsAbstract` for the same constants. By `IndInv` only the holder of
`STATE` has a child in its locals, so that `AbsExec` and `AbsSpent` depend on the holder alone (`SpentIs`); a step that
keeps `STATE` and its child is then a stutter (`HolderStutter`, `ChildStutter`). What is left are the returns
(`ReturnMaps`, `FailureMaps`): where the call has passed `Install`, `state.child` is the child in its locals, and where it has
torn it down there is none, which gives the outcome that `AbstractExecutor` allows. The death of the service maps to `Vanish`.

### GuestRuntime

`GuestInv` (in `GuestRefinement`) adds to the properties what each place of a call knows: whether `GUEST_PID` is set (`PidByPlace`),
that the pid just forked is owned and has not been told to end (`ForkedIsOwned`), that signals are pending for the living only
(`ToldAlive`), and that without restarts and interrupted waits no supervisor but these two is alive (`NoneLeftBehind`). `GuestTypes`,
`SingleSupervisor`, `GuestPidOwned` and `StatusAtRest` follow, for any number of supervisors.

`GuestRefines` is the property `ImplementsGuest`. Only the return of a wait, the two outcomes of a fork, a SIGTERM, the end of a supervisor and
the death of the application change anything in the abstract (`StartMaps`, `TellMaps`, `WaitMaps`, `SupervisorMaps`, `DeathMaps`).
That no other supervisor goes on when a start is decided is `OneSupervisor`; that it has ended when a stop is done is the zombie
that the wait has found.

### DuressVault

`VaultInv` (in `VaultRefinement`): a temporary file about to be renamed is complete and synced (`FileReady`), so that the verifier is, in use and on the
disk (`VerifiersWhole`); a wipe under way has a verifier to be repeated with and is past the instances only when
there are none (`WipeUnderWay`); whatever has been cut has a verifier, in the last commit too (`CutKept`). The second half
is for `~StartsMeanwhile`. `VaultRefines` shows step by step that the abstract vault makes the same step or
none.

### ChildSetup

*The descriptors.* `LockdownInv` follows the control socket through the numbers it has at each place (`ControlWhere`), and keeps that
the other end went first, that whatever is open lies below the captured limit, and what the loop has closed so far.

*The programs.* `Run` is defined by a recursive function, and a proof may use its equation only when some function satisfies it. For a
program with forward jumps one does: if it is given from instruction `k` + 1 on, it can be continued to `k` (`GivesFrom`), so the least
number from which it is given is 1 (`GivesAll`, by the least number principle, which needs no induction over an operator). Both
programs are such (`StrictLoads`, `ProbeLoads`); unfolding them instruction by instruction gives `StrictVerdict` and
`ProbeVerdict`, for every system call number and every machine.

*The rights.* `RightsInv` says what each step of the confinement knows: what is installed and by whom (`Installed`), that a child which
gives up has its reason in `code`, that a wait status stands for the code or the signal of its end (`Ended`, `Stated`),
and what has been reported of it (`Reported`). Codes below 126 and signals up to 64 are told apart by the arithmetic on the status (`StatusParts`).
`Joined` ties the parts: the locked child confines itself only after its scrub.

*Together.* `SetupIsLockdown` shows that the composition implements the specification of the descriptors alone, so that what is proved of
these holds of the whole. With `RightsInv` and `Joined` (`RightsKept`), `SetupInvariance` follows and from it `SetupOnlyControl`,
`SetupControlKept`, `ConfinedServes`, `PassedConfined`, `ReportTrue` and `SetupTypes`: the invariants of the run
`child_setup`, for any number of descriptors, any limits and any set of system calls.

### IsolatedClient

`ClientInv`, from any thread: a recorded connection is bound or in hand, a connection the system knows belongs to a call that has
returned, and one taken to be unbound is not recorded again. `WatchInv`, for calls on the main thread: one actor is busy at a
time, no binder is recorded while a connection is being unbound, and the callback under way is that of a connected
connection.

### ImageReader

`ReaderInv`: which descriptors the call has at each place, and that what has been read is what lies before the offset; a piece
read next continues it (`Piece`).

### Protocol

`CanonicalParse` and `RoundTrip` say of every packet and message that parsing and encoding are inverse. `WireInv` says what the two
sides put into the sockets: requests with an id that is not 0, answers but never `RESP_ERROR`, with an id valid for their opcode; and that a
request a child has read is such a request (`WiresCarryMessages`, which takes from `IndInv` the types of the ids in use). Together they give
`AcceptedCanonical` and `EncodedParsed`, for any number of threads, children and ids.

*Only model-checked:* the liveness properties (`CallsEnd`, `AbandonedChildEnds`, `CallsReturn`, `ExitsEnd`, `DeadBinderForgotten`,
`StartAnswered`, `ReadingEnds`), which rest on fairness and are out of the prover's reach, and the three violations, which
are counterexamples.

## 5. What is not modelled, and why

- `probe()` of the client: bind, one transaction, unbind, and no state kept between them.
- The runtime files of the guest other than `status`, and the heartbeat of the bootstrap binary: nothing in the repository reads them.
- The identity checks and logs of `AegisIsolatedService`, the reports of `lib.rs`, `RustBridge`, the screen: text and declarations.
- `sha256_fd`, `read_header_fd`: nobody calls them.
- Poisoned mutexes, as no code panics while it holds one; symbolic links in the vault's paths.
- The bootstrap binary, scripts, the fuzz target and the Kani harnesses.

Still worth doing: `GuestRuntime` and `DuressVault` composed, where now the vault takes from the guest only that a payload may outlive `stop_guest`.
