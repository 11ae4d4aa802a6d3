----------------------------- MODULE DuressVault -----------------------------
(***************************************************************************)
(* The duress vault (rust/src/duress.rs) and the calls that use it         *)
(* (rust/src/lib.rs): configure writes the verifier of a PIN under a       *)
(* temporary name and renames it; the trigger compares a PIN with the      *)
(* verifier, stops the guest, removes the instances and then the verifier. *)
(*                                                                         *)
(* Callers are threads of the application: nothing serialises these        *)
(* functions.  Any file operation may fail, the application may die        *)
(* between any two, and the device may lose power: then the file system    *)
(* comes back as it was at some earlier moment, and the content of a file  *)
(* that was never synced may be lost.                                      *)
(*                                                                         *)
(* A temporary file left behind has a random name that nobody opens again: *)
(* it is dropped.  instances is a directory, as the guest runtime makes it.*)
(***************************************************************************)
EXTENDS Naturals

CONSTANTS
    Caller,       \* threads of the application
    Pin,          \* PINs of a legal length
    Entry,        \* files that can be in the instances directory
    NoFile,       \* no such file
    Torn,         \* content that does not parse as a verifier
    StartsMeanwhile  \* whether start_guest may be called during a trigger

ASSUME VaultAssumption ==
    /\ Torn \notin Pin /\ NoFile \notin Pin
    /\ NoFile \notin [value : Pin \cup {Torn}, synced : BOOLEAN]
    /\ StartsMeanwhile \in BOOLEAN

VARIABLES
    pc, arg,   \* where each caller is, and the PIN it was given
    temp,      \* its temporary verifier
    ver,       \* security/duress.phc
    inst,      \* the instances directory
    disk,      \* verifier and instances as they are after a power loss
    guest      \* some process of the guest can write to the instances

callVars == <<pc, arg, temp>>
fsVars == <<ver, inst>>
vars == <<callVars, fsVars, disk, guest>>

------------------------------------------------------------------------------
File == [value : Pin \cup {Torn}, synced : BOOLEAN]

\* dir: it exists; left: the files in it; cut: a wipe has removed some of it.
Instances == [dir : BOOLEAN, left : SUBSET Entry, cut : BOOLEAN]
NoInstances == [dir |-> FALSE, left |-> {}, cut |-> FALSE]

Configuring == {"open", "write", "sync", "rename"}
Wiping == {"scan", "remove", "forget", "triggered"}
Triggering == {"read", "stop"} \cup Wiping

Init ==
    /\ pc = [c \in Caller |-> "idle"]
    /\ arg \in [Caller -> Pin]
    /\ temp = [c \in Caller |-> NoFile]
    /\ ver = NoFile
    /\ inst = NoInstances
    /\ disk = [ver |-> NoFile, inst |-> NoInstances]
    /\ guest = FALSE

Goto(c, place) == pc' = [pc EXCEPT ![c] = place]

Call(c, place, p) == pc[c] = "idle" /\ Goto(c, place) /\ arg' = [arg EXCEPT ![c] = p]

\* Mutant of Return: the temporary file stays open.
ReturnKeepsTemp(c) == Goto(c, "idle") /\ UNCHANGED <<arg, temp>>

\* The call returns; its temporary file is renamed, removed or left behind.
Return(c) == Goto(c, "idle") /\ temp' = [temp EXCEPT ![c] = NoFile] /\ UNCHANGED arg

------------------------------------------------------------------------------
(* configure.                                                              *)

ConfigureBegins(c, p) ==
    /\ Call(c, "open", p)
    /\ UNCHANGED <<temp, fsVars, disk, guest>>

\* create_new: an empty file.
Open(c) ==
    /\ pc[c] = "open"
    /\ temp' = [temp EXCEPT ![c] = [value |-> Torn, synced |-> FALSE]]
    /\ Goto(c, "write")
    /\ UNCHANGED <<arg, fsVars, disk, guest>>

WriteAll(c) ==
    /\ pc[c] = "write"
    /\ temp' = [temp EXCEPT ![c].value = arg[c]]
    /\ Goto(c, "sync")
    /\ UNCHANGED <<arg, fsVars, disk, guest>>

\* Mutant of Sync: the file is flushed to the kernel and no further.
SyncForgotten(c) ==
    /\ pc[c] = "sync"
    /\ Goto(c, "rename")
    /\ UNCHANGED <<arg, temp, fsVars, disk, guest>>

Sync(c) ==
    /\ pc[c] = "sync"
    /\ temp' = [temp EXCEPT ![c].synced = TRUE]
    /\ Goto(c, "rename")
    /\ UNCHANGED <<arg, fsVars, disk, guest>>

Rename(c) ==
    /\ pc[c] = "rename"
    /\ ver' = temp[c]
    /\ Return(c)
    /\ UNCHANGED <<inst, disk, guest>>

\* Mutant of ConfigureFails: the error of the write is not looked at.
ConfigureIgnoresError(c) ==
    /\ pc[c] \in Configuring
    /\ IF pc[c] = "write"
         THEN /\ Goto(c, "rename")
              /\ UNCHANGED <<arg, temp>>
         ELSE Return(c)
    /\ UNCHANGED <<fsVars, disk, guest>>

\* Any of the steps fails: the verifier stays what it was.
ConfigureFails(c) ==
    /\ pc[c] \in Configuring
    /\ Return(c)
    /\ UNCHANGED <<fsVars, disk, guest>>

------------------------------------------------------------------------------
(* check_duress_and_wipe: matches, stop_guest, wipe_instances.             *)

\* There is a verifier to read; otherwise the answer is NO_MATCH.
CheckBegins(c, p) ==
    /\ ver # NoFile
    /\ Call(c, "read", p)
    /\ UNCHANGED <<temp, fsVars, disk, guest>>

Accept(c) ==
    /\ pc[c] = "read"
    /\ ver # NoFile /\ ver.value = arg[c]
    /\ Goto(c, "stop")
    /\ UNCHANGED <<arg, temp, fsVars, disk, guest>>

\* Another PIN, content that does not parse, a read that fails.
Refuse(c) ==
    /\ pc[c] = "read"
    /\ Return(c)
    /\ UNCHANGED <<fsVars, disk, guest>>

\* stop_guest is Ok; its payload may still be there
\* (GuestRuntime!WipeFindsGuestStopped).
GuestStopped(c) ==
    /\ pc[c] = "stop"
    /\ Goto(c, "scan")
    /\ guest' \in {FALSE, guest}
    /\ UNCHANGED <<arg, temp, fsVars, disk>>

StopFails(c) ==
    /\ pc[c] = "stop"
    /\ Return(c)
    /\ UNCHANGED <<fsVars, disk, guest>>

Scan(c) ==
    /\ pc[c] = "scan"
    /\ Goto(c, IF inst.dir THEN "remove" ELSE "forget")
    /\ UNCHANGED <<arg, temp, fsVars, disk, guest>>

\* remove_dir_all: the files one by one, ...
RemoveEntry(c, e) ==
    /\ pc[c] = "remove" /\ e \in inst.left
    /\ inst' = [inst EXCEPT !.left = @ \ {e}, !.cut = TRUE]
    /\ UNCHANGED <<callVars, ver, disk, guest>>

\* Mutant of RemoveDir: a directory that is not empty is taken for removed.
RemoveDirIgnored(c) ==
    /\ pc[c] = "remove"
    /\ inst' = IF inst.left = {} THEN NoInstances ELSE inst
    /\ Goto(c, "forget")
    /\ UNCHANGED <<arg, temp, ver, disk, guest>>

\* ... then the directory, when nothing was written to it since.
RemoveDir(c) ==
    /\ pc[c] = "remove" /\ inst.left = {}
    /\ inst' = NoInstances
    /\ Goto(c, "forget")
    /\ UNCHANGED <<arg, temp, ver, disk, guest>>

Forget(c) ==
    /\ pc[c] = "forget"
    /\ ver' = NoFile
    /\ Goto(c, "triggered")
    /\ UNCHANGED <<arg, temp, inst, disk, guest>>

\* Mutant of WipeFails: the verifier goes first, whatever becomes of the rest.
WipeForgetsFirst(c) ==
    /\ pc[c] \in {"scan", "remove", "forget"}
    /\ Return(c)
    /\ ver' = NoFile
    /\ UNCHANGED <<inst, disk, guest>>

\* A file cannot be removed, or the directory or the verifier cannot.
WipeFails(c) ==
    /\ pc[c] \in {"scan", "remove", "forget"}
    /\ Return(c)
    /\ UNCHANGED <<fsVars, disk, guest>>

\* DURESS_TRIGGERED.
Triggered(c) ==
    /\ pc[c] = "triggered"
    /\ Return(c)
    /\ UNCHANGED <<fsVars, disk, guest>>

------------------------------------------------------------------------------
(* The guest, as far as it touches the instances.                          *)

GuestStarts ==
    /\ ~guest
    /\ StartsMeanwhile \/ \A c \in Caller : pc[c] \notin Triggering
    /\ guest' = TRUE
    /\ inst' = [dir |-> TRUE, left |-> Entry, cut |-> inst.cut]
    /\ UNCHANGED <<callVars, ver, disk>>

GuestWrites(e) ==
    /\ guest /\ inst.dir /\ e \notin inst.left
    /\ inst' = [inst EXCEPT !.left = @ \cup {e}]
    /\ UNCHANGED <<callVars, ver, disk, guest>>

GuestEnds ==
    /\ guest /\ guest' = FALSE
    /\ UNCHANGED <<callVars, fsVars, disk>>

------------------------------------------------------------------------------
(* Faults.                                                                 *)

AllReturn ==
    /\ pc' = [c \in Caller |-> "idle"]
    /\ temp' = [c \in Caller |-> NoFile]
    /\ UNCHANGED arg

\* The application dies; what it did to the file system stays.
AppDies ==
    /\ AllReturn
    /\ UNCHANGED <<fsVars, disk, guest>>

\* The file system commits: changes reach the disk in the order they were made.
Commit ==
    /\ disk' = [ver |-> ver, inst |-> inst]
    /\ UNCHANGED <<callVars, fsVars, guest>>

\* A file not synced comes back whole or not.
PowerLoss ==
    /\ AllReturn
    /\ guest' = FALSE
    /\ inst' = disk.inst
    /\ \/ ver' = disk.ver
       \/ /\ disk.ver # NoFile /\ ~disk.ver.synced
          /\ ver' = [disk.ver EXCEPT !.value = Torn]
    /\ disk' = [ver |-> ver', inst |-> inst']

------------------------------------------------------------------------------
ConfigureStep(c) ==
    Open(c) \/ WriteAll(c) \/ Sync(c) \/ Rename(c) \/ ConfigureFails(c)

TriggerStep(c) ==
    \/ Accept(c) \/ Refuse(c) \/ GuestStopped(c) \/ StopFails(c)
    \/ Scan(c) \/ \E e \in Entry : RemoveEntry(c, e)
    \/ RemoveDir(c) \/ Forget(c) \/ WipeFails(c) \/ Triggered(c)

Next ==
    \/ \E c \in Caller :
        \/ \E p \in Pin : ConfigureBegins(c, p) \/ CheckBegins(c, p)
        \/ ConfigureStep(c) \/ TriggerStep(c)
    \/ GuestStarts \/ (\E e \in Entry : GuestWrites(e)) \/ GuestEnds
    \/ AppDies \/ Commit \/ PowerLoss

Spec == Init /\ [][Next]_vars

------------------------------------------------------------------------------
(* Safety.                                                                 *)

\* The types of all variables; a caller has a temporary file only between
\* create_new and rename.
TypeOK ==
    /\ pc \in [Caller -> {"idle"} \cup Configuring \cup Triggering]
    /\ arg \in [Caller -> Pin]
    /\ temp \in [Caller -> File \cup {NoFile}]
    /\ \A c \in Caller : temp[c] # NoFile <=> pc[c] \in Configuring \ {"open"}
    /\ ver \in File \cup {NoFile}
    /\ inst \in Instances
    /\ inst.cut \/ inst.left # {} => inst.dir
    /\ disk \in [ver : File \cup {NoFile}, inst : Instances]
    /\ guest \in BOOLEAN

\* Whenever configured() says so there is a complete verifier that matches()
\* can compare with, also after the application died or the power was lost in
\* the middle of configure, and while other callers configure.
VerifierIsWhole == ver # NoFile => ver.value \in Pin

\* "If deletion fails, the same Duress PIN can be used to retry"
\* (duress.rs:224): instances of which a part is gone never outlive the
\* verifier, through failures, deaths and power losses (unless a guest is
\* started during the trigger).
RetryKept == ~StartsMeanwhile /\ inst.cut => ver # NoFile

\* When the trigger reports success no instance is left, whatever a payload
\* that was not stopped in time wrote meanwhile.
TriggeredMeansGone ==
    ~StartsMeanwhile => \A c \in Caller : pc[c] = "triggered" => ~inst.dir
=============================================================================
