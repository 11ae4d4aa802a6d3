----------------------------- MODULE ImageReader -----------------------------
(***************************************************************************)
(* Hashing an image and reading its header (image.rs, lib.rs sha256Fd and  *)
(* readHeader, ImageManager.getImageInfo, RustBridge.checkedFd).  Kotlin   *)
(* opens the descriptor and closes it (use); Rust works on a duplicate     *)
(* that a File owns and closes, and reads through it in bounded pieces.    *)
(* Both happen on the main thread, one after the other, while the other    *)
(* threads of the process open and close descriptors of theirs: a number   *)
(* that is free is soon used again.                                        *)
(***************************************************************************)
EXTENDS Integers, Sequences

CONSTANTS
    Byte,            \* what an image is made of
    MaxLen,          \* bound on its length
    BufferLen,       \* the buffer of sha256_reader, one megabyte
    HeaderLen,       \* the length readHeader asks for, 64
    Fd,              \* descriptor numbers
    Other            \* other threads, each with one descriptor at a time

None == -1
Free == "free"
Image == "image"

ASSUME ReaderAssumption ==
    /\ MaxLen \in Nat /\ BufferLen \in Nat \ {0} /\ HeaderLen \in Nat
    /\ Fd \subseteq Nat
    /\ Free \notin Other /\ Image \notin Other

VARIABLES
    table,         \* whose each descriptor is
    held,          \* the number each other thread thinks is its own
    file,          \* the image, and how far the open file has been read; the
    offset,        \*   duplicate shares this with the original
    pc, want,      \* where the main thread is, and in which call
    fd,            \* the descriptor of the ParcelFileDescriptor
    duplicated_fd, \* the one the File owns
    data,          \* what has been hashed, or the header
    outcome        \* whether the call returns it; "null" if it fails

image == <<file, offset>>
fds == <<fd, duplicated_fd>>
vars == <<table, held, image, pc, want, fds, data, outcome>>

Images == UNION {[1 .. n -> Byte] : n \in 0 .. MaxLen}

Init ==
    /\ table = [f \in Fd |-> Free] /\ held = [o \in Other |-> None]
    /\ file = <<>> /\ offset = 0
    /\ pc = "idle" /\ want = "none"
    /\ fd = None /\ duplicated_fd = None
    /\ data = <<>> /\ outcome = "none"

\* open and dup take the lowest free number.
Lowest(f) == table[f] = Free /\ \A g \in Fd : table[g] = Free => f <= g
Opens(f, whose) == Lowest(f) /\ table' = [table EXCEPT ![f] = whose]
Closes(f) == table' = [table EXCEPT ![f] = Free]

------------------------------------------------------------------------------
\* openFileDescriptor; checkedFd finds its number valid.
Open ==
    /\ pc = "idle"
    /\ \E f \in Fd : Opens(f, Image) /\ fd' = f
    /\ file' \in Images /\ offset' = 0
    /\ want' \in {"hash", "header"}
    /\ data' = <<>> /\ outcome' = "none"
    /\ pc' = "dup"
    /\ UNCHANGED <<held, duplicated_fd>>

\* Mutant of Duplicate: the descriptor itself is made a File.
BorrowedAsOwned ==
    /\ pc = "dup"
    /\ duplicated_fd' = fd
    /\ pc' = "read"
    /\ UNCHANGED <<table, held, image, want, fd, data, outcome>>

\* duplicate_file.
Duplicate ==
    /\ pc = "dup"
    /\ \E f \in Fd : Opens(f, Image) /\ duplicated_fd' = f
    /\ pc' = "read"
    /\ UNCHANGED <<held, image, want, fd, data, outcome>>

\* Mutant of DuplicateFails: -1 is taken for a descriptor.
DuplicateUnchecked ==
    /\ pc = "dup"
    /\ pc' = "read"
    /\ UNCHANGED <<table, held, image, want, fds, data, outcome>>

DuplicateFails ==
    /\ pc = "dup"
    /\ outcome' = "null"
    /\ pc' = "close"
    /\ UNCHANGED <<table, held, image, want, fds, data>>

\* What one read may be asked for.
Asked == IF want = "hash" THEN BufferLen ELSE HeaderLen
Rest == Len(file) - offset

\* Mutant of Read: a piece shorter than the buffer is taken for the last.
ReadStopsShort ==
    /\ pc = "read"
    /\ \E n \in 0 .. Rest :
        /\ n <= Asked /\ (n = 0 => Rest = 0 \/ Asked = 0)
        /\ data' = data \o SubSeq(file, offset + 1, offset + n)
        /\ offset' = offset + n
        /\ IF n < Asked \/ want = "header"
             THEN pc' = "drop" /\ outcome' = "done"
             ELSE UNCHANGED <<pc, outcome>>
    /\ UNCHANGED <<table, held, file, want, fds>>

\* Mutant of Read: a read of nothing does not end the loop.
ReadWithoutEnd ==
    /\ pc = "read"
    /\ \E n \in 0 .. Rest :
        /\ n <= Asked /\ (n = 0 => Rest = 0 \/ Asked = 0)
        /\ data' = data \o SubSeq(file, offset + 1, offset + n)
        /\ offset' = offset + n
        /\ IF want = "header" THEN pc' = "drop" /\ outcome' = "done" ELSE UNCHANGED <<pc, outcome>>
    /\ UNCHANGED <<table, held, file, want, fds>>

\* A read returns at least a byte while there is one; a hash goes on until it
\* returns none, a header takes what the first read returns.
Read ==
    /\ pc = "read"
    /\ \E n \in 0 .. Rest :
        /\ n <= Asked /\ (n = 0 => Rest = 0 \/ Asked = 0)
        /\ data' = data \o SubSeq(file, offset + 1, offset + n)
        /\ offset' = offset + n
        /\ IF n = 0 \/ want = "header"
             THEN pc' = "drop" /\ outcome' = "done"
             ELSE UNCHANGED <<pc, outcome>>
    /\ UNCHANGED <<table, held, file, want, fds>>

\* An interrupted read is an error too.
ReadFails ==
    /\ pc = "read"
    /\ outcome' = "null"
    /\ pc' = "drop"
    /\ UNCHANGED <<table, held, image, want, fds, data>>

\* The File goes out of scope.
DropFile ==
    /\ pc = "drop"
    /\ Closes(duplicated_fd)
    /\ duplicated_fd' = None
    /\ pc' = "close"
    /\ UNCHANGED <<held, image, want, fd, data, outcome>>

\* The end of use { }, whether sha256 or readHeader throws or not.
Close ==
    /\ pc = "close"
    /\ Closes(fd)
    /\ fd' = None
    /\ pc' = "idle"
    /\ UNCHANGED <<held, image, want, duplicated_fd, data, outcome>>

------------------------------------------------------------------------------
(* The other threads.                                                      *)

OtherOpens(o) ==
    /\ held[o] = None
    /\ \E f \in Fd : Opens(f, o) /\ held' = [held EXCEPT ![o] = f]
    /\ UNCHANGED <<image, pc, want, fds, data, outcome>>

OtherCloses(o) ==
    /\ held[o] # None
    /\ Closes(held[o])
    /\ held' = [held EXCEPT ![o] = None]
    /\ UNCHANGED <<image, pc, want, fds, data, outcome>>

------------------------------------------------------------------------------
MainStep == Duplicate \/ DuplicateFails \/ Read \/ ReadFails \/ DropFile \/ Close

Next == Open \/ MainStep \/ \E o \in Other : OtherOpens(o) \/ OtherCloses(o)

Spec == Init /\ [][Next]_vars

\* The main thread goes on once it is in a call; a read need not fail.
FairSpec ==
    Spec /\ WF_vars(Duplicate \/ DuplicateFails \/ Read \/ DropFile \/ Close)

------------------------------------------------------------------------------
(* Safety.                                                                 *)

\* The types of all variables; no more is read than there is.
TypeOK ==
    /\ table \in [Fd -> Other \cup {Free, Image}]
    /\ held \in [Other -> Fd \cup {None}]
    /\ file \in Images /\ offset \in 0 .. Len(file)
    /\ pc \in {"idle", "dup", "read", "drop", "close"}
    /\ want \in {"none", "hash", "header"}
    /\ fd \in Fd \cup {None} /\ duplicated_fd \in Fd \cup {None}
    /\ pc \in {"read", "drop"} => duplicated_fd # None
    /\ data \in Images /\ outcome \in {"none", "done", "null"}

\* A descriptor is closed by nobody but its owner, exactly once on every path
\* ("Callers that need to keep their original descriptor must dup() it first",
\* image.rs:96): no number the main thread closes has passed to another thread
\* by then, and when a call is over it has left nothing open.
OwnersOnly ==
    /\ \A o \in Other : held[o] # None => table[held[o]] = o
    /\ {f \in Fd : table[f] = Image} = {fd, duplicated_fd} \ {None}

\* However the file comes in pieces, a hash that is returned is that of the
\* whole of it, in order, and a header is the beginning of it.
ResultIsTrue ==
    outcome = "done" =>
        /\ want = "hash" => data = file
        /\ want = "header" => data = SubSeq(file, 1, Len(data)) /\ Len(data) <= HeaderLen

------------------------------------------------------------------------------
\* A call ends, whatever pieces it reads: the loop has no other end than a read
\* of nothing or an error.
ReadingEnds == pc = "dup" ~> pc = "idle"
=============================================================================
