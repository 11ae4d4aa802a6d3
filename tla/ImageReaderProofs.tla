-------------------------- MODULE ImageReaderProofs --------------------------
(***************************************************************************)
(* Proofs about the image reader, for images, buffers and headers of any   *)
(* length, any descriptors and any other threads.  ReaderInv is its        *)
(* inductive invariant: each place of a call knows which descriptors it    *)
(* has, and while it reads the data are what lies before the offset.       *)
(***************************************************************************)
EXTENDS ImageReader, SequenceTheorems, TLAPS

\* The descriptors by place; the two are never the same.
FdByPlace ==
    /\ fd = None <=> pc = "idle"
    /\ duplicated_fd = None <=> pc \notin {"read", "drop"}
    /\ fd # None => fd # duplicated_fd

\* The loop has taken what lies before the offset.
ReadSoFar ==
    /\ pc \in {"dup", "read"} => outcome = "none"
    /\ pc = "dup" => offset = 0 /\ data = <<>>
    /\ pc = "read" => data = SubSeq(file, 1, offset) /\ (want = "header" => offset = 0)
    /\ pc # "idle" => want \in {"hash", "header"}

ReaderInv == TypeOK /\ OwnersOnly /\ FdByPlace /\ ReadSoFar /\ ResultIsTrue

USE ReaderAssumption DEF ReaderAssumption, None, Free, Image

------------------------------------------------------------------------------
\* Images are the short sequences.
LEMMA ImageIsSeq == \A s : s \in Images <=> s \in Seq(Byte) /\ Len(s) <= MaxLen
  <1>1. ASSUME NEW s \in Images PROVE s \in Seq(Byte) /\ Len(s) <= MaxLen
    BY <1>1 DEF Images
  <1>2. ASSUME NEW s \in Seq(Byte), Len(s) <= MaxLen PROVE s \in Images
    <2>1. Len(s) \in 0 .. MaxLen /\ s \in [1 .. Len(s) -> Byte] BY <1>2, LenProperties
    <2> QED BY <2>1 DEF Images
  <1> QED BY <1>1, <1>2

\* The empty one is.
LEMMA NoImage == <<>> \in Images
  <1>1. <<>> \in Seq(Byte) /\ Len(<<>>) = 0 OBVIOUS
  <1>2. Len(<<>>) <= MaxLen BY <1>1
  <1> QED BY <1>1, <1>2, ImageIsSeq

\* One more piece continues what has been read.
LEMMA Piece ==
  ASSUME NEW s \in Images, NEW m \in 0 .. Len(s), NEW n \in 0 .. (Len(s) - m)
  PROVE  /\ SubSeq(s, 1, m) \o SubSeq(s, m + 1, m + n) = SubSeq(s, 1, m + n)
         /\ SubSeq(s, 1, m + n) \in Images /\ Len(SubSeq(s, 1, m + n)) = m + n
  <1>1. s \in Seq(Byte) /\ Len(s) <= MaxLen /\ Len(s) \in Nat BY ImageIsSeq
  <1>2. SubSeq(s, 1, m) \o SubSeq(s, m + 1, m + n) = SubSeq(s, 1, m + n)
    BY <1>1, ConcatAdjacentSubSeq, m + n \in 1 - 1 .. Len(s)
  <1>3. SubSeq(s, 1, m + n) \in Seq(Byte) /\ Len(SubSeq(s, 1, m + n)) = m + n
    BY <1>1
  <1>4. Len(SubSeq(s, 1, m + n)) <= MaxLen BY <1>1, <1>3
  <1>5. SubSeq(s, 1, m + n) \in Images BY <1>3, <1>4, ImageIsSeq
  <1> QED BY <1>2, <1>3, <1>5

\* Nothing read yet.
LEMMA NothingRead == ASSUME NEW s \in Images PROVE SubSeq(s, 1, 0) = <<>>
  BY ImageIsSeq, SubSeqEmpty

\* The initial state.
LEMMA ReaderInit == Init => ReaderInv
  BY NoImage DEF Init, ReaderInv, TypeOK, OwnersOnly, FdByPlace, ReadSoFar, ResultIsTrue

\* A step of a call that reads nothing.
LEMMA CallKeeps ==
  ASSUME ReaderInv, Open \/ Duplicate \/ DuplicateFails \/ ReadFails \/ DropFile \/ Close
  PROVE  ReaderInv'
  <1> USE DEF ReaderInv, TypeOK, OwnersOnly, FdByPlace, ReadSoFar, None, Opens, Lowest, Closes,
              image, fds
  <1>1. CASE Open
    <2>1. file' \in Images /\ Len(file') \in Nat BY <1>1, ImageIsSeq DEF Open
    <2> QED BY <1>1, <2>1, NoImage DEF Open, ResultIsTrue
  <1>2. CASE Duplicate
    <2>1. SubSeq(file, 1, 0) = <<>> BY NothingRead
    <2> QED BY <1>2, <2>1 DEF Duplicate, ResultIsTrue
  <1>3. CASE DuplicateFails BY <1>3 DEF DuplicateFails, ResultIsTrue
  <1>4. CASE ReadFails BY <1>4 DEF ReadFails, ResultIsTrue
  <1>5. CASE DropFile BY <1>5 DEF DropFile, ResultIsTrue
  <1>6. CASE Close BY <1>6 DEF Close, ResultIsTrue
  <1> QED BY <1>1, <1>2, <1>3, <1>4, <1>5, <1>6

\* A read.
LEMMA ReadKeeps ==
  ASSUME ReaderInv, Read
  PROVE  ReaderInv'
  <1>1. PICK n \in 0 .. Rest :
          /\ n <= Asked /\ (n = 0 => Rest = 0 \/ Asked = 0)
          /\ data' = data \o SubSeq(file, offset + 1, offset + n)
          /\ offset' = offset + n
          /\ IF n = 0 \/ want = "header"
               THEN pc' = "drop" /\ outcome' = "done"
               ELSE UNCHANGED <<pc, outcome>>
    BY DEF Read
  <1>2. /\ pc = "read" /\ file \in Images /\ offset \in 0 .. Len(file)
        /\ data = SubSeq(file, 1, offset) /\ (want = "header" => offset = 0)
        /\ want \in {"hash", "header"}
        /\ Rest = Len(file) - offset /\ Len(file) \in Nat
    BY ImageIsSeq DEF Read, ReaderInv, TypeOK, ReadSoFar, Rest
  <1>3. /\ data' = SubSeq(file, 1, offset + n)
        /\ data' \in Images /\ Len(data') = offset + n /\ offset + n \in 0 .. Len(file)
    <2>1. n \in 0 .. (Len(file) - offset) /\ offset + n \in 0 .. Len(file) BY <1>1, <1>2
    <2>2. data' = SubSeq(file, 1, offset) \o SubSeq(file, offset + 1, offset + n)
      BY <1>1, <1>2
    <2> QED BY <1>2, <2>1, <2>2, Piece
  <1>4. UNCHANGED <<table, held, file, want, fd, duplicated_fd>> BY DEF Read, fds
  <1>5. TypeOK' BY <1>1, <1>2, <1>3, <1>4 DEF ReaderInv, TypeOK
  <1>6. OwnersOnly' /\ FdByPlace' BY <1>1, <1>2, <1>4 DEF ReaderInv, OwnersOnly, FdByPlace
  <1>7. ReadSoFar' BY <1>1, <1>2, <1>3, <1>4 DEF ReaderInv, ReadSoFar
  <1>8. ResultIsTrue'
    <2>1. CASE want = "header"
      BY <1>1, <1>2, <1>3, <1>4, <2>1 DEF ResultIsTrue, Asked
    <2>2. CASE want = "hash" /\ n = 0
      <3>1. offset + n = Len(file) BY <1>1, <1>2, <2>2 DEF Asked
      <3>2. data' = file BY <1>2, <1>3, <3>1, ImageIsSeq, SubSeqFull
      <3> QED BY <1>4, <2>2, <3>2 DEF ResultIsTrue
    <2>3. CASE want = "hash" /\ n # 0
      BY <1>1, <1>2, <2>3 DEF ResultIsTrue, ReaderInv, ReadSoFar
    <2> QED BY <1>2, <2>1, <2>2, <2>3
  <1> QED BY <1>5, <1>6, <1>7, <1>8 DEF ReaderInv

\* A step of another thread.
LEMMA OtherKeeps ==
  ASSUME ReaderInv, NEW o \in Other, OtherOpens(o) \/ OtherCloses(o)
  PROVE  ReaderInv'
  <1> USE DEF ReaderInv, TypeOK, OwnersOnly, FdByPlace, ReadSoFar, ResultIsTrue, None, Opens,
              Lowest, Closes, image, fds
  <1>1. CASE OtherOpens(o) BY <1>1 DEF OtherOpens
  <1>2. CASE OtherCloses(o) BY <1>2 DEF OtherCloses
  <1> QED BY <1>1, <1>2

\* ReaderInv holds in every reachable state.
THEOREM ReaderInvariance == Spec => []ReaderInv
  <1>1. ASSUME ReaderInv, [Next]_vars PROVE ReaderInv'
    <2>1. CASE UNCHANGED vars
      BY <1>1, <2>1 DEF vars, image, fds, ReaderInv, TypeOK, OwnersOnly, FdByPlace, ReadSoFar,
         ResultIsTrue
    <2> QED BY <1>1, <2>1, CallKeeps, ReadKeeps, OtherKeeps DEF Next, MainStep
  <1> QED BY ReaderInit, <1>1, PTL DEF Spec

------------------------------------------------------------------------------
\* All variables keep their types, and no more is read than there is.
THEOREM ReaderTypes == Spec => []TypeOK
  <1>1. ReaderInv => TypeOK BY DEF ReaderInv
  <1> QED BY ReaderInvariance, <1>1, PTL

\* Descriptors are closed by their owners only, once, on every path.
THEOREM DescriptorsOwned == Spec => []OwnersOnly
  <1>1. ReaderInv => OwnersOnly BY DEF ReaderInv
  <1> QED BY ReaderInvariance, <1>1, PTL

\* A hash that is returned is that of the whole image, whatever the pieces.
THEOREM HashOfWhole == Spec => []ResultIsTrue
  <1>1. ReaderInv => ResultIsTrue BY DEF ReaderInv
  <1> QED BY ReaderInvariance, <1>1, PTL
=============================================================================
