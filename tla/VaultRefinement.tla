--------------------------- MODULE VaultRefinement ---------------------------
(***************************************************************************)
(* DuressVault implements AbstractVault: the PIN is the one the verifier   *)
(* was made from, and instances are partly gone once a wipe has removed    *)
(* some of them.                                                           *)
(***************************************************************************)
EXTENDS DuressVault

PinOf(file) == IF file = NoFile THEN NoFile ELSE file.value

RestOf(i) == IF ~i.dir THEN "none" ELSE IF i.cut THEN "part" ELSE "whole"

Abs == INSTANCE AbstractVault
           WITH NoPin <- NoFile,
                pin   <- PinOf(ver),
                rest  <- RestOf(inst),
                saved <- [pin |-> PinOf(disk.ver), rest |-> RestOf(disk.inst)]

\* Through concurrent callers, failures, deaths and power losses the vault
\* behaves as the atomic one: the verifier is that of the old PIN or of the new
\* one, is forgotten only when nothing is left of the instances (duress.rs:224),
\* and a power loss brings back both as they were at one earlier moment.
ImplementsVault == Abs!Spec
------------------------------------------------------------------------------
(* The invariant behind it.                                                *)

\* A file that has reached the end of configure is complete and on the disk.
FileReady ==
    \A c \in Caller :
        /\ pc[c] = "sync" => temp[c].value = arg[c]
        /\ pc[c] = "rename" => temp[c].value \in Pin /\ temp[c].synced

Whole(file) == file # NoFile => file.value \in Pin /\ file.synced

\* The verifier is complete, now and after a power loss.
VerifiersWhole == Whole(ver) /\ Whole(disk.ver)

\* A wipe under way has a verifier to be repeated with as long as there are
\* instances, and is past them only when there are none.
WipeUnderWay ==
    \A c \in Caller :
        /\ pc[c] \in {"stop", "scan", "remove"} /\ inst.dir => ver # NoFile
        /\ pc[c] \in {"forget", "triggered"} => ~inst.dir

CutKept ==
    /\ inst.cut => ver # NoFile
    /\ disk.inst.cut => disk.ver # NoFile

DiskInstances == disk.inst.cut \/ disk.inst.left # {} => disk.inst.dir

VaultInv ==
    /\ TypeOK /\ DiskInstances
    /\ FileReady /\ VerifiersWhole
    /\ ~StartsMeanwhile => WipeUnderWay /\ CutKept
=============================================================================
