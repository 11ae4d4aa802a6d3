-------------------------- MODULE DuressVaultProofs --------------------------
(***************************************************************************)
(* Proofs about the duress vault, for any callers, PINs and files: its     *)
(* inductive invariant VaultInv, what follows from it, and that it         *)
(* implements AbstractVault when no guest is started during a trigger.     *)
(***************************************************************************)
EXTENDS VaultRefinement, TLAPS

USE VaultAssumption DEF VaultAssumption

\* The initial state.
LEMMA VaultInit == Init => VaultInv
  <1> SUFFICES ASSUME Init PROVE VaultInv OBVIOUS
  <1>1. NoInstances \in Instances BY DEF NoInstances, Instances
  <1>2. TypeOK
    BY <1>1 DEF Init, TypeOK, NoInstances, Configuring
  <1>3. DiskInstances /\ VerifiersWhole /\ CutKept
    BY DEF Init, NoInstances, DiskInstances, VerifiersWhole, Whole, CutKept
  <1>4. FileReady /\ WipeUnderWay BY DEF Init, FileReady, WipeUnderWay
  <1> QED BY <1>2, <1>3, <1>4 DEF VaultInv

\* The steps of configure up to the rename touch their temporary file only.
LEMMA TempStep ==
  ASSUME VaultInv, TypeOK', FileReady', UNCHANGED <<fsVars, disk>>,
         WipeUnderWay => WipeUnderWay'
  PROVE  VaultInv'
  <1>1. DiskInstances' /\ VerifiersWhole' /\ (CutKept => CutKept')
    BY DEF VaultInv, DiskInstances, VerifiersWhole, Whole, CutKept, fsVars
  <1> QED BY <1>1 DEF VaultInv

\* A new file is not the absence of one.
LEMMA EmptyFile ==
  /\ [value |-> Torn, synced |-> FALSE] \in File
  /\ [value |-> Torn, synced |-> FALSE] # NoFile
  <1>1. [value |-> Torn, synced |-> FALSE] \in File BY DEF File
  <1>2. [value |-> Torn, synced |-> FALSE] # NoFile BY <1>1 DEF File
  <1> QED BY <1>1, <1>2

\* Every step of configure.
LEMMA ConfigureKeeps ==
  ASSUME VaultInv, NEW c \in Caller,
         ConfigureStep(c) \/ \E p \in Pin : ConfigureBegins(c, p)
  PROVE  VaultInv'
  <1>0. TypeOK /\ FileReady BY DEF VaultInv
  <1> USE DEF TypeOK, FileReady, Configuring, Triggering, Wiping, Goto, Call, Return, fsVars
  <1>1. ASSUME NEW p \in Pin, ConfigureBegins(c, p) PROVE VaultInv'
    <2>1. TypeOK' BY <1>0, <1>1 DEF ConfigureBegins
    <2>2. FileReady' BY <1>0, <1>1 DEF ConfigureBegins
    <2>3. WipeUnderWay => WipeUnderWay' BY <1>0, <1>1 DEF ConfigureBegins, WipeUnderWay
    <2> QED BY <1>1, <2>1, <2>2, <2>3, TempStep DEF ConfigureBegins
  <1>2. CASE Open(c)
    <2>1. TypeOK' BY <1>0, <1>2, EmptyFile DEF Open
    <2>2. FileReady' BY <1>0, <1>2 DEF Open
    <2>3. WipeUnderWay => WipeUnderWay' BY <1>0, <1>2 DEF Open, WipeUnderWay
    <2> QED BY <1>2, <2>1, <2>2, <2>3, TempStep DEF Open
  <1>3. CASE WriteAll(c)
    <2>1. temp[c] \in File /\ temp'[c] = [temp[c] EXCEPT !.value = arg[c]]
      BY <1>0, <1>3 DEF WriteAll
    <2>2. temp'[c] \in File /\ temp'[c] # NoFile /\ temp'[c].value = arg[c]
      BY <1>0, <2>1 DEF File
    <2>3. TypeOK' BY <1>0, <1>3, <2>2 DEF WriteAll
    <2>4. FileReady' BY <1>0, <1>3, <2>2 DEF WriteAll
    <2>5. WipeUnderWay => WipeUnderWay' BY <1>0, <1>3 DEF WriteAll, WipeUnderWay
    <2> QED BY <1>3, <2>3, <2>4, <2>5, TempStep DEF WriteAll
  <1>4. CASE Sync(c)
    <2>1. temp[c] \in File /\ temp'[c] = [temp[c] EXCEPT !.synced = TRUE]
      BY <1>0, <1>4 DEF Sync
    <2>2. /\ temp'[c] \in File /\ temp'[c] # NoFile
          /\ temp'[c].value = arg[c] /\ temp'[c].synced
      BY <1>0, <1>4, <2>1 DEF File, Sync
    <2>3. TypeOK' BY <1>0, <1>4, <2>2 DEF Sync
    <2>4. FileReady' BY <1>0, <1>4, <2>2 DEF Sync
    <2>5. WipeUnderWay => WipeUnderWay' BY <1>0, <1>4 DEF Sync, WipeUnderWay
    <2> QED BY <1>4, <2>3, <2>4, <2>5, TempStep DEF Sync
  <1>5. CASE Rename(c)
    <2>1. temp[c] \in File /\ temp[c] # NoFile /\ Whole(temp[c])
      BY <1>0, <1>5 DEF Rename, Whole
    <2>2. TypeOK' BY <1>0, <1>5, <2>1 DEF Rename
    <2>3. FileReady' BY <1>0, <1>5 DEF Rename
    <2>4. DiskInstances' /\ VerifiersWhole'
      BY <1>5, <2>1 DEF Rename, VaultInv, DiskInstances, VerifiersWhole, Whole
    <2>5. WipeUnderWay /\ CutKept => WipeUnderWay' /\ CutKept'
      BY <1>0, <1>5, <2>1 DEF Rename, WipeUnderWay, CutKept
    <2> HIDE DEF TypeOK, FileReady
    <2> QED BY <2>2, <2>3, <2>4, <2>5 DEF VaultInv
  <1>6. CASE ConfigureFails(c)
    <2>1. TypeOK' BY <1>0, <1>6 DEF ConfigureFails
    <2>2. FileReady' BY <1>0, <1>6 DEF ConfigureFails
    <2>3. WipeUnderWay => WipeUnderWay' BY <1>0, <1>6 DEF ConfigureFails, WipeUnderWay
    <2> QED BY <1>6, <2>1, <2>2, <2>3, TempStep DEF ConfigureFails
  <1> QED BY <1>1, <1>2, <1>3, <1>4, <1>5, <1>6 DEF ConfigureStep

\* Every step of the trigger.
LEMMA TriggerKeeps ==
  ASSUME VaultInv, NEW c \in Caller,
         TriggerStep(c) \/ \E p \in Pin : CheckBegins(c, p)
  PROVE  VaultInv'
  <1> USE DEF VaultInv, TypeOK, File, Instances, DiskInstances, FileReady,
              VerifiersWhole, Whole, WipeUnderWay, CutKept, Configuring, Triggering, Wiping,
              Goto, Call, Return, fsVars, callVars
  <1>1. CASE \E p \in Pin : CheckBegins(c, p) BY <1>1 DEF CheckBegins
  <1>2. CASE Accept(c) BY <1>2 DEF Accept
  <1>3. CASE Refuse(c) BY <1>3 DEF Refuse
  <1>4. CASE GuestStopped(c) BY <1>4 DEF GuestStopped
  <1>5. CASE StopFails(c) BY <1>5 DEF StopFails
  <1>6. CASE Scan(c) BY <1>6 DEF Scan
  <1>7. ASSUME NEW e \in Entry, RemoveEntry(c, e) PROVE VaultInv'
    BY <1>7 DEF RemoveEntry
  <1>8. CASE RemoveDir(c) BY <1>8 DEF RemoveDir, NoInstances
  <1>9. CASE Forget(c) BY <1>9 DEF Forget
  <1>10. CASE WipeFails(c) BY <1>10 DEF WipeFails
  <1>11. CASE Triggered(c) BY <1>11 DEF Triggered
  <1> QED BY <1>1, <1>2, <1>3, <1>4, <1>5, <1>6, <1>7, <1>8, <1>9, <1>10, <1>11
          DEF TriggerStep

\* The guest and the faults.
LEMMA WorldKeeps ==
  ASSUME VaultInv,
         GuestStarts \/ (\E e \in Entry : GuestWrites(e)) \/ GuestEnds
           \/ AppDies \/ Commit \/ PowerLoss
  PROVE  VaultInv'
  <1> USE DEF VaultInv, TypeOK, File, Instances, DiskInstances, FileReady,
              VerifiersWhole, Whole, WipeUnderWay, CutKept, Configuring, Triggering, Wiping,
              AllReturn, fsVars, callVars
  <1>1. CASE GuestStarts BY <1>1 DEF GuestStarts
  <1>2. ASSUME NEW e \in Entry, GuestWrites(e) PROVE VaultInv' BY <1>2 DEF GuestWrites
  <1>3. CASE GuestEnds BY <1>3 DEF GuestEnds
  <1>4. CASE AppDies BY <1>4 DEF AppDies
  <1>5. CASE Commit BY <1>5 DEF Commit
  <1>6. CASE PowerLoss BY <1>6 DEF PowerLoss
  <1> QED BY <1>1, <1>2, <1>3, <1>4, <1>5, <1>6

\* Every step keeps the invariant.
LEMMA VaultNext == VaultInv /\ [Next]_vars => VaultInv'
  <1> SUFFICES ASSUME VaultInv, [Next]_vars PROVE VaultInv' OBVIOUS
  <1>1. CASE Next BY <1>1, ConfigureKeeps, TriggerKeeps, WorldKeeps DEF Next
  <1>2. CASE UNCHANGED vars
    BY <1>2 DEF vars, callVars, fsVars, VaultInv, TypeOK, DiskInstances, FileReady,
                VerifiersWhole, Whole, WipeUnderWay, CutKept
  <1> QED BY <1>1, <1>2

\* The invariant of the vault holds in every reachable state.
THEOREM VaultInvariance == Spec => []VaultInv
  <1>1. Init => VaultInv BY VaultInit
  <1>2. VaultInv /\ [Next]_vars => VaultInv' BY VaultNext
  <1> QED BY <1>1, <1>2, PTL DEF Spec

\* Types are kept (duress.rs:142-235).
THEOREM VaultTypes == Spec => []TypeOK
  <1>1. VaultInv => TypeOK BY DEF VaultInv
  <1> QED BY <1>1, VaultInvariance, PTL

\* The verifier is always complete (duress.rs:74-101, 163-168).
THEOREM AlwaysWhole == Spec => []VerifierIsWhole
  <1>1. VaultInv => VerifierIsWhole BY DEF VaultInv, VerifiersWhole, Whole, VerifierIsWhole
  <1> QED BY <1>1, VaultInvariance, PTL

\* A wipe cut short can be repeated (duress.rs:224-229).
THEOREM RetryAlwaysKept == Spec => []RetryKept
  <1>1. VaultInv => RetryKept BY DEF VaultInv, CutKept, RetryKept
  <1> QED BY <1>1, VaultInvariance, PTL

\* Success means that nothing is left (lib.rs:668).
THEOREM TriggeredGone == Spec => []TriggeredMeansGone
  <1>1. VaultInv => TriggeredMeansGone BY DEF VaultInv, WipeUnderWay, TriggeredMeansGone
  <1> QED BY <1>1, VaultInvariance, PTL

------------------------------------------------------------------------------
(* Refinement.                                                             *)

\* The initial state maps to that of AbstractVault.
LEMMA VaultInitMaps == Init => Abs!Init
  BY DEF Init, Abs!Init, Abs!State, PinOf, RestOf, NoInstances

\* What does not touch verifier, instances and disk is a stutter.
LEMMA VaultStutter == UNCHANGED <<fsVars, disk>> => UNCHANGED Abs!vars
  BY DEF fsVars, Abs!vars, PinOf, RestOf

\* Every step maps to a step of AbstractVault or to a stutter.
LEMMA VaultStepMaps ==
  ASSUME ~StartsMeanwhile, VaultInv, VaultInv', [Next]_vars
  PROVE  [Abs!Next]_(Abs!vars)
  <1> USE DEF Abs!Next, Abs!vars, Abs!State
  <1>0. CASE UNCHANGED vars BY <1>0, VaultStutter DEF vars
  <1>1. ASSUME NEW c \in Caller, Rename(c) PROVE Abs!Next
    <2>1. temp[c].value \in Pin /\ temp[c] # NoFile
      BY <1>1 DEF Rename, VaultInv, FileReady, TypeOK, Configuring
    <2>2. Abs!Configure(temp[c].value)
      BY <1>1, <2>1 DEF Rename, Abs!Configure, PinOf
    <2> QED BY <2>1, <2>2
  <1>2. ASSUME NEW c \in Caller, NEW e \in Entry, RemoveEntry(c, e) PROVE Abs!Next
    <2>1. inst.dir /\ ver # NoFile /\ ver.value \in Pin
      BY <1>2 DEF RemoveEntry, VaultInv, TypeOK, WipeUnderWay, VerifiersWhole, Whole
    <2>2. inst'.dir /\ inst'.cut
      BY <1>2, <2>1 DEF RemoveEntry, VaultInv, TypeOK, Instances
    <2>3. Abs!Remove
      BY <1>2, <2>1, <2>2 DEF RemoveEntry, Abs!Remove, PinOf, RestOf
    <2> QED BY <2>3
  <1>3. ASSUME NEW c \in Caller, RemoveDir(c) PROVE Abs!Next \/ UNCHANGED Abs!vars
    <2>1. inst.dir => ver # NoFile /\ ver.value \in Pin
      BY <1>3 DEF RemoveDir, VaultInv, WipeUnderWay, VerifiersWhole, Whole
    <2>2. CASE inst.dir
      <3>1. Abs!Remove BY <1>3, <2>1, <2>2 DEF RemoveDir, Abs!Remove, PinOf, RestOf, NoInstances
      <3> QED BY <3>1
    <2>3. CASE ~inst.dir BY <1>3, <2>3 DEF RemoveDir, RestOf, NoInstances
    <2> QED BY <2>2, <2>3
  <1>4. ASSUME NEW c \in Caller, Forget(c) PROVE Abs!Next
    <2>1. ~inst.dir BY <1>4 DEF Forget, VaultInv, WipeUnderWay
    <2>2. Abs!Forget BY <1>4, <2>1 DEF Forget, Abs!Forget, PinOf, RestOf
    <2> QED BY <2>2
  <1>5. CASE GuestStarts
    <2>1. ~inst.dir => ~inst.cut BY DEF VaultInv, TypeOK, Instances
    <2>2. CASE inst.dir BY <1>5, <2>2 DEF GuestStarts, RestOf
    <2>3. CASE ~inst.dir
      <3>1. Abs!Make BY <1>5, <2>1, <2>3 DEF GuestStarts, Abs!Make, RestOf
      <3> QED BY <3>1
    <2> QED BY <2>2, <2>3
  <1>6. ASSUME NEW e \in Entry, GuestWrites(e) PROVE UNCHANGED Abs!vars
    <2>1. inst'.dir = inst.dir /\ inst'.cut = inst.cut
      BY <1>6 DEF GuestWrites, VaultInv, TypeOK, Instances
    <2> QED BY <1>6, <2>1 DEF GuestWrites, RestOf
  <1>7. CASE Commit
    <2>1. Abs!Save BY <1>7 DEF Commit, fsVars, Abs!Save
    <2> QED BY <2>1
  <1>8. CASE PowerLoss
    <2>1. ver' = disk.ver
      BY <1>8 DEF PowerLoss, VaultInv, VerifiersWhole, Whole
    <2>2. Abs!PowerLoss
      BY <1>8, <2>1 DEF PowerLoss, Abs!PowerLoss
    <2> QED BY <2>2
  <1>9. ASSUME NEW c \in Caller,
               \/ \E p \in Pin : ConfigureBegins(c, p) \/ CheckBegins(c, p)
               \/ Open(c) \/ WriteAll(c) \/ Sync(c) \/ ConfigureFails(c)
               \/ Accept(c) \/ Refuse(c) \/ GuestStopped(c) \/ StopFails(c)
               \/ Scan(c) \/ WipeFails(c) \/ Triggered(c)
        PROVE  UNCHANGED Abs!vars
    <2>1. UNCHANGED <<fsVars, disk>>
      BY <1>9 DEF ConfigureBegins, CheckBegins, Open, WriteAll, Sync, ConfigureFails,
                  Accept, Refuse, GuestStopped, StopFails, Scan, WipeFails, Triggered, fsVars
    <2> QED BY <2>1, VaultStutter
  <1>10. CASE GuestEnds \/ AppDies
    <2>1. UNCHANGED <<fsVars, disk>> BY <1>10 DEF GuestEnds, AppDies, fsVars
    <2> QED BY <2>1, VaultStutter
  <1> QED BY <1>0, <1>1, <1>2, <1>3, <1>4, <1>5, <1>6, <1>7, <1>8, <1>9, <1>10
          DEF Next, ConfigureStep, TriggerStep

\* The vault implements the abstract one (duress.rs:142-235).
THEOREM VaultRefines == ~StartsMeanwhile /\ Spec => ImplementsVault
  <1> SUFFICES ASSUME ~StartsMeanwhile PROVE Spec => ImplementsVault OBVIOUS
  <1>1. Init => Abs!Init BY VaultInitMaps
  <1>2. VaultInv /\ VaultInv' /\ [Next]_vars => [Abs!Next]_(Abs!vars)
    BY VaultStepMaps
  <1> QED BY <1>1, <1>2, VaultInvariance, PTL DEF Spec, ImplementsVault, Abs!Spec
=============================================================================
