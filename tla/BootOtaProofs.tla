--------------------------- MODULE BootOtaProofs ----------------------------
(***************************************************************************)
(* Proofs about BootOta for every set of images: the types, the inductive  *)
(* invariant behind the safety properties, and the refinement of           *)
(* BootPolicy.                                                             *)
(***************************************************************************)
EXTENDS BootOta, TLAPS

\* The flag names the slot that was booted, or still defaults to slot "A".
Names(rec, s) == rec.ImageFlag = s \/ (rec.ImageFlag = Unset /\ s = "A")

TrialRecord(rec, s) ==
  Names(rec, s) /\ rec.BootPending = Mark /\ rec.BootOK = Unset
ConfirmedRecord(rec, s) ==
  Names(rec, s) /\ rec.BootPending = Unset /\ rec.BootOK = Mark
SwitchedRecord(rec, s) ==
  rec.ImageFlag = Other(s) /\ rec.BootPending = Unset /\ rec.BootOK = Mark

\* The image that executes can confirm its boot.
GoodBoot ==
  pc \in {"app", "confirmErased", "run", "endErased"} => slot[booted] \in GoodImages

\* While the application executes, the record (or its RAM copy, once the page
\* is erased) is in the form that the loader or the confirmation left.
RunningRecord ==
  /\ pc \in {"app", "dead"} => TrialRecord(nv, booted) /\ outcome = "trial"
  /\ pc = "confirmErased" => TrialRecord(info, booted) /\ outcome = "trial"
  /\ pc = "run" => ConfirmedRecord(nv, booted) /\ outcome = "confirmed"
  /\ pc = "endErased" => ConfirmedRecord(info, booted) /\ outcome = "confirmed"

ErasedRecord == pc \in Erased => nv = BlankRecord

\* At a reset the history of the boot determines the form of the record.
OffRecord ==
  pc = "off" =>
    /\ outcome \in {"none", "torn"} => nv = BlankRecord
    /\ outcome = "trial" => TrialRecord(nv, booted)
    /\ outcome = "confirmed" => ConfirmedRecord(nv, booted)
    /\ outcome = "switched" => SwitchedRecord(nv, booted)

IInv ==
  /\ TypeOK
  /\ NeverBricked
  /\ GoodBoot
  /\ RunningRecord
  /\ ErasedRecord
  /\ OffRecord

-----------------------------------------------------------------------------
LEMMA RecordTypes ==
  ASSUME NEW rec \in OTADataFlashInfo
  PROVE  /\ TargetFlag(rec) \in Slots \cup {Unset}
         /\ BootTarget(rec) \in Slots
         /\ Names(MarkPending(rec), BootTarget(rec))
         /\ MarkPending(rec) \in OTADataFlashInfo
         /\ TrialRecord(MarkPending(rec), BootTarget(rec))
         /\ MarkConfirmed(rec) \in OTADataFlashInfo
         /\ MarkConfirmed(rec).ImageFlag = rec.ImageFlag
         /\ MarkConfirmed(rec).BootPending = Unset
         /\ MarkConfirmed(rec).BootOK = Mark
         /\ \A s \in Slots : /\ SwitchFlag(rec, s) \in OTADataFlashInfo
                             /\ SwitchFlag(rec, s).ImageFlag = s
                             /\ SwitchFlag(rec, s).BootPending = rec.BootPending
                             /\ SwitchFlag(rec, s).BootOK = rec.BootOK
  BY DEF OTADataFlashInfo, TargetFlag, BootTarget, Reverts, MarkPending, Names,
         TrialRecord, MarkConfirmed, SwitchFlag, Slots, Unset, Mark

\* What the loader does with each form of the record.
LEMMA Decisions ==
  ASSUME NEW rec \in OTADataFlashInfo, NEW s \in Slots
  PROVE  /\ rec = BlankRecord => BootTarget(rec) = "A"
         /\ TrialRecord(rec, s) /\ rec.ImageFlag # Unset => BootTarget(rec) = Other(s)
         /\ TrialRecord(rec, s) /\ rec.ImageFlag = Unset => BootTarget(rec) = "A"
         /\ ConfirmedRecord(rec, s) => BootTarget(rec) = s
         /\ SwitchedRecord(rec, s) => BootTarget(rec) = Other(s)
  BY DEF OTADataFlashInfo, TargetFlag, BootTarget, Reverts, Names, TrialRecord,
         ConfirmedRecord, SwitchedRecord, BlankRecord, Slots, Other, Unset, Mark

LEMMA InitIInv == Init => IInv
  BY ImagesAssumption, MaxResetsAssumption
  DEF Init, IInv, TypeOK, NeverBricked, GoodBoot, RunningRecord, ErasedRecord,
      OffRecord, BlankRecord, OTADataFlashInfo, Slots, Erased, Unset, Mark

LEMMA StepIInv == IInv /\ [Next]_vars => IInv'
<1> SUFFICES ASSUME IInv, [Next]_vars
             PROVE  IInv'
  OBVIOUS
<1> USE DEF IInv
<1>1. CASE IapErase
  BY <1>1 DEF IapErase, TypeOK, NeverBricked, GoodBoot, RunningRecord, ErasedRecord,
     OffRecord, BlankRecord, OTADataFlashInfo, Slots, Erased, Unset, Mark
<1>2. CASE IapWriteAndJump
  <2>1. info \in OTADataFlashInfo
    BY DEF TypeOK
  <2>2. TypeOK'
    BY <1>2, <2>1, RecordTypes DEF IapWriteAndJump, TypeOK
  <2>3. NeverBricked' /\ GoodBoot'
    BY <1>2 DEF IapWriteAndJump, NeverBricked, GoodBoot
  <2>4. RunningRecord' /\ ErasedRecord' /\ OffRecord'
    BY <1>2, <2>1, RecordTypes
    DEF IapWriteAndJump, RunningRecord, ErasedRecord, OffRecord, Erased
  <2> QED
    BY <2>2, <2>3, <2>4
<1>3. CASE ConfirmErase
  <2>1. nv.BootOK = Unset /\ TrialRecord(nv, booted) /\ outcome = "trial"
    BY <1>3 DEF ConfirmErase, RunningRecord, TrialRecord
  <2>2. /\ pc' = "confirmErased" /\ nv' = BlankRecord /\ info' = nv
        /\ UNCHANGED <<slot, booted, outcome, resets>> /\ pc = "app"
    BY <1>3, <2>1 DEF ConfirmErase, Unset, Mark
  <2>3. TypeOK' /\ NeverBricked' /\ GoodBoot'
    BY <2>2 DEF TypeOK, NeverBricked, GoodBoot, BlankRecord, OTADataFlashInfo, Erased
  <2>4. RunningRecord' /\ ErasedRecord' /\ OffRecord'
    BY <2>1, <2>2 DEF RunningRecord, ErasedRecord, OffRecord
  <2> QED
    BY <2>3, <2>4
<1>4. CASE ConfirmWrite
  <2>1. info \in OTADataFlashInfo /\ TrialRecord(info, booted)
    BY <1>4 DEF ConfirmWrite, TypeOK, RunningRecord
  <2>2. ConfirmedRecord(nv', booted)
    BY <1>4, <2>1, RecordTypes DEF ConfirmWrite, TrialRecord, ConfirmedRecord, Names
  <2>3. TypeOK' /\ NeverBricked' /\ GoodBoot'
    BY <1>4, <2>1, RecordTypes DEF ConfirmWrite, TypeOK, NeverBricked, GoodBoot
  <2>4. RunningRecord' /\ ErasedRecord' /\ OffRecord'
    BY <1>4, <2>2 DEF ConfirmWrite, RunningRecord, ErasedRecord, OffRecord, Erased
  <2> QED
    BY <2>3, <2>4
<1>5. CASE WriteTarget
  <2>1. PICK i \in Images \cup {NoImage} : slot' = [slot EXCEPT ![Other(booted)] = i]
    BY <1>5 DEF WriteTarget
  <2>2. slot'[booted] = slot[booted] /\ booted \in Slots
    BY <2>1 DEF TypeOK, Other, Slots
  <2>3. TypeOK'
    BY <1>5, <2>1 DEF WriteTarget, TypeOK, Other, Slots
  <2>4. NeverBricked' /\ GoodBoot'
    BY <1>5, <2>2 DEF WriteTarget, NeverBricked, GoodBoot
  <2>5. RunningRecord' /\ ErasedRecord' /\ OffRecord'
    BY <1>5 DEF WriteTarget, RunningRecord, ErasedRecord, OffRecord
  <2> QED
    BY <2>3, <2>4, <2>5
<1>6. CASE EndErase
  BY <1>6 DEF EndErase, TypeOK, NeverBricked, GoodBoot, RunningRecord, ErasedRecord,
     OffRecord, BlankRecord, OTADataFlashInfo, Erased
<1>7. CASE EndWriteAndReset
  <2>1. info \in OTADataFlashInfo /\ ConfirmedRecord(info, booted) /\ Other(booted) \in Slots
    BY <1>7 DEF EndWriteAndReset, TypeOK, RunningRecord, Other, Slots
  <2>2. SwitchedRecord(nv', booted)
    BY <1>7, <2>1, RecordTypes DEF EndWriteAndReset, ConfirmedRecord, SwitchedRecord
  <2>3. TypeOK' /\ NeverBricked' /\ GoodBoot'
    BY <1>7, <2>1, RecordTypes DEF EndWriteAndReset, TypeOK, NeverBricked, GoodBoot
  <2>4. RunningRecord' /\ ErasedRecord' /\ OffRecord'
    BY <1>7, <2>2 DEF EndWriteAndReset, RunningRecord, ErasedRecord, OffRecord, Erased
  <2> QED
    BY <2>3, <2>4
<1>8. CASE Reset
  <2>1. TypeOK'
    BY <1>8, MaxResetsAssumption DEF Reset, TypeOK
  <2>2. NeverBricked' /\ GoodBoot' /\ RunningRecord' /\ ErasedRecord'
    BY <1>8 DEF Reset, NeverBricked, GoodBoot, RunningRecord, ErasedRecord, Erased
  <2>3. OffRecord'
    BY <1>8 DEF Reset, TypeOK, RunningRecord, ErasedRecord, OffRecord, Erased
  <2> QED
    BY <2>1, <2>2, <2>3
<1>9. CASE ResetDead
  BY <1>9 DEF ResetDead, TypeOK, NeverBricked, GoodBoot, RunningRecord, ErasedRecord,
     OffRecord, Erased
<1>10. CASE UNCHANGED vars
  BY <1>10 DEF vars, TypeOK, NeverBricked, GoodBoot, RunningRecord, ErasedRecord, OffRecord
<1> QED
  BY <1>1, <1>2, <1>3, <1>4, <1>5, <1>6, <1>7, <1>8, <1>9, <1>10 DEF Next, Loader, App

LEMMA Invariance == Spec => []IInv
  BY InitIInv, StepIInv, PTL DEF Spec

-----------------------------------------------------------------------------
\* The record, its RAM copy and the boot state keep their types.
THEOREM TypeCorrect == Spec => []TypeOK
<1>1. IInv => TypeOK
  BY DEF IInv
<1> QED
  BY <1>1, Invariance, PTL

\* A confirmed boot is repeated at the next reset (jump_APP, ota_confirm_boot).
THEOREM ConfirmedBootsAgainHolds == Spec => []ConfirmedBootsAgain
<1>1. IInv => ConfirmedBootsAgain
  BY Decisions DEF IInv, TypeOK, OffRecord, ConfirmedBootsAgain
<1> QED
  BY <1>1, Invariance, PTL

\* An update that reached CMD_IAP_END is booted at the next reset.
THEOREM UpdateTakesEffectHolds == Spec => []UpdateTakesEffect
<1>1. IInv => UpdateTakesEffect
  BY Decisions DEF IInv, TypeOK, OffRecord, UpdateTakesEffect
<1> QED
  BY <1>1, Invariance, PTL

\* A named slot that did not confirm is not booted by the next reset.
THEOREM UnconfirmedIsLeftHolds == Spec => []UnconfirmedIsLeft
<1>1. IInv => UnconfirmedIsLeft
  BY Decisions DEF IInv, TypeOK, OffRecord, UnconfirmedIsLeft
<1> QED
  BY <1>1, Invariance, PTL

\* The next reset boots the slot that the last boot, its confirmation or its update
\* called for (loader main.c:63-92; main.c:72-93; peripheral.c:362-389).
THEOREM BootsRightSlotHolds == Spec => []BootsRightSlot
<1>1. TypeOK /\ ConfirmedBootsAgain /\ UpdateTakesEffect /\ UnconfirmedIsLeft => BootsRightSlot
  BY DEF BootsRightSlot
<1> QED
  BY <1>1, TypeCorrect, ConfirmedBootsAgainHolds, UpdateTakesEffectHolds, UnconfirmedIsLeftHolds,
     PTL

\* One slot always holds an image that can confirm its boot.
THEOREM NeverBrickedHolds == Spec => []NeverBricked
<1>1. IInv => NeverBricked
  BY DEF IInv
<1> QED
  BY <1>1, Invariance, PTL

-----------------------------------------------------------------------------
LEMMA InitPolicy == Init => Policy!Init
  BY DEF Init, Policy!Init, Durable, Erased, BootTarget, TargetFlag, Reverts,
     BlankRecord, Unset, Mark

LEMMA StepPolicy == IInv /\ [Next]_vars => [Policy!Next]_(Policy!vars)
<1> SUFFICES ASSUME IInv, [Next]_vars
             PROVE  [Policy!Next]_(Policy!vars)
  OBVIOUS
<1> USE DEF Policy!vars, Policy!Next
<1>0. /\ nv \in OTADataFlashInfo /\ info \in OTADataFlashInfo /\ booted \in Slots
      /\ pc \in {"off", "app", "run", "dead"} \cup Erased
  BY DEF IInv, TypeOK
<1>a. ASSUME NEW s \in Slots PROVE Policy!Other(s) = Other(s)
  BY DEF Policy!Other, Other
<1>1. CASE IapErase
  BY <1>1 DEF IapErase, Durable, Erased
<1>2. CASE IapWriteAndJump
  <2>1. /\ pc = "iapErased" /\ pc' \in {"app", "dead"} /\ Durable = info
        /\ Durable' = MarkPending(info) /\ booted' = BootTarget(info)
    BY <1>2 DEF IapWriteAndJump, Durable, Erased
  <2>2. CASE TargetFlag(info) # Unset
    <3>1. /\ BootTarget(MarkPending(info)) = Other(BootTarget(info))
          /\ MarkPending(info).ImageFlag # Unset /\ BootTarget(info) \in Slots
      BY <1>0, <2>2, RecordTypes, Decisions DEF MarkPending
    <3> QED
      BY <1>a, <2>1, <3>1 DEF Policy!Attempt
  <2>3. CASE TargetFlag(info) = Unset
    <3>1. /\ BootTarget(MarkPending(info)) = "A" /\ BootTarget(info) = "A"
          /\ MarkPending(info).ImageFlag = Unset /\ info.ImageFlag = Unset
      BY <1>0, <2>3 DEF BootTarget, TargetFlag, MarkPending, Reverts, Unset, Mark,
         OTADataFlashInfo, Slots
    <3> QED
      BY <2>1, <3>1 DEF Policy!Attempt
  <2> QED
    BY <2>2, <2>3
<1>3. CASE ConfirmErase
  <2>1. nv.BootOK = Unset
    BY <1>3 DEF ConfirmErase, IInv, RunningRecord, TrialRecord
  <2> QED
    BY <1>3, <2>1 DEF ConfirmErase, Durable, Erased, Unset, Mark
<1>4. CASE ConfirmWrite
  <2>1. /\ pc = "confirmErased" /\ pc' = "run" /\ Durable = info
        /\ Durable' = MarkConfirmed(info) /\ booted' = booted
    BY <1>4 DEF ConfirmWrite, Durable, Erased
  <2>2. TrialRecord(info, booted)
    BY <2>1 DEF IInv, RunningRecord
  <2>3. ConfirmedRecord(MarkConfirmed(info), booted)
    BY <1>0, <2>2, RecordTypes DEF TrialRecord, ConfirmedRecord, Names
  <2>4. /\ BootTarget(MarkConfirmed(info)) = booted
        /\ MarkConfirmed(info).ImageFlag = info.ImageFlag
    BY <1>0, <2>3, RecordTypes, Decisions
  <2> QED
    BY <2>1, <2>4 DEF Policy!Confirm
<1>5. CASE WriteTarget
  BY <1>5 DEF WriteTarget, Durable
<1>6. CASE EndErase
  BY <1>6 DEF EndErase, Durable, Erased
<1>7. CASE EndWriteAndReset
  <2>1. /\ pc = "endErased" /\ pc' = "off" /\ Durable = info /\ booted' = booted
        /\ Durable' = SwitchFlag(info, Other(booted))
    BY <1>7 DEF EndWriteAndReset, Durable, Erased
  <2>2. ConfirmedRecord(info, booted)
    BY <2>1 DEF IInv, RunningRecord
  <2>3. Other(booted) \in Slots /\ Other(booted) # Unset
    BY <1>0 DEF Other, Slots, Unset
  <2>4. SwitchedRecord(SwitchFlag(info, Other(booted)), booted)
    BY <1>0, <2>2, <2>3, RecordTypes DEF SwitchedRecord, ConfirmedRecord
  <2>5. /\ BootTarget(SwitchFlag(info, Other(booted))) = Other(booted)
        /\ SwitchFlag(info, Other(booted)).ImageFlag # Unset
    BY <1>0, <2>3, <2>4, RecordTypes, Decisions
  <2> QED
    BY <1>0, <1>a, <2>1, <2>5 DEF Policy!FinishUpdate
<1>8. CASE Reset
  <2>1. CASE pc \in Erased
    <3>1. Durable' = BlankRecord /\ pc' = "off" /\ booted' = booted
      BY <1>8, <2>1 DEF Reset, IInv, ErasedRecord, Durable, Erased
    <3>2. BootTarget(BlankRecord) = "A" /\ BlankRecord.ImageFlag = Unset
      BY DEF BootTarget, TargetFlag, Reverts, BlankRecord, Unset, Mark
    <3> QED
      BY <3>1, <3>2 DEF Policy!ForgetfulPowerLoss
  <2>2. CASE pc \notin Erased
    <3>1. Durable' = Durable /\ pc' = "off" /\ booted' = booted
      BY <1>8, <2>2 DEF Reset, Durable, Erased
    <3> QED
      BY <3>1 DEF Policy!PowerLoss
  <2> QED
    BY <2>1, <2>2
<1>9. CASE ResetDead
  <2>1. Durable' = Durable /\ pc' = "off" /\ booted' = booted
    BY <1>9 DEF ResetDead, Durable, Erased
  <2> QED
    BY <2>1 DEF Policy!PowerLoss
<1>10. CASE UNCHANGED vars
  BY <1>10 DEF vars, Durable
<1> QED
  BY <1>1, <1>2, <1>3, <1>4, <1>5, <1>6, <1>7, <1>8, <1>9, <1>10 DEF Next, Loader, App

\* The record in dataflash, rewritten in two steps that power loss may
\* separate, implements the boot policy.
THEOREM Refinement == Spec => ImplementsPolicy
<1> QED
  BY InitPolicy, StepPolicy, Invariance, PTL DEF Spec, ImplementsPolicy, Policy!Spec

=============================================================================
