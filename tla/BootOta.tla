------------------------------ MODULE BootOta -------------------------------
(***************************************************************************)
(* The boot record in dataflash and the three programs that rewrite it:    *)
(*   - the IAP loader, at every reset (bootloader/.../main.c jump_APP),    *)
(*   - the application confirming its own boot (src/main.c                 *)
(*     ota_confirm_boot),                                                  *)
(*   - the application ending an update (src/ble/peripheral.c              *)
(*     CMD_IAP_END and SwitchImageFlag).                                   *)
(*                                                                         *)
(* Each of them reads the record, erases its page and writes it back, so   *)
(* that power lost between the erase and the write leaves a blank record.  *)
(* The four bytes of the record are programmed together.                   *)
(***************************************************************************)
EXTENDS Naturals

CONSTANTS
  Images,      \* firmware images an update can put into a slot
  GoodImages,  \* those that reach ota_confirm_boot when they are booted
  NoImage,     \* the content of an erased slot
  MaxResets    \* bound on resets of a badge that is not stuck

ASSUME ImagesAssumption ==
  /\ GoodImages \subseteq Images
  /\ NoImage \notin Images
ASSUME MaxResetsAssumption == MaxResets \in Nat

VARIABLES
  nv,       \* the record in dataflash
  slot,     \* what each slot of the code flash holds
  pc,       \* what the processor is doing
  info,     \* the record as read into RAM before the page is erased
  booted,   \* the slot of the latest jump
  outcome,  \* history: how the boot that began with that jump has ended so far
  resets    \* resets so far, bounded by MaxResets

vars == <<nv, slot, pc, info, booted, outcome, resets>>

Slots == {"A", "B"}
Other(s) == IF s = "A" THEN "B" ELSE "A"

Unset == "0xFF"     \* an erased byte, BOOT_MARK_UNCONFIRMED
Mark  == "0x01"     \* BOOT_MARK_CONFIRMED

OTADataFlashInfo ==
  [ImageFlag : Slots \cup {Unset}, BootPending : {Unset, Mark}, BootOK : {Unset, Mark}]

BlankRecord == [ImageFlag |-> Unset, BootPending |-> Unset, BootOK |-> Unset]

-----------------------------------------------------------------------------
(* The loader's decision.                                                  *)

\* Fault: the loader never reverts.
Reverts_Never(rec) == FALSE

Reverts(rec) == rec.BootPending = Mark /\ rec.BootOK # Mark

\* The flag of the slot to boot: a flag that is neither slot reverts to "A".
TargetFlag(rec) ==
  IF Reverts(rec)
  THEN IF rec.ImageFlag = "A" THEN "B" ELSE "A"
  ELSE rec.ImageFlag

\* The slot jumped into: only the flag of slot "B" selects slot "B".
BootTarget(rec) == IF TargetFlag(rec) = "B" THEN "B" ELSE "A"

\* Fault: the slot chosen by a revert is not stored.
MarkPending_KeepsFlag(rec) == [rec EXCEPT !.BootPending = Mark, !.BootOK = Unset]
\* Fault: an earlier confirmation is left in place.
MarkPending_KeepsOK(rec) ==
  [rec EXCEPT !.ImageFlag = TargetFlag(rec), !.BootPending = Mark]

MarkPending(rec) ==
  [ImageFlag |-> TargetFlag(rec), BootPending |-> Mark, BootOK |-> Unset]

\* Fault: the bytes read back are written instead of the confirmed record.
MarkConfirmed_Unchanged(rec) == rec

MarkConfirmed(rec) == [rec EXCEPT !.BootOK = Mark, !.BootPending = Unset]

\* Fault: the flag of the loader's own region is stored.
SwitchFlag_IapFlag(rec, s) == [rec EXCEPT !.ImageFlag = "0x03"]
\* Fault: the update marks itself as a boot in flight.
SwitchFlag_MarksPending(rec, s) ==
  [ImageFlag |-> s, BootPending |-> Mark, BootOK |-> Unset]

SwitchFlag(rec, s) == [rec EXCEPT !.ImageFlag = s]

-----------------------------------------------------------------------------
Init ==
  /\ nv = BlankRecord
  /\ slot \in {[s \in Slots |-> IF s = "A" THEN i ELSE NoImage] : i \in GoodImages}
  /\ pc = "off"
  /\ info = BlankRecord
  /\ booted = "A"
  /\ outcome = "none"
  /\ resets = 0

\* jump_APP: read the record, decide, and erase the page (WriteOTAInfo).
IapErase ==
  /\ pc = "off"
  /\ info' = nv
  /\ nv' = BlankRecord
  /\ pc' = "iapErased"
  /\ UNCHANGED <<slot, booted, outcome, resets>>

\* WriteOTAInfo stores the pending mark, then jump_APP jumps into the slot.
IapWriteAndJump ==
  /\ pc = "iapErased"
  /\ nv' = MarkPending(info)
  /\ booted' = BootTarget(info)
  /\ outcome' = "trial"
  /\ pc' = IF slot[booted'] \in GoodImages THEN "app" ELSE "dead"
  /\ UNCHANGED <<slot, info, resets>>

\* ota_confirm_boot up to the erase, with its early return.
ConfirmErase ==
  /\ pc = "app"
  /\ info' = nv
  /\ IF nv.BootOK = Mark
     THEN pc' = "run" /\ UNCHANGED nv
     ELSE pc' = "confirmErased" /\ nv' = BlankRecord
  /\ UNCHANGED <<slot, booted, outcome, resets>>

ConfirmWrite ==
  /\ pc = "confirmErased"
  /\ nv' = MarkConfirmed(info)
  /\ outcome' = "confirmed"
  /\ pc' = "run"
  /\ UNCHANGED <<slot, info, booted, resets>>

\* Fault: the update is written over the running slot.
WriteTarget_Running ==
  /\ pc = "run"
  /\ \E i \in Images \cup {NoImage} : slot' = [slot EXCEPT ![booted] = i]
  /\ UNCHANGED <<nv, pc, info, booted, outcome, resets>>

\* CMD_IAP_ERASE and CMD_IAP_PROM rewrite the slot that is not running.
WriteTarget ==
  /\ pc = "run"
  /\ \E i \in Images \cup {NoImage} : slot' = [slot EXCEPT ![Other(booted)] = i]
  /\ UNCHANGED <<nv, pc, info, booted, outcome, resets>>

\* CMD_IAP_END: SwitchImageFlag reads the record and erases its page.
EndErase ==
  /\ pc = "run"
  /\ info' = nv
  /\ nv' = BlankRecord
  /\ pc' = "endErased"
  /\ UNCHANGED <<slot, booted, outcome, resets>>

\* SwitchImageFlag writes the new flag, then CMD_IAP_END resets the badge.
EndWriteAndReset ==
  /\ pc = "endErased"
  /\ nv' = SwitchFlag(info, Other(booted))
  /\ outcome' = "switched"
  /\ pc' = "off"
  /\ UNCHANGED <<slot, info, booted, resets>>

Erased == {"iapErased", "confirmErased", "endErased"}

\* Power loss, power off and wake, or a software reset, at any instant.
Reset ==
  /\ pc \notin {"off", "dead"}
  /\ resets < MaxResets
  /\ resets' = resets + 1
  /\ pc' = "off"
  /\ outcome' = IF pc \in Erased THEN "torn" ELSE outcome
  /\ UNCHANGED <<nv, slot, info, booted>>

\* The user power-cycles a badge whose image never came up.
ResetDead ==
  /\ pc = "dead"
  /\ pc' = "off"
  /\ UNCHANGED <<nv, slot, info, booted, outcome, resets>>

Loader == IapErase \/ IapWriteAndJump
App == ConfirmErase \/ ConfirmWrite

Next ==
  \/ Loader
  \/ App
  \/ WriteTarget
  \/ EndErase
  \/ EndWriteAndReset
  \/ Reset
  \/ ResetDead

\* The processor executes; a stuck badge is eventually power-cycled.  Nothing
\* obliges the host to update or the power to fail.
Fairness ==
  /\ WF_vars(Loader)
  /\ WF_vars(App)
  /\ WF_vars(EndWriteAndReset)
  /\ WF_vars(ResetDead)

Spec == Init /\ [][Next]_vars

-----------------------------------------------------------------------------
(* Properties.                                                             *)

\* Types of the record, of its RAM copy and of the boot state.
TypeOK ==
  /\ nv \in OTADataFlashInfo
  /\ slot \in [Slots -> Images \cup {NoImage}]
  /\ pc \in {"off", "app", "run", "dead"} \cup Erased
  /\ info \in OTADataFlashInfo
  /\ booted \in Slots
  /\ outcome \in {"none", "trial", "confirmed", "switched", "torn"}
  /\ resets \in 0..MaxResets

\* A boot that the application confirmed is repeated: at the next reset the
\* loader chooses the slot that confirmed, through any number of boots.
ConfirmedBootsAgain ==
  pc = "off" /\ outcome = "confirmed" => BootTarget(nv) = booted

\* An update that ran to CMD_IAP_END is booted at the next reset: the flag
\* switch never meets a record that makes the loader revert it.
UpdateTakesEffect ==
  pc = "off" /\ outcome = "switched" => BootTarget(nv) = Other(booted)

\* A slot that was booted and did not confirm is not booted again by the next
\* reset, once the record names a slot.
UnconfirmedIsLeft ==
  pc = "off" /\ outcome = "trial" /\ nv.ImageFlag # Unset =>
    BootTarget(nv) = Other(booted)

\* The next reset boots the slot that the last boot, its confirmation or its update
\* called for (loader main.c:63-92; main.c:72-93; peripheral.c:362-389).
BootsRightSlot ==
  TypeOK /\ ConfirmedBootsAgain /\ UpdateTakesEffect /\ UnconfirmedIsLeft

\* Whatever images are sent and wherever power fails, one slot holds an image
\* that can confirm its boot.
NeverBricked == \E s \in Slots : slot[s] \in GoodImages

\* A badge stuck in an image that does not come up is, after enough power
\* cycles, running an image that confirmed.
Recovers == (pc = "dead") ~> (pc = "run")

-----------------------------------------------------------------------------
(* Refinement: the record as it stands before the rewrite in progress is   *)
(* the decision the abstract specification speaks of.                      *)

Durable == IF pc \in Erased THEN info ELSE nv

Policy == INSTANCE BootPolicy WITH
  phase <- IF pc \in {"off", "iapErased"} THEN "down"
           ELSE IF pc \in {"run", "endErased"} THEN "running" ELSE "trial",
  cur   <- booted,
  next  <- BootTarget(Durable),
  named <- Durable.ImageFlag # Unset

\* The record implements the abstract boot policy, step by step.
ImplementsPolicy == Policy!Spec

=============================================================================
