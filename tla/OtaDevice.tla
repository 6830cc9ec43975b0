----------------------------- MODULE OtaDevice ------------------------------
(***************************************************************************)
(* The badge's side of a firmware update over BLE (src/ble/peripheral.c    *)
(* and src/ble/profile/OTAprofile.c), under any order of commands.         *)
(*                                                                         *)
(* A command is written to the OTA characteristic and handled at once; its *)
(* reply is staged in a one-entry buffer that the host reads when it       *)
(* likes.  Erasing takes many turns of the task loop: each turn of         *)
(* OTA_FLASH_ERASE_EVT erases one block, and commands, reads and the loss  *)
(* of the link fall between the turns.                                     *)
(*                                                                         *)
(* Flash is counted in erase blocks from the start of the target slot.     *)
(* The target slot is blocks 0..SlotBlocks-1; the loader's region starts   *)
(* at block IapStart, right after slot B.  One CMD_IAP_PROM stands for the *)
(* packets that fill one block.                                            *)
(***************************************************************************)
EXTENDS Integers

CONSTANTS
  SlotBlocks,     \* blocks of a slot (54 on the badge)
  IapStart,       \* offset of the loader: SlotBlocks, or twice that from slot A
  FlashTop,       \* offset of the end of the code flash
  EraseCommands,  \* the <<first block, block count>> a host asks to erase
  ProgBlocks,     \* the blocks a host programs and verifies
  MaxWritten      \* bound on the blocks programmed after an erase

ASSUME LayoutAssumption ==
  /\ SlotBlocks \in Nat \ {0}
  /\ IapStart \in {SlotBlocks, 2 * SlotBlocks}
  /\ FlashTop \in Nat /\ FlashTop > IapStart
ASSUME CommandAssumption ==
  /\ EraseCommands \subseteq Nat \X Nat
  /\ ProgBlocks \subseteq 0..FlashTop - 1
  /\ MaxWritten \in Nat

VARIABLES
  flash,          \* content of each block
  EraseAdd, EraseBlockNum, EraseBlockCnt,
  eraseEvt,       \* OTA_FLASH_ERASE_EVT is set
  VerifyStatus,   \* TRUE once a verification failed
  reply,          \* OTAProfileReadBuf, "none" when OTAProfileReadLen is 0
  connected,
  ota_display_active,
  total, written, \* ota_total_bytes and ota_written_bytes, in blocks
  ota_last_pct,
  switched        \* CMD_IAP_END switched the image flag and reset the badge

eraseVars == <<EraseAdd, EraseBlockNum, EraseBlockCnt, eraseEvt>>
progressVars == <<ota_display_active, total, written, ota_last_pct>>
vars == <<flash, eraseVars, VerifyStatus, reply, connected, progressVars, switched>>

Offsets == 0..FlashTop - 1
TargetBlocks == 0..SlotBlocks - 1

NoPct == 255

-----------------------------------------------------------------------------
(* Replies and the progress display.                                       *)

OTA_IAP_SendCMDDealSta(status) == reply' = status

\* ota_progress_reset, which shows 0 percent.
ota_progress_reset(blocks) ==
  /\ total' = blocks
  /\ written' = 0
  /\ ota_last_pct' = NoPct
  /\ ota_display_active' = TRUE

\* Fault: the last percent is not kept for the end of the update.
Percent_Uncapped(w) == (w * 100) \div total

Percent(w) == IF (w * 100) \div total > 99 THEN 99 ELSE (w * 100) \div total

\* ota_progress_advance by one block; the display is redrawn on a change.
ota_progress_advance ==
  IF total = 0
  THEN UNCHANGED progressVars
  ELSE /\ written' = written + 1
       /\ ota_last_pct' = Percent(written + 1)
       /\ ota_display_active' =
            (ota_display_active \/ ota_last_pct' # ota_last_pct)
       /\ UNCHANGED total

disp_ota_cancel ==
  /\ ota_display_active' = FALSE
  /\ UNCHANGED <<total, written, ota_last_pct>>

-----------------------------------------------------------------------------
Init ==
  /\ \E old \in {"erased", "old"} :
       flash = [b \in Offsets |-> IF b \in TargetBlocks THEN old ELSE "kept"]
  /\ EraseAdd = 0 /\ EraseBlockNum = 0 /\ EraseBlockCnt = 0
  /\ eraseEvt = FALSE
  /\ VerifyStatus = FALSE
  /\ reply = "none"
  /\ connected = FALSE
  /\ ota_display_active = FALSE
  /\ total = 0 /\ written = 0 /\ ota_last_pct = NoPct
  /\ switched = FALSE

\* A second link is turned away (peripheral.c:128-138) and changes nothing here.
link_onEstablished ==
  /\ ~connected /\ ~switched
  /\ connected' = TRUE
  /\ UNCHANGED <<flash, eraseVars, VerifyStatus, reply, progressVars, switched>>

\* Fault: the update screen is left on when the link is lost.
link_onTerminated_KeepsScreen ==
  /\ connected /\ ~switched
  /\ connected' = FALSE
  /\ UNCHANGED <<flash, eraseVars, VerifyStatus, reply, progressVars, switched>>

\* The link is lost; a running erase and a staged reply are left as they are.
link_onTerminated ==
  /\ connected /\ ~switched
  /\ connected' = FALSE
  /\ disp_ota_cancel
  /\ UNCHANGED <<flash, eraseVars, VerifyStatus, reply, switched>>

\* The host reads the characteristic; a staged reply is handed out once.
OTAProfile_ReadAttrCB ==
  /\ connected /\ ~switched
  /\ reply # "none"
  /\ reply' = "none"
  /\ UNCHANGED <<flash, eraseVars, VerifyStatus, connected, progressVars, switched>>

\* The address test of CMD_IAP_ERASE.  A count of 0 wraps around to the block
\* before the first one and passes.
OutOfRange(first, count) == first + (count - 1) > IapStart

\* Fault: the block counter is not reset for a new range.
CmdErase_KeepsCount(first, count) ==
  /\ connected /\ ~switched
  /\ EraseAdd' = first
  /\ EraseBlockNum' = count
  /\ VerifyStatus' = FALSE
  /\ ota_progress_reset(count)
  /\ eraseEvt' = TRUE
  /\ UNCHANGED <<EraseBlockCnt, reply, flash, connected, switched>>

\* CMD_IAP_ERASE: the range is stored before it is tested.
CmdErase(first, count) ==
  /\ connected /\ ~switched
  /\ EraseAdd' = first
  /\ EraseBlockNum' = count
  /\ EraseBlockCnt' = 0
  /\ VerifyStatus' = FALSE
  /\ IF OutOfRange(first, count)
     THEN /\ disp_ota_cancel
          /\ OTA_IAP_SendCMDDealSta("outOfRange")
          /\ UNCHANGED eraseEvt
     ELSE /\ ota_progress_reset(count)
          /\ eraseEvt' = TRUE
          /\ UNCHANGED reply
  /\ UNCHANGED <<flash, connected, switched>>

\* Fault: the loop stops only after a block too many.
LastBlock_Late(cnt) == cnt > EraseBlockNum

\* Fault: the last block of the range is left out.
LastBlock_Early(cnt) == cnt >= EraseBlockNum - 1

LastBlock(cnt) == cnt >= EraseBlockNum

\* Fault: a failed erase is tried again for ever.
OTA_FLASH_ERASE_EVT_Retries ==
  /\ eraseEvt /\ ~switched
  /\ \/ /\ EraseAdd + EraseBlockCnt \in Offsets
        /\ flash' = [flash EXCEPT ![EraseAdd + EraseBlockCnt] = "erased"]
        /\ EraseBlockCnt' = EraseBlockCnt + 1
        /\ eraseEvt' = ~LastBlock(EraseBlockCnt')
        /\ reply' = IF eraseEvt' THEN reply ELSE "ok"
     \/ /\ UNCHANGED <<flash, EraseBlockCnt, eraseEvt>>
        /\ OTA_IAP_SendCMDDealSta("failed")
  /\ UNCHANGED <<EraseAdd, EraseBlockNum, VerifyStatus, connected, switched, progressVars>>
\* Fault: a failed erase is not reported.
OTA_FLASH_ERASE_EVT_Silent ==
  /\ eraseEvt /\ ~switched
  /\ \/ /\ EraseAdd + EraseBlockCnt \in Offsets
        /\ flash' = [flash EXCEPT ![EraseAdd + EraseBlockCnt] = "erased"]
        /\ EraseBlockCnt' = EraseBlockCnt + 1
        /\ eraseEvt' = ~LastBlock(EraseBlockCnt')
        /\ reply' = IF eraseEvt' THEN reply ELSE "ok"
     \/ /\ UNCHANGED <<flash, EraseBlockCnt, reply>>
        /\ eraseEvt' = FALSE
  /\ UNCHANGED <<EraseAdd, EraseBlockNum, VerifyStatus, connected, switched, progressVars>>

\* One turn of peripheral_task with OTA_FLASH_ERASE_EVT.
OTA_FLASH_ERASE_EVT ==
  /\ eraseEvt /\ ~switched
  /\ \/ /\ EraseAdd + EraseBlockCnt \in Offsets
        /\ flash' = [flash EXCEPT ![EraseAdd + EraseBlockCnt] = "erased"]
        /\ EraseBlockCnt' = EraseBlockCnt + 1
        /\ IF LastBlock(EraseBlockCnt')
           THEN OTA_IAP_SendCMDDealSta("ok") /\ eraseEvt' = FALSE
           ELSE UNCHANGED <<reply, eraseEvt>>
        /\ UNCHANGED progressVars
     \/ /\ UNCHANGED <<flash, EraseBlockCnt>>    \* FLASH_ROM_ERASE failed
        /\ disp_ota_cancel
        /\ OTA_IAP_SendCMDDealSta("failed")
        /\ eraseEvt' = FALSE
  /\ UNCHANGED <<EraseAdd, EraseBlockNum, VerifyStatus, connected, switched>>

\* CMD_IAP_PROM of one block of the new image.  Programming only clears bits,
\* so other data that was not erased leaves a mixture.
CmdProm(b) ==
  /\ connected /\ ~switched
  /\ written < MaxWritten
  /\ \/ /\ flash' = [flash EXCEPT ![b] = IF @ \in {"erased", "new"} THEN "new" ELSE "garbled"]
        /\ ota_progress_advance
        /\ OTA_IAP_SendCMDDealSta("ok")
     \/ /\ flash' = [flash EXCEPT ![b] = "garbled"]    \* FLASH_ROM_WRITE failed
        /\ disp_ota_cancel
        /\ OTA_IAP_SendCMDDealSta("failed")
  /\ UNCHANGED <<eraseVars, VerifyStatus, connected, switched>>

\* CMD_IAP_VERIFY of one block of the new image.
CmdVerify(b) ==
  /\ connected /\ ~switched
  /\ VerifyStatus' = (VerifyStatus \/ flash[b] # "new")
  /\ OTA_IAP_SendCMDDealSta(IF VerifyStatus' THEN "failed" ELSE "ok")
  /\ UNCHANGED <<flash, eraseVars, connected, progressVars, switched>>

\* CMD_IAP_END: unless the loader is blank, switch the flag and reset.
CmdEnd ==
  /\ connected /\ ~switched
  /\ IF flash[IapStart] = "erased"
     THEN /\ disp_ota_cancel
          /\ OTA_IAP_SendCMDDealSta("error")
          /\ UNCHANGED switched
     ELSE /\ ota_display_active' = TRUE
          /\ switched' = TRUE
          /\ UNCHANGED <<reply, total, written, ota_last_pct>>
  /\ UNCHANGED <<flash, eraseVars, VerifyStatus, connected>>

\* CMD_IAP_INFO and any other command only reply.
CmdInfo ==
  /\ connected /\ ~switched
  /\ \E r \in {"info", "error"} : OTA_IAP_SendCMDDealSta(r)
  /\ UNCHANGED <<flash, eraseVars, VerifyStatus, connected, progressVars, switched>>

Next ==
  \/ link_onEstablished
  \/ link_onTerminated
  \/ OTAProfile_ReadAttrCB
  \/ \E c \in EraseCommands : CmdErase(c[1], c[2])
  \/ OTA_FLASH_ERASE_EVT
  \/ \E b \in ProgBlocks : CmdProm(b) \/ CmdVerify(b)
  \/ CmdEnd
  \/ CmdInfo

Spec == Init /\ [][Next]_vars

-----------------------------------------------------------------------------
(* Properties.                                                             *)

\* Types of the flash, the erase loop and the display state.
TypeOK ==
  /\ flash \in [Offsets -> {"erased", "old", "new", "garbled", "kept"}]
  /\ EraseAdd \in Nat /\ EraseBlockNum \in Nat /\ EraseBlockCnt \in Nat
  /\ eraseEvt \in BOOLEAN
  /\ VerifyStatus \in BOOLEAN
  /\ reply \in {"none", "ok", "failed", "outOfRange", "error", "info"}
  /\ connected \in BOOLEAN
  /\ ota_display_active \in BOOLEAN
  /\ total \in Nat /\ written \in Nat
  /\ ota_last_pct \in 0..99 \cup {NoPct}
  /\ switched \in BOOLEAN

\* The hosts that keep every command inside the target slot.
CommandsInSlot ==
  /\ \A c \in EraseCommands : c[1] \in TargetBlocks /\ c[1] + c[2] <= SlotBlocks
  /\ ProgBlocks \subseteq TargetBlocks

\* Only the target slot is erased or programmed, however the erase loop
\* interleaves with further commands and lost links.
OnlyTargetSlotWritten ==
  \A b \in Offsets \ TargetBlocks : flash[b] = "kept"

\* The "UPDATING" screen never stays on without a link, unless the badge is
\* about to reset into the new image.
NoScreenWithoutLink == ota_display_active => connected

\* Neither commands nor lost links in the middle of an erase reach past the target
\* slot or leave the screen of an update behind (peripheral.c:146-165 and 239-260).
DeviceSafe == TypeOK /\ OnlyTargetSlotWritten /\ NoScreenWithoutLink

\* An erase answered with success erased every block that it was asked for:
\* none of them keeps old content, whatever was sent while it went on.
EraseReplyTruthful ==
  [][OTA_FLASH_ERASE_EVT /\ reply' = "ok" /\ ~eraseEvt' =>
       \A b \in EraseAdd .. EraseAdd + EraseBlockNum - 1 : flash'[b] # "old"]_vars

\* An erase that is not re-armed for ever comes to an end, whether the host
\* stays, leaves or sends other commands.
EraseEnds ==
  <>[][\A c \in EraseCommands : ~CmdErase(c[1], c[2])]_vars =>
    (eraseEvt ~> (~eraseEvt \/ switched))

=============================================================================
