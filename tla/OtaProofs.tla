----------------------------- MODULE OtaProofs ------------------------------
(***************************************************************************)
(* Proofs about OtaDevice and OtaUpdate for every size of the slots and    *)
(* every set of commands: the types, that hosts whose ranges lie in the    *)
(* target slot never cause another block to be written, that an erase is   *)
(* answered truthfully, and that the sessions of a patient tool switch the *)
(* badge to a whole image only.                                            *)
(***************************************************************************)
EXTENDS OtaUpdate, TLAPS

LEMMA QuotientNat ==
  ASSUME NEW a \in Nat, NEW b \in Nat, b # 0
  PROVE  a \div b \in Nat
  OBVIOUS

LEMMA PercentRange ==
  ASSUME NEW w \in Nat, total \in Nat, total # 0
  PROVE  Percent(w) \in 0..99
<1>1. (w * 100) \div total \in Nat
  BY QuotientNat
<1> QED
  BY <1>1 DEF Percent

\* TypeOK by kind: booleans, numbers, and the contents of flash and reply.
FlagTypes ==
  /\ eraseEvt \in BOOLEAN /\ VerifyStatus \in BOOLEAN /\ connected \in BOOLEAN
  /\ ota_display_active \in BOOLEAN /\ switched \in BOOLEAN
NumberTypes ==
  /\ EraseAdd \in Nat /\ EraseBlockNum \in Nat /\ EraseBlockCnt \in Nat
  /\ total \in Nat /\ written \in Nat
  /\ ota_last_pct \in 0..99 \cup {NoPct}
ContentTypes ==
  /\ flash \in [Offsets -> {"erased", "old", "new", "garbled", "kept"}]
  /\ reply \in {"none", "ok", "failed", "outOfRange", "error", "info"}

LEMMA TypeParts == TypeOK <=> FlagTypes /\ NumberTypes /\ ContentTypes
  BY Zenon DEF TypeOK, FlagTypes, NumberTypes, ContentTypes

LEMMA InitTypeOK == Init => TypeOK
<1> SUFFICES ASSUME Init
             PROVE  FlagTypes /\ NumberTypes /\ ContentTypes
  BY TypeParts
<1>1. FlagTypes
  BY Zenon DEF Init, FlagTypes
<1>2. NumberTypes
  BY DEF Init, NumberTypes, NoPct
<1>3. ContentTypes
  BY DEF Init, ContentTypes
<1> QED
  BY <1>1, <1>2, <1>3

\* The commands keep the types whatever range or block they name.
LEMMA EraseTypeOK ==
  ASSUME NEW first \in Nat, NEW count \in Nat, FlagTypes, NumberTypes, ContentTypes,
         CmdErase(first, count)
  PROVE  FlagTypes' /\ NumberTypes' /\ ContentTypes'
<1>2. FlagTypes'
  BY Zenon DEF CmdErase, disp_ota_cancel, ota_progress_reset, FlagTypes
<1>3. NumberTypes'
  BY DEF CmdErase, disp_ota_cancel, ota_progress_reset, NumberTypes, NoPct
<1>4. ContentTypes'
  BY DEF CmdErase, OTA_IAP_SendCMDDealSta, ContentTypes
<1> QED
  BY <1>2, <1>3, <1>4

LEMMA PromTypeOK ==
  ASSUME NEW b, FlagTypes, NumberTypes, ContentTypes, CmdProm(b)
  PROVE  FlagTypes' /\ NumberTypes' /\ ContentTypes'
<1>1. FlagTypes'
  BY Zenon DEF CmdProm, ota_progress_advance, progressVars, disp_ota_cancel,
     FlagTypes, eraseVars
<1>2. ASSUME ota_progress_advance
      PROVE  total' \in Nat /\ written' \in Nat /\ ota_last_pct' \in 0..99 \cup {NoPct}
  <2>1. CASE total = 0
    BY <1>2, <2>1 DEF ota_progress_advance, progressVars, NumberTypes
  <2>2. CASE total # 0
    <3>1. Percent(written + 1) \in 0..99
      BY <2>2, PercentRange DEF NumberTypes
    <3> QED
      BY <1>2, <2>2, <3>1 DEF ota_progress_advance, NumberTypes
  <2> QED
    BY <2>1, <2>2
<1>3. NumberTypes'
  BY <1>2 DEF CmdProm, disp_ota_cancel, eraseVars, NumberTypes
<1>4. ContentTypes'
  BY DEF CmdProm, OTA_IAP_SendCMDDealSta, ContentTypes
<1> QED
  BY <1>1, <1>3, <1>4

LEMMA StepTypeOK == TypeOK /\ [Next]_vars => TypeOK'
<1> SUFFICES ASSUME FlagTypes, NumberTypes, ContentTypes, [Next]_vars
             PROVE  FlagTypes' /\ NumberTypes' /\ ContentTypes'
  BY Zenon DEF TypeOK, FlagTypes, NumberTypes, ContentTypes
<1>1. CASE link_onEstablished
  <2>1. FlagTypes'
    BY <1>1, Zenon DEF link_onEstablished, FlagTypes, eraseVars, progressVars
  <2> QED
    BY <1>1, <2>1 DEF link_onEstablished, eraseVars, progressVars, NumberTypes, ContentTypes
<1>2. CASE link_onTerminated
  <2>1. FlagTypes'
    BY <1>2, Zenon DEF link_onTerminated, disp_ota_cancel, FlagTypes, eraseVars
  <2> QED
    BY <1>2, <2>1 DEF link_onTerminated, disp_ota_cancel, eraseVars, NumberTypes, ContentTypes
<1>3. CASE OTAProfile_ReadAttrCB
  <2>1. FlagTypes'
    BY <1>3, Zenon DEF OTAProfile_ReadAttrCB, FlagTypes, eraseVars, progressVars
  <2> QED
    BY <1>3, <2>1 DEF OTAProfile_ReadAttrCB, eraseVars, progressVars, NumberTypes, ContentTypes
<1>4. ASSUME NEW c \in EraseCommands, CmdErase(c[1], c[2])
      PROVE  FlagTypes' /\ NumberTypes' /\ ContentTypes'
  <2>1. c[1] \in Nat /\ c[2] \in Nat
    BY CommandAssumption
  <2> QED
    BY <1>4, <2>1, EraseTypeOK
<1>5. CASE OTA_FLASH_ERASE_EVT
  <2>1. FlagTypes'
    BY <1>5, Zenon DEF OTA_FLASH_ERASE_EVT, disp_ota_cancel, progressVars, FlagTypes
  <2>2. NumberTypes'
    <3>1. /\ EraseBlockCnt' = EraseBlockCnt \/ EraseBlockCnt' = EraseBlockCnt + 1
          /\ EraseAdd' = EraseAdd /\ EraseBlockNum' = EraseBlockNum
      BY <1>5, Zenon DEF OTA_FLASH_ERASE_EVT
    <3>2. total' = total /\ written' = written /\ ota_last_pct' = ota_last_pct
      BY <1>5, Zenon DEF OTA_FLASH_ERASE_EVT, disp_ota_cancel, progressVars
    <3> QED
      BY <3>1, <3>2 DEF NumberTypes
  <2>3. ContentTypes'
    BY <1>5 DEF OTA_FLASH_ERASE_EVT, OTA_IAP_SendCMDDealSta, ContentTypes
  <2> QED
    BY <2>1, <2>2, <2>3
<1>6. ASSUME NEW b \in ProgBlocks, CmdProm(b)
      PROVE  FlagTypes' /\ NumberTypes' /\ ContentTypes'
  BY <1>6, PromTypeOK
<1>7. ASSUME NEW b \in ProgBlocks, CmdVerify(b)
      PROVE  FlagTypes' /\ NumberTypes' /\ ContentTypes'
  <2>1. FlagTypes'
    BY <1>7, Zenon DEF CmdVerify, FlagTypes, eraseVars, progressVars
  <2> QED
    BY <1>7, <2>1 DEF CmdVerify, OTA_IAP_SendCMDDealSta, eraseVars, progressVars,
       NumberTypes, ContentTypes
<1>8. CASE CmdEnd
  <2>1. FlagTypes'
    BY <1>8, Zenon DEF CmdEnd, disp_ota_cancel, FlagTypes, eraseVars
  <2> QED
    BY <1>8, <2>1 DEF CmdEnd, disp_ota_cancel, OTA_IAP_SendCMDDealSta, eraseVars,
       NumberTypes, ContentTypes
<1>9. CASE CmdInfo
  <2>1. FlagTypes'
    BY <1>9, Zenon DEF CmdInfo, FlagTypes, eraseVars, progressVars
  <2> QED
    BY <1>9, <2>1 DEF CmdInfo, OTA_IAP_SendCMDDealSta, eraseVars, progressVars,
       NumberTypes, ContentTypes
<1>10. CASE UNCHANGED vars
  <2>1. FlagTypes'
    BY <1>10, Zenon DEF vars, FlagTypes, eraseVars, progressVars
  <2> QED
    BY <1>10, <2>1 DEF vars, eraseVars, progressVars, NumberTypes, ContentTypes
<1> QED
  BY <1>1, <1>2, <1>3, <1>4, <1>5, <1>6, <1>7, <1>8, <1>9, <1>10 DEF Next

\* Every variable of the device keeps its type; the shown percent stays below
\* 100 however often blocks are programmed.
THEOREM TypeCorrect == Spec => []TypeOK
  BY InitTypeOK, StepTypeOK, PTL DEF Spec

-----------------------------------------------------------------------------
\* A running erase stays inside the range it was asked for, and so in the slot.
EraseInSlot ==
  eraseEvt =>
    /\ EraseAdd \in TargetBlocks
    /\ EraseAdd + EraseBlockNum <= SlotBlocks
    /\ EraseBlockCnt = 0 \/ EraseBlockCnt < EraseBlockNum

SlotInv == TypeOK /\ OnlyTargetSlotWritten /\ EraseInSlot

LEMMA InitSlotInv == Init => SlotInv
  BY InitTypeOK DEF SlotInv, Init, OnlyTargetSlotWritten, EraseInSlot

LEMMA StepSlotInv ==
  ASSUME CommandsInSlot
  PROVE  SlotInv /\ [Next]_vars => SlotInv'
<1> SUFFICES ASSUME SlotInv, [Next]_vars
             PROVE  OnlyTargetSlotWritten' /\ EraseInSlot'
  BY StepTypeOK DEF SlotInv
<1> USE LayoutAssumption, CommandAssumption DEF SlotInv
<1>1. CASE link_onEstablished \/ link_onTerminated \/ OTAProfile_ReadAttrCB
           \/ CmdEnd \/ CmdInfo \/ UNCHANGED vars
  BY <1>1 DEF link_onEstablished, link_onTerminated, OTAProfile_ReadAttrCB, CmdEnd,
     CmdInfo, vars, eraseVars, OnlyTargetSlotWritten, EraseInSlot
<1>2. ASSUME NEW c \in EraseCommands, CmdErase(c[1], c[2])
      PROVE  OnlyTargetSlotWritten' /\ EraseInSlot'
  <2>1. c[1] \in Nat /\ c[2] \in Nat /\ c[1] \in TargetBlocks /\ c[1] + c[2] <= SlotBlocks
    BY DEF CommandsInSlot
  <2> QED
    BY <1>2, <2>1 DEF CmdErase, OnlyTargetSlotWritten, EraseInSlot
<1>3. CASE OTA_FLASH_ERASE_EVT
  <2>1. eraseEvt /\ EraseInSlot /\ TypeOK
    BY <1>3 DEF OTA_FLASH_ERASE_EVT
  <2>2. EraseAdd + EraseBlockCnt \in TargetBlocks
    BY <2>1 DEF EraseInSlot, TargetBlocks, TypeOK
  <2>3. OnlyTargetSlotWritten'
    BY <1>3, <2>2 DEF OTA_FLASH_ERASE_EVT, OnlyTargetSlotWritten, Offsets, TypeOK
  <2>4. EraseInSlot'
    BY <1>3, <2>1 DEF OTA_FLASH_ERASE_EVT, EraseInSlot, LastBlock, TypeOK
  <2> QED
    BY <2>3, <2>4
<1>4. ASSUME NEW b \in ProgBlocks, CmdProm(b) \/ CmdVerify(b)
      PROVE  OnlyTargetSlotWritten' /\ EraseInSlot'
  <2>1. b \in TargetBlocks
    BY DEF CommandsInSlot
  <2> QED
    BY <1>4, <2>1 DEF CmdProm, CmdVerify, eraseVars, OnlyTargetSlotWritten, EraseInSlot, TypeOK
<1> QED
  BY <1>1, <1>2, <1>3, <1>4 DEF Next

\* Hosts that keep every command inside the target slot never cause another
\* block to be erased or programmed (CMD_IAP_ERASE, CMD_IAP_PROM and the turns
\* of OTA_FLASH_ERASE_EVT).
THEOREM OnlyTargetSlotWrittenHolds ==
  ASSUME CommandsInSlot
  PROVE  Spec => []OnlyTargetSlotWritten
<1>1. SlotInv => OnlyTargetSlotWritten
  BY DEF SlotInv
<1> QED
  BY <1>1, InitSlotInv, StepSlotInv, PTL DEF Spec

-----------------------------------------------------------------------------
LEMMA StepScreen == NoScreenWithoutLink /\ [Next]_vars => NoScreenWithoutLink'
<1> SUFFICES ASSUME NoScreenWithoutLink, [Next]_vars
             PROVE  NoScreenWithoutLink'
  OBVIOUS
<1> USE DEF NoScreenWithoutLink
<1>1. CASE link_onEstablished \/ link_onTerminated \/ OTAProfile_ReadAttrCB
           \/ CmdEnd \/ CmdInfo \/ OTA_FLASH_ERASE_EVT \/ UNCHANGED vars
  BY <1>1 DEF link_onEstablished, link_onTerminated, OTAProfile_ReadAttrCB, CmdEnd,
     CmdInfo, OTA_FLASH_ERASE_EVT, disp_ota_cancel, vars, progressVars
<1>2. ASSUME NEW c \in EraseCommands, CmdErase(c[1], c[2])
      PROVE  NoScreenWithoutLink'
  BY <1>2 DEF CmdErase
<1>3. ASSUME NEW b \in ProgBlocks, CmdProm(b) \/ CmdVerify(b)
      PROVE  NoScreenWithoutLink'
  BY <1>3 DEF CmdProm, CmdVerify
<1> QED
  BY <1>1, <1>2, <1>3 DEF Next

\* The "UPDATING" screen is never on without a link.
THEOREM NoScreenWithoutLinkHolds == Spec => []NoScreenWithoutLink
<1>1. Init => NoScreenWithoutLink
  BY DEF Init, NoScreenWithoutLink
<1> QED
  BY <1>1, StepScreen, PTL DEF Spec

-----------------------------------------------------------------------------
\* The blocks that the erase loop has passed keep no old content, whatever is
\* programmed in the meantime.
PassedErased ==
  \A b \in EraseAdd..EraseAdd + EraseBlockCnt - 1 : b \in Offsets /\ flash[b] # "old"

PassedInv == TypeOK /\ PassedErased

LEMMA InitPassed == Init => PassedInv
<1> SUFFICES ASSUME Init PROVE PassedInv
  OBVIOUS
<1>1. EraseAdd = 0 /\ EraseBlockCnt = 0
  BY DEF Init
<1>2. PassedErased
  BY <1>1 DEF PassedErased
<1> QED BY <1>2, InitTypeOK DEF PassedInv

\* A turn that erases a block has passed one block more.
LEMMA TurnPasses ==
  ASSUME PassedInv, OTA_FLASH_ERASE_EVT
  PROVE  PassedErased'
<1> USE DEF PassedInv
<1>1. CASE /\ EraseAdd + EraseBlockCnt \in Offsets
           /\ flash' = [flash EXCEPT ![EraseAdd + EraseBlockCnt] = "erased"]
           /\ EraseBlockCnt' = EraseBlockCnt + 1
  <2>1. EraseAdd' = EraseAdd /\ EraseAdd \in Nat /\ EraseBlockCnt \in Nat
    BY DEF OTA_FLASH_ERASE_EVT, TypeOK
  <2>2. \A b \in Offsets : flash'[b] = IF b = EraseAdd + EraseBlockCnt THEN "erased" ELSE flash[b]
    BY <1>1 DEF TypeOK
  <2>3. ASSUME NEW b \in EraseAdd..EraseAdd + EraseBlockCnt
        PROVE  b \in Offsets /\ flash'[b] # "old"
    <3>1. CASE b = EraseAdd + EraseBlockCnt
      BY <1>1, <2>2, <3>1
    <3>2. CASE b # EraseAdd + EraseBlockCnt
      <4>1. b \in EraseAdd..EraseAdd + EraseBlockCnt - 1
        BY <2>1, <3>2
      <4> QED BY <2>2, <3>2, <4>1 DEF PassedErased
    <3> QED BY <3>1, <3>2
  <2>4. EraseAdd' + EraseBlockCnt' - 1 = EraseAdd + EraseBlockCnt
    BY <1>1, <2>1
  <2> QED BY <2>1, <2>3, <2>4 DEF PassedErased
<1>2. CASE UNCHANGED <<flash, EraseBlockCnt>>
  BY <1>2 DEF OTA_FLASH_ERASE_EVT, PassedErased
<1> QED BY <1>1, <1>2 DEF OTA_FLASH_ERASE_EVT

LEMMA StepPassed == PassedInv /\ [Next]_vars => PassedInv'
<1> SUFFICES ASSUME PassedInv, [Next]_vars
             PROVE  PassedErased'
  BY StepTypeOK DEF PassedInv
<1> USE DEF PassedInv
<1>1. CASE link_onEstablished \/ link_onTerminated \/ OTAProfile_ReadAttrCB
           \/ CmdEnd \/ CmdInfo \/ UNCHANGED vars
  BY <1>1 DEF link_onEstablished, link_onTerminated, OTAProfile_ReadAttrCB, CmdEnd,
     CmdInfo, vars, eraseVars, PassedErased
<1>2. ASSUME NEW c \in EraseCommands, CmdErase(c[1], c[2])
      PROVE  PassedErased'
  <2>1. EraseAdd' = c[1] /\ c[1] \in Nat /\ EraseBlockCnt' = 0
    BY <1>2, CommandAssumption DEF CmdErase
  <2> QED BY <2>1 DEF PassedErased
<1>3. CASE OTA_FLASH_ERASE_EVT
  BY <1>3, TurnPasses
<1>4. ASSUME NEW b \in ProgBlocks, CmdProm(b) \/ CmdVerify(b)
      PROVE  PassedErased'
  <2>1. UNCHANGED <<EraseAdd, EraseBlockCnt>>
    BY <1>4 DEF CmdProm, CmdVerify, eraseVars
  <2>2. \A a \in Offsets : flash[a] # "old" => flash'[a] # "old"
    BY <1>4 DEF CmdProm, CmdVerify, TypeOK
  <2> QED BY <2>1, <2>2 DEF PassedErased
<1> QED
  BY <1>1, <1>2, <1>3, <1>4 DEF Next

\* An erase that is answered with success has passed every block it was asked for.
LEMMA ReplyPassed ==
  PassedInv /\ PassedInv' =>
    (OTA_FLASH_ERASE_EVT /\ reply' = "ok" /\ ~eraseEvt' =>
       \A b \in EraseAdd .. EraseAdd + EraseBlockNum - 1 : flash'[b] # "old")
<1> SUFFICES ASSUME PassedInv, PassedInv', OTA_FLASH_ERASE_EVT, reply' = "ok",
                    ~eraseEvt', NEW b \in EraseAdd .. EraseAdd + EraseBlockNum - 1
             PROVE  flash'[b] # "old"
  OBVIOUS
<1>0. b \in EraseAdd .. EraseAdd + EraseBlockNum - 1
  OBVIOUS
<1>1. EraseBlockCnt' >= EraseBlockNum /\ EraseAdd' = EraseAdd
  <2>1. ~UNCHANGED eraseEvt
    BY Zenon DEF OTA_FLASH_ERASE_EVT
  <2>2. ~(reply' = "failed")
    OBVIOUS
  <2>3. LastBlock(EraseBlockCnt')
    BY <2>1, <2>2, Zenon DEF OTA_FLASH_ERASE_EVT, OTA_IAP_SendCMDDealSta
  <2> QED BY <2>3 DEF LastBlock, OTA_FLASH_ERASE_EVT
<1>2. EraseAdd \in Nat /\ EraseBlockNum \in Nat /\ EraseBlockCnt' \in Nat
  BY DEF PassedInv, TypeOK
<1>3. PICK m \in Nat : m = EraseBlockCnt' /\ m >= EraseBlockNum
  BY <1>1, <1>2
<1>4. PICK a \in Nat : a = EraseAdd /\ a = EraseAdd'
  BY <1>1, <1>2
<1>5. PICK n \in Nat : n = EraseBlockNum
  BY <1>2
<1>6. b \in a..a + n - 1
  BY <1>0, <1>4, <1>5
<1>7. n <= m
  BY <1>3, <1>5
<1>8. a..a + n - 1 \subseteq a..a + m - 1
  BY <1>7
<1>9. b \in a..a + m - 1
  BY <1>6, <1>8, Zenon
<1>10. \A c \in EraseAdd'..EraseAdd' + EraseBlockCnt' - 1 :
        c \in Offsets /\ flash'[c] # "old"
  BY Zenon DEF PassedInv, PassedErased
<1>11. b \in EraseAdd'..EraseAdd' + EraseBlockCnt' - 1
  BY <1>3, <1>4, <1>9
<1> QED BY <1>10, <1>11, Zenon

-----------------------------------------------------------------------------
(* OtaUpdate: the device with the tool, another host and losses of power.  *)

\* The tool sends what other hosts may send too.
ToolCommands ==
  <<0, SlotBlocks>> \in EraseCommands /\ TargetBlocks \subseteq ProgBlocks

LEMMA DeviceSteps ==
  ASSUME ToolCommands, [UNext]_updateVars
  PROVE  [Next]_vars \/ PowerLoss
<1>1. CASE ToolConnects \/ ToolDrains \/ ToolReads \/ OtherHost \/ LinkLost \/ EraseTurn
  BY <1>1, Zenon DEF ToolConnects, ToolDrains, ToolReads, OtherHost, LinkLost, EraseTurn, Next
<1>2. CASE ToolErases
  <2>1. CmdErase(0, SlotBlocks)
    BY <1>2 DEF ToolErases
  <2>2. PICK c \in EraseCommands : c = <<0, SlotBlocks>>
    BY DEF ToolCommands
  <2>3. CmdErase(c[1], c[2])
    BY <2>1, <2>2
  <2> QED BY <2>3, Zenon DEF Next
<1>3. CASE ToolPrograms
  BY <1>3, Zenon DEF ToolPrograms, ToolCommands, Next
<1>4. CASE UNCHANGED updateVars
  BY <1>4 DEF updateVars
<1> QED BY <1>1, <1>2, <1>3, <1>4 DEF UNext

\* A loss of power ends an erase and an update, and writes nothing.
LEMMA PowerLossDevice ==
  ASSUME TypeOK, PowerLoss
  PROVE  /\ TypeOK' /\ EraseInSlot' /\ PassedErased' /\ NoScreenWithoutLink'
         /\ OnlyTargetSlotWritten => OnlyTargetSlotWritten'
<1>1. /\ EraseAdd' = 0 /\ EraseBlockCnt' = 0 /\ ~eraseEvt' /\ ~ota_display_active'
      /\ UNCHANGED flash
  BY DEF PowerLoss
<1>2. TypeOK'
  BY DEF PowerLoss, TypeOK, NoPct
<1>3. EraseInSlot' /\ NoScreenWithoutLink' /\ PassedErased'
  BY <1>1 DEF EraseInSlot, NoScreenWithoutLink, PassedErased
<1> QED BY <1>1, <1>2, <1>3 DEF OnlyTargetSlotWritten

DeviceInv == SlotInv /\ NoScreenWithoutLink

\* Neither commands, lost links nor losses of power in the middle of an erase reach past
\* the target slot or leave the screen of an update behind (peripheral.c:146-165 and
\* 239-260).
THEOREM DeviceSafeHolds ==
  ASSUME CommandsInSlot, ToolCommands
  PROVE  USpec => []DeviceSafe
<1>1. UInit => DeviceInv
  BY InitSlotInv DEF UInit, DeviceInv, Init, NoScreenWithoutLink
<1>2. DeviceInv /\ [UNext]_updateVars => DeviceInv'
  <2> SUFFICES ASSUME DeviceInv, [UNext]_updateVars PROVE DeviceInv'
    OBVIOUS
  <2>1. CASE [Next]_vars
    BY <2>1, StepSlotInv, StepScreen DEF DeviceInv
  <2>2. CASE PowerLoss
    BY <2>2, PowerLossDevice DEF DeviceInv, SlotInv
  <2> QED BY <2>1, <2>2, DeviceSteps
<1>3. DeviceInv => DeviceSafe
  BY DEF DeviceInv, SlotInv, DeviceSafe
<1> QED BY <1>1, <1>2, <1>3, PTL DEF USpec

\* An erase answered with success erased every block that it was asked for, whatever
\* slots, hosts and commands, through lost links and losses of power (peripheral.c:239-260).
THEOREM EraseReplyTruthfulHolds ==
  ASSUME ToolCommands
  PROVE  USpec => EraseReplyTruthful
<1>1. UInit => PassedInv
  BY InitPassed DEF UInit
<1>2. PassedInv /\ [UNext]_updateVars => PassedInv'
  <2> SUFFICES ASSUME PassedInv, [UNext]_updateVars PROVE PassedInv'
    OBVIOUS
  <2>1. CASE PowerLoss
    BY <2>1, PowerLossDevice DEF PassedInv
  <2> QED BY <2>1, StepPassed, DeviceSteps
<1>3. PassedInv /\ PassedInv' =>
        [OTA_FLASH_ERASE_EVT /\ reply' = "ok" /\ ~eraseEvt' =>
           \A b \in EraseAdd .. EraseAdd + EraseBlockNum - 1 : flash'[b] # "old"]_vars
  BY ReplyPassed
<1> QED BY <1>1, <1>2, <1>3, PTL DEF USpec, EraseReplyTruthful

-----------------------------------------------------------------------------
(* OtaUpdate: the sessions of a patient tool.                              *)

\* The first n blocks of the slot hold the new image, the others are erased.
ImageUpTo(n) ==
  \A b \in TargetBlocks : flash[b] = IF b < n THEN "new" ELSE "erased"

\* While the tool waits for its erase: the loop erases the tool's range, and
\* nothing but its end stages a reply.
ErasingInv ==
  tool = "erasing" =>
    /\ EraseAdd = 0 /\ EraseBlockNum = SlotBlocks /\ block = 0
    /\ eraseEvt =>
         /\ reply = "none"
         /\ EraseBlockCnt < SlotBlocks
         /\ \A b \in TargetBlocks : b < EraseBlockCnt => flash[b] = "erased"
    /\ ~eraseEvt /\ reply = "ok" => ImageUpTo(0)

\* While it programs: no erase is running, and what was answered is in flash.
ProgrammingInv ==
  /\ tool = "programming" => reply = "none" /\ ImageUpTo(block)
  /\ tool = "programmed" /\ reply = "ok" => ImageUpTo(block)
  /\ tool \in {"programming", "programmed", "ended"} => ~eraseEvt

\* While the tool is at work the flag is switched by its own CMD_IAP_END only.
EndedInv ==
  /\ switched => tool \in {"ended", "away"} /\ SwitchedToWholeImage
  /\ tool = "ended" => reply # "ok"

SessionInv == HostTypeOK /\ ErasingInv /\ ProgrammingInv /\ EndedInv

LEMMA InitSession == UInit => SessionInv
<1> SUFFICES ASSUME UInit PROVE SessionInv
  OBVIOUS
<1>1. HostTypeOK
  BY InitTypeOK, LayoutAssumption, HostAssumption DEF UInit, HostTypeOK
<1>2. tool = "away" /\ ~switched
  BY DEF UInit, Init
<1> QED
  BY <1>1, <1>2 DEF SessionInv, ErasingInv, ProgrammingInv, EndedInv

\* Every step of a session, and a loss of power, keeps the types.
LEMMA StepHostType == HostTypeOK /\ [UNext]_updateVars => HostTypeOK'
<1> SUFFICES ASSUME HostTypeOK, [UNext]_updateVars
             PROVE  HostTypeOK'
  OBVIOUS
<1> USE DEF HostTypeOK
<1>0. SlotBlocks \in Nat \ {0} /\ MaxSessions \in Nat
  BY LayoutAssumption, HostAssumption
<1>1. CASE ToolConnects
  <2>1. TypeOK'
    BY <1>1, StepTypeOK, Zenon DEF ToolConnects, Next
  <2> QED BY <1>0, <1>1, <2>1 DEF ToolConnects
<1>2. CASE ToolDrains \/ EraseTurn
  <2>1. TypeOK'
    BY <1>2, StepTypeOK, Zenon DEF ToolDrains, EraseTurn, Next
  <2> QED BY <1>2, <2>1 DEF ToolDrains, EraseTurn, hostVars
<1>3. CASE ToolErases
  <2>1. TypeOK'
    BY <1>0, <1>3, EraseTypeOK, TypeParts, Zenon DEF ToolErases, TypeOK, FlagTypes,
       NumberTypes, ContentTypes
  <2> QED BY <1>0, <1>3, <2>1 DEF ToolErases
<1>4. CASE ToolPrograms
  <2>1. CASE block \in TargetBlocks
    <3>1. CmdProm(block)
      BY <1>4, <2>1 DEF ToolPrograms
    <3>2. TypeOK'
      BY <3>1, PromTypeOK, Zenon DEF TypeOK, FlagTypes, NumberTypes, ContentTypes
    <3> QED BY <1>0, <1>4, <2>1, <3>2 DEF ToolPrograms, TargetBlocks
  <2>2. CASE block \notin TargetBlocks
    <3>1. TypeOK'
      BY <1>4, <2>2, StepTypeOK, Zenon DEF ToolPrograms, Next
    <3> QED BY <1>4, <2>2, <3>1 DEF ToolPrograms
  <2> QED BY <2>1, <2>2
<1>5. CASE ToolReads
  <2>1. TypeOK'
    BY <1>5, StepTypeOK, Zenon DEF ToolReads, Next
  <2> QED BY <1>5, <2>1 DEF ToolReads
<1>6. CASE LinkLost
  <2>1. TypeOK'
    BY <1>6, StepTypeOK, Zenon DEF LinkLost, Next
  <2> QED BY <1>6, <2>1 DEF LinkLost
<1>7. CASE PowerLoss
  <2>1. TypeOK'
    BY <1>7 DEF PowerLoss, TypeOK, NoPct
  <2> QED BY <1>7, <2>1 DEF PowerLoss
<1>8. CASE UNCHANGED updateVars
  <2>1. TypeOK'
    BY <1>8, StepTypeOK, Zenon DEF updateVars
  <2> QED BY <1>8, <2>1 DEF updateVars, hostVars
<1>9. CASE OtherHost
  <2>1. TypeOK'
    BY <1>9, StepTypeOK, Zenon DEF OtherHost, Next
  <2> QED BY <1>9, <2>1 DEF OtherHost, hostVars
<1> QED
  BY <1>1, <1>2, <1>3, <1>4, <1>5, <1>6, <1>7, <1>8, <1>9 DEF UNext

\* A turn of the loop in the tool's own erase.
LEMMA SessionTurn ==
  ASSUME SessionInv, EraseTurn
  PROVE  ErasingInv' /\ ProgrammingInv' /\ EndedInv'
<1> USE DEF SessionInv
<1>0. /\ SlotBlocks \in Nat \ {0} /\ EraseAdd \in Nat /\ EraseBlockNum \in Nat
      /\ EraseBlockCnt \in Nat /\ flash \in [Offsets -> {"erased", "old", "new", "garbled", "kept"}]
  BY LayoutAssumption DEF HostTypeOK, TypeOK
<1>1. /\ eraseEvt /\ ~switched /\ switched' = switched
      /\ EraseAdd' = EraseAdd /\ EraseBlockNum' = EraseBlockNum
      /\ tool' = tool /\ block' = block
  BY DEF EraseTurn, OTA_FLASH_ERASE_EVT, hostVars
<1>2. tool \notin {"programming", "programmed", "ended"}
  BY <1>1 DEF ProgrammingInv
<1>3. ProgrammingInv' /\ EndedInv'
  BY <1>1, <1>2 DEF ProgrammingInv, EndedInv
<1>4. ErasingInv'
  <2> SUFFICES ASSUME tool = "erasing"
               PROVE  ErasingInv'
    BY <1>1 DEF ErasingInv
  <2>1. /\ EraseAdd = 0 /\ EraseBlockNum = SlotBlocks /\ block = 0 /\ reply = "none"
        /\ EraseBlockCnt < SlotBlocks
        /\ \A b \in TargetBlocks : b < EraseBlockCnt => flash[b] = "erased"
    BY <1>1 DEF ErasingInv
  <2>2. CASE /\ EraseAdd + EraseBlockCnt \in Offsets
             /\ flash' = [flash EXCEPT ![EraseAdd + EraseBlockCnt] = "erased"]
             /\ EraseBlockCnt' = EraseBlockCnt + 1
             /\ IF LastBlock(EraseBlockCnt')
                THEN OTA_IAP_SendCMDDealSta("ok") /\ eraseEvt' = FALSE
                ELSE UNCHANGED <<reply, eraseEvt>>
    <3>1. \A b \in TargetBlocks : b < EraseBlockCnt + 1 => flash'[b] = "erased"
      BY <1>0, <2>1, <2>2 DEF TargetBlocks, Offsets
    <3>2. CASE LastBlock(EraseBlockCnt')
      <4>1. EraseBlockCnt + 1 = SlotBlocks
        BY <1>0, <2>1, <2>2, <3>2 DEF LastBlock
      <4> QED BY <1>0, <1>1, <2>1, <2>2, <3>1, <3>2, <4>1 DEF ErasingInv, ImageUpTo, TargetBlocks
    <3>3. CASE ~LastBlock(EraseBlockCnt')
      BY <1>0, <1>1, <2>1, <2>2, <3>1, <3>3 DEF ErasingInv, LastBlock
    <3> QED BY <3>2, <3>3
  <2>3. CASE UNCHANGED flash /\ reply' = "failed" /\ eraseEvt' = FALSE
    BY <1>1, <2>1, <2>3 DEF ErasingInv
  <2> QED
    BY <2>2, <2>3 DEF EraseTurn, OTA_FLASH_ERASE_EVT, OTA_IAP_SendCMDDealSta
<1> QED BY <1>3, <1>4

\* CMD_IAP_PROM of the next block, or CMD_IAP_END after the last one.
LEMMA SessionPrograms ==
  ASSUME SessionInv, ToolPrograms
  PROVE  ErasingInv' /\ ProgrammingInv' /\ EndedInv'
<1> USE DEF SessionInv
<1>0. /\ SlotBlocks \in Nat \ {0} /\ block \in 0..SlotBlocks
      /\ IapStart \in Nat /\ FlashTop \in Nat /\ IapStart < FlashTop /\ SlotBlocks <= IapStart
      /\ flash \in [Offsets -> {"erased", "old", "new", "garbled", "kept"}]
  BY LayoutAssumption DEF HostTypeOK, TypeOK
<1>1. /\ tool = "programming" /\ ~eraseEvt /\ ~switched /\ reply = "none" /\ ImageUpTo(block)
  BY DEF ToolPrograms, ProgrammingInv, EndedInv
<1>2. CASE block \in TargetBlocks
  <2>1. CmdProm(block) /\ tool' = "programmed" /\ block' = block + 1
    BY <1>2 DEF ToolPrograms
  <2>2. ~eraseEvt' /\ ~switched'
    BY <1>1, <2>1 DEF CmdProm, eraseVars
  <2>3. ASSUME reply' = "ok"
        PROVE  ImageUpTo(block)'
    <3>1. flash' = [flash EXCEPT ![block] = IF @ \in {"erased", "new"} THEN "new" ELSE "garbled"]
      BY <2>1, <2>3 DEF CmdProm, OTA_IAP_SendCMDDealSta
    <3>2. ASSUME NEW b \in TargetBlocks
          PROVE  flash'[b] = IF b < block + 1 THEN "new" ELSE "erased"
      <4>1. b \in Offsets /\ flash[b] = IF b < block THEN "new" ELSE "erased"
        BY <1>0, <1>1 DEF ImageUpTo, TargetBlocks, Offsets
      <4>2. block \in Int /\ b \in Int
        BY <1>0 DEF TargetBlocks
      <4> QED BY <1>0, <3>1, <4>1, <4>2
    <3> QED BY <2>1, <3>2 DEF ImageUpTo
  <2> QED BY <2>1, <2>2, <2>3 DEF ErasingInv, ProgrammingInv, EndedInv
<1>3. CASE block \notin TargetBlocks
  <2>1. CmdEnd /\ tool' = "ended"
    BY <1>3 DEF ToolPrograms
  <2>2. ~eraseEvt' /\ UNCHANGED flash
    BY <1>1, <2>1 DEF CmdEnd, eraseVars
  <2>3. reply' # "ok"
    BY <1>1, <2>1 DEF CmdEnd, OTA_IAP_SendCMDDealSta
  <2>4. SwitchedToWholeImage'
    BY <1>0, <1>1, <1>3, <2>2 DEF SwitchedToWholeImage, ImageUpTo, TargetBlocks
  <2> QED BY <2>1, <2>2, <2>3, <2>4 DEF ErasingInv, ProgrammingInv, EndedInv
<1> QED BY <1>2, <1>3

LEMMA StepSession ==
  ASSUME Patient
  PROVE  SessionInv /\ [UNext]_updateVars => SessionInv'
<1> SUFFICES ASSUME SessionInv, [UNext]_updateVars
             PROVE  ErasingInv' /\ ProgrammingInv' /\ EndedInv'
  BY StepHostType DEF SessionInv
<1> USE DEF SessionInv
<1>0. SlotBlocks \in Nat \ {0} /\ IapStart \in Nat /\ SlotBlocks <= IapStart
  BY LayoutAssumption
<1>1. CASE ToolConnects \/ LinkLost \/ PowerLoss
  <2>1. tool' \notin {"erasing", "programming", "programmed", "ended"} /\ ~switched'
    BY <1>1 DEF ToolConnects, LinkLost, PowerLoss, link_onEstablished, link_onTerminated
  <2> QED BY <2>1 DEF ErasingInv, ProgrammingInv, EndedInv
<1>2. CASE ToolDrains
  <2>1. tool' = "connected" /\ ~switched'
    BY <1>2 DEF ToolDrains, OTAProfile_ReadAttrCB, hostVars
  <2> QED BY <2>1 DEF ErasingInv, ProgrammingInv, EndedInv
<1>3. CASE ToolErases
  <2>1. /\ tool' = "erasing" /\ block' = 0 /\ reply = "none" /\ ~switched'
        /\ EraseAdd' = 0 /\ EraseBlockNum' = SlotBlocks /\ EraseBlockCnt' = 0
    BY <1>3 DEF ToolErases, CmdErase
  <2>2. ~OutOfRange(0, SlotBlocks)
    BY <1>0 DEF OutOfRange
  <2>3. eraseEvt' /\ UNCHANGED <<reply, flash>>
    BY <1>3, <2>2 DEF ToolErases, CmdErase
  <2> QED BY <1>0, <2>1, <2>3 DEF ErasingInv, ProgrammingInv, EndedInv, TargetBlocks
<1>4. CASE ToolPrograms
  BY <1>4, SessionPrograms
<1>5. CASE ToolReads
  <2>1. /\ reply' = "none" /\ UNCHANGED <<flash, eraseEvt, block, switched>> /\ ~switched
        /\ reply # "none"
    BY <1>5 DEF ToolReads, OTAProfile_ReadAttrCB, eraseVars
  <2>2. CASE reply = "ok"
    <3>1. ~eraseEvt /\ ImageUpTo(block) /\ tool' = "programming"
      BY <1>5, <2>1, <2>2 DEF ToolReads, ErasingInv, ProgrammingInv, EndedInv
    <3> QED BY <2>1, <3>1 DEF ErasingInv, ProgrammingInv, EndedInv, ImageUpTo
  <2>3. CASE reply # "ok"
    BY <1>5, <2>1, <2>3 DEF ToolReads, ErasingInv, ProgrammingInv, EndedInv
  <2> QED BY <2>2, <2>3
<1>6. CASE EraseTurn
  BY <1>6, SessionTurn
<1>7. CASE UNCHANGED updateVars
  BY <1>7 DEF updateVars, vars, hostVars, eraseVars, ErasingInv, ProgrammingInv, EndedInv,
     ImageUpTo, SwitchedToWholeImage
<1>8. CASE OtherHost
  <2>1. tool' = "away"
    BY <1>8 DEF OtherHost, hostVars
  <2> QED BY <2>1 DEF ErasingInv, ProgrammingInv, EndedInv, SwitchedToWholeImage
<1> QED
  BY <1>1, <1>2, <1>3, <1>4, <1>5, <1>6, <1>7, <1>8 DEF UNext

\* The sessions of a tool that waits for an earlier erase and reads its reply
\* switch the badge only to a slot that holds the whole new image: for every slot
\* size, through other hosts, lost links, losses of power and failures of the flash.
THEOREM SessionSafeHolds ==
  ASSUME Patient
  PROVE  USpec => []SessionSafe
<1>1. SessionInv => SessionSafe
  BY DEF SessionInv, SessionSafe, EndedInv, SwitchedToWholeImage
<1> QED
  BY <1>1, InitSession, StepSession, PTL DEF USpec

=============================================================================
