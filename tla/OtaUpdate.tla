----------------------------- MODULE OtaUpdate ------------------------------
(***************************************************************************)
(* OtaDevice with two hosts, one after the other in any order.             *)
(*                                                                         *)
(* One is the update tool that bootloader/OTA.md documents: connect, erase *)
(* the slot, program it block by block, end; each command is followed by   *)
(* reads of the characteristic until a reply is there.  The other sends    *)
(* commands in any order and reads when it likes.  Neither is part of the  *)
(* repository.                                                             *)
(*                                                                         *)
(* The link may be lost and the badge may lose power at any moment; the    *)
(* tool then starts over.  A patient tool does so only when an erase of an *)
(* earlier session is over and its reply has been read; the documented one *)
(* has no way to know.                                                     *)
(***************************************************************************)
EXTENDS OtaDevice

CONSTANTS
  Patient,      \* the tool waits for what an earlier session left behind
  MaxSessions   \* bound on the sessions of the tool

ASSUME HostAssumption == Patient \in BOOLEAN /\ MaxSessions \in Nat

VARIABLES
  tool,      \* what the tool is doing; "away" while another host may be connected
  block,     \* the block it programs next
  sessions   \* sessions begun so far

hostVars == <<tool, block, sessions>>
updateVars == <<vars, hostVars>>

UInit ==
  /\ Init
  /\ tool = "away"
  /\ block = 0
  /\ sessions = 0

ToolConnects ==
  /\ tool = "away" /\ sessions < MaxSessions
  /\ link_onEstablished
  /\ tool' = "connected"
  /\ sessions' = sessions + 1
  /\ UNCHANGED block

\* A patient tool reads what an earlier session left.
ToolDrains ==
  /\ tool = "connected" /\ Patient
  /\ OTAProfile_ReadAttrCB
  /\ UNCHANGED hostVars

ToolErases ==
  /\ tool = "connected"
  /\ Patient => ~eraseEvt /\ reply = "none"
  /\ CmdErase(0, SlotBlocks)
  /\ tool' = "erasing"
  /\ block' = 0
  /\ UNCHANGED sessions

ToolPrograms ==
  /\ tool = "programming"
  /\ IF block \in TargetBlocks
     THEN CmdProm(block) /\ tool' = "programmed" /\ block' = block + 1
     ELSE CmdEnd /\ tool' = "ended" /\ UNCHANGED block
  /\ UNCHANGED sessions

\* The tool reads a reply and goes on, or gives up on a failure.
ToolReads ==
  /\ tool \in {"erasing", "programmed", "ended"}
  /\ OTAProfile_ReadAttrCB
  /\ tool' = IF reply = "ok" THEN "programming" ELSE "failed"
  /\ UNCHANGED <<block, sessions>>

\* Another host, while the tool is away.
OtherHost ==
  /\ tool = "away"
  /\ \/ link_onEstablished \/ OTAProfile_ReadAttrCB
     \/ \E c \in EraseCommands : CmdErase(c[1], c[2])
     \/ \E b \in ProgBlocks : CmdProm(b) \/ CmdVerify(b)
     \/ CmdEnd \/ CmdInfo
  /\ UNCHANGED hostVars

\* The tool hangs up after a failure, or the link to either host is lost.
LinkLost ==
  /\ link_onTerminated
  /\ tool' = "away"
  /\ UNCHANGED <<block, sessions>>

\* The badge loses power: what is not in flash starts afresh.
PowerLoss ==
  /\ ~switched
  /\ EraseAdd' = 0 /\ EraseBlockNum' = 0 /\ EraseBlockCnt' = 0
  /\ eraseEvt' = FALSE
  /\ VerifyStatus' = FALSE
  /\ reply' = "none"
  /\ connected' = FALSE
  /\ ota_display_active' = FALSE
  /\ total' = 0 /\ written' = 0 /\ ota_last_pct' = NoPct
  /\ tool' = "away"
  /\ UNCHANGED <<flash, switched, block, sessions>>

EraseTurn == OTA_FLASH_ERASE_EVT /\ UNCHANGED hostVars

UNext ==
  \/ ToolConnects
  \/ ToolDrains
  \/ ToolErases
  \/ ToolPrograms
  \/ ToolReads
  \/ OtherHost
  \/ LinkLost
  \/ PowerLoss
  \/ EraseTurn

\* The badge runs the events that are set; the tool goes on with its session.
USpec ==
  /\ UInit /\ [][UNext]_updateVars
  /\ WF_updateVars(EraseTurn)
  /\ WF_updateVars(ToolDrains \/ ToolErases \/ ToolPrograms \/ ToolReads)
  /\ WF_updateVars(tool = "failed" /\ LinkLost)

-----------------------------------------------------------------------------
(* Properties.                                                             *)

\* Types of the tool's state.
HostTypeOK ==
  /\ TypeOK
  /\ tool \in {"away", "connected", "erasing", "programming", "programmed", "ended", "failed"}
  /\ block \in 0..SlotBlocks
  /\ sessions \in 0..MaxSessions

\* The tool switches the flag only to a slot that holds the whole new image, through
\* lost links, power losses and flash failures in earlier sessions, its own and others'.
SwitchedToWholeImage ==
  switched /\ tool = "ended" => \A b \in TargetBlocks : flash[b] = "new"

\* The same for the run of a tool that waits out an earlier session.
SessionSafe == HostTypeOK /\ SwitchedToWholeImage

\* No session of the tool waits for ever: the flag is switched or the link goes down.
SessionEnds == tool # "away" ~> (switched \/ tool = "away")

=============================================================================
