----------------------------- MODULE DataFlash ------------------------------
(***************************************************************************)
(* The two users of the data flash that survive a reset: the boot record   *)
(* (BootOta, the page at 0x7000) and the configuration with the high score *)
(* (ConfigStore, the last two pages).  Neither touches the other's pages,  *)
(* but one reset ends what both are doing.                                 *)
(*                                                                         *)
(* cfg_init runs after ota_confirm_boot (main.c:965-968), and commands,    *)
(* games and updates are handlers of the same main loop: none begins while *)
(* another is half done, so an update that ends never cuts off a save.     *)
(***************************************************************************)
EXTENDS BootOta, ConfigStore

dataVars == <<vars, cfgVars>>

DataInit == Init /\ cfgInit

\* The loader and the application up to its confirmation.
Boots == (Loader \/ App) /\ UNCHANGED cfgVars

Updates == doing = "nothing" /\ (WriteTarget \/ EndErase) /\ UNCHANGED cfgVars

Configures ==
  /\ pc = "run"
  /\ Configure \/ SaveHead \/ SaveRest \/ show_score \/ WriteScore
  /\ UNCHANGED vars

\* A reset at any time, and the one that ends an update.
Resets == (EndWriteAndReset \/ Reset \/ ResetDead) /\ Reboot

DataNext == Boots \/ Updates \/ Configures \/ Resets

DataSpec == DataInit /\ [][DataNext]_dataVars /\ Fairness

=============================================================================
