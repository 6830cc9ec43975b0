----------------------------- MODULE BootPolicy -----------------------------
(***************************************************************************)
(* What the ping-pong boot of the badge promises, without the dataflash    *)
(* record that implements it.                                              *)
(*                                                                         *)
(* There are two firmware slots.  Every boot attempt goes to slot `next'.  *)
(* An attempt is a trial until the application confirms itself; a trial    *)
(* that ends without a confirmation sends the following attempt to the     *)
(* other slot, a confirmed boot is repeated, and a finished update sends   *)
(* the following attempt to the slot that was updated.                     *)
(*                                                                         *)
(* Two departures are part of the promise because the code has them: power *)
(* lost while the decision is being stored makes the badge forget it and   *)
(* start over with slot "A", and while no slot has ever been named the     *)
(* trial of "A" may be repeated instead of reverted.                       *)
(***************************************************************************)

VARIABLES
  phase,   \* "down", "trial" (booted, not confirmed) or "running"
  cur,     \* the slot of the latest attempt
  next,    \* the slot the next attempt will go to
  named    \* FALSE while the badge only defaults to slot "A"

vars == <<phase, cur, next, named>>

Slots == {"A", "B"}
Other(s) == IF s = "A" THEN "B" ELSE "A"

Init ==
  /\ phase = "down"
  /\ cur = "A"
  /\ next = "A"
  /\ named = FALSE

Attempt ==
  /\ phase = "down"
  /\ phase' = "trial"
  /\ cur' = next
  /\ \/ /\ next' = Other(next)
        /\ named' = TRUE
     \/ /\ ~named
        /\ UNCHANGED <<next, named>>

Confirm ==
  /\ phase = "trial"
  /\ phase' = "running"
  /\ next' = cur
  /\ UNCHANGED <<cur, named>>

FinishUpdate ==
  /\ phase = "running"
  /\ phase' = "down"
  /\ next' = Other(cur)
  /\ named' = TRUE
  /\ UNCHANGED cur

PowerLoss ==
  /\ phase' = "down"
  /\ UNCHANGED <<cur, next, named>>

ForgetfulPowerLoss ==
  /\ phase' = "down"
  /\ next' = "A"
  /\ named' = FALSE
  /\ UNCHANGED cur

Next ==
  \/ Attempt
  \/ Confirm
  \/ FinishUpdate
  \/ PowerLoss
  \/ ForgetfulPowerLoss

Spec == Init /\ [][Next]_vars

=============================================================================
