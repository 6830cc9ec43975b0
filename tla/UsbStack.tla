------------------------------ MODULE UsbStack ------------------------------
(***************************************************************************)
(* The USB device: enumeration and later requests on endpoint 0, data on   *)
(* its own endpoint.  One interrupt serves both.  A host opens the port    *)
(* once the badge is configured.                                           *)
(***************************************************************************)
EXTENDS UsbControl, UsbIn

CONSTANT ResetWhileOpen  \* the bus is also reset after the port was used

ASSUME ResetAssumption == ResetWhileOpen \in BOOLEAN

vars == <<controlVars, inVars>>

Init == controlInit /\ inInit

(* handle_busReset leaves every endpoint with NAK, and the statics of the     *)
(* handlers alone.  The host's next configuration sets its toggles to DATA0.  *)
Reset ==
  /\ ~ResetWhileOpen => handed + written = 0 /\ at = "idle"
  /\ BusReset
  /\ ep' = [res |-> "NAK", tog |-> 0, len |-> Empty]
  /\ host_tog' = 0
  /\ UNCHANGED <<data_ep_in, transferred, fill_tog, out_tog, at, left, handed, reported,
                 use, received, written>>

Next ==
  \/ controlNext /\ UNCHANGED inVars
  \/ Configured /\ inNext /\ UNCHANGED controlVars
  \/ Reset

Spec == Init /\ [][Next]_vars /\ controlFairness /\ inFairness

=============================================================================
