-------------------------------- MODULE UsbIn -------------------------------
(***************************************************************************)
(* An endpoint for data (src/usb/composite/cdc-serial.c, and hiddev.c with *)
(* the same code): the main loop hands packets over, the interrupt of an   *)
(* IN token takes note that one was sent, and nothing but the flag         *)
(* transferred joins the two.                                              *)
(*                                                                         *)
(* The endpoint goes on answering with the last packet until a second      *)
(* token is answered by NAK; the host knows the repetition by its toggle.  *)
(* The controller raises no interrupt for a token that it answers by NAK.  *)
(***************************************************************************)
EXTENDS Naturals, Sequences

CONSTANTS
  Calls,       \* the lengths in packets of the messages given to cdc_tx_poll
  MaxPackets,  \* bound on the packets handed over
  MaxWrites,   \* bound on the packets the host writes
  Uses,        \* what a host may do with the port: "read", "write" or "both"
  HostPolls    \* a host that reads asks before wait_until_sent gives up

ASSUME UsbInAssumption ==
  /\ Calls \subseteq Nat \ {0}
  /\ {MaxPackets, MaxWrites} \subseteq Nat
  /\ Uses \subseteq {"read", "write", "both"}
  /\ HostPolls \in BOOLEAN

VARIABLES
  ep,           \* what the endpoint answers an IN token with
  data_ep_in,   \* the packet in the buffer: a number, or Torn while it is copied
  transferred,
  fill_tog,     \* the toggle of cdc_fill_IN
  out_tog,      \* the toggle of data_ep_handler
  at,           \* where the main loop is in cdc_tx_poll
  left,         \* packets of the message not yet handed over
  handed,       \* packets handed over
  reported,     \* those that cdc_tx_poll took for sent
  use,          \* what the host does with the port
  host_tog,     \* the toggle the host expects
  received,     \* packets the host took, in their order
  written       \* packets the host wrote, and on_write got

inVars == <<ep, data_ep_in, transferred, fill_tog, out_tog, at, left, handed, reported,
            use, host_tog, received, written>>

Torn == 0     \* in the middle of memcpy
Empty == 0    \* R8_UEP3_T_LEN of a handshake without data

inInit ==
  /\ ep = [res |-> "NAK", tog |-> 0, len |-> Empty]
  /\ data_ep_in = Torn
  /\ transferred = 0
  /\ fill_tog = 0 /\ out_tog = 0
  /\ at = "idle" /\ left = 0 /\ handed = 0 /\ reported = {}
  /\ use \in Uses
  /\ host_tog = 0 /\ received = <<>> /\ written = 0

-----------------------------------------------------------------------------
(* The main loop, interrupted between any two of these.                    *)

\* cdc_tx_poll with a message of n packets: the first is being copied.
cdc_tx_poll(n) ==
  /\ at = "idle" /\ handed + n <= MaxPackets
  /\ at' = "copying" /\ left' = n
  /\ data_ep_in' = Torn
  /\ UNCHANGED <<ep, transferred, fill_tog, out_tog, handed, reported, use, host_tog,
                 received, written>>

\* The memcpy of cdc_fill_IN is done.
Copied ==
  /\ at = "copying"
  /\ at' = "copied"
  /\ handed' = handed + 1
  /\ data_ep_in' = handed + 1
  /\ UNCHANGED <<ep, transferred, fill_tog, out_tog, left, reported, use, host_tog,
                 received, written>>

\* Fault: the toggle stays.
ArmIn_SameToggle ==
  /\ at = "copied"
  /\ at' = "armed"
  /\ ep' = [res |-> "ACK", tog |-> fill_tog, len |-> 1]
  /\ UNCHANGED <<fill_tog, data_ep_in, transferred, out_tog, left, handed, reported, use,
                 host_tog, received, written>>

\* set_handshake and the toggle of cdc_fill_IN.
ArmIn ==
  /\ at = "copied"
  /\ at' = "armed"
  /\ ep' = [res |-> "ACK", tog |-> fill_tog, len |-> 1]
  /\ fill_tog' = 1 - fill_tog
  /\ UNCHANGED <<data_ep_in, transferred, out_tog, left, handed, reported, use, host_tog,
                 received, written>>

\* Fault: the flag keeps the value of the last packet.
ClearTransferred_Forgets ==
  /\ at = "armed"
  /\ at' = "waiting"
  /\ UNCHANGED <<transferred, ep, data_ep_in, fill_tog, out_tog, left, handed, reported, use,
                 host_tog, received, written>>

ClearTransferred ==
  /\ at = "armed"
  /\ at' = "waiting"
  /\ transferred' = 0
  /\ UNCHANGED <<ep, data_ep_in, fill_tog, out_tog, left, handed, reported, use, host_tog,
                 received, written>>

\* wait_until_sent sees the flag: the next packet of the message, or the end.
Sent ==
  /\ at = "waiting" /\ transferred = 1
  /\ reported' = reported \cup {handed}
  /\ left' = left - 1
  /\ IF left > 1
       THEN at' = "copying" /\ data_ep_in' = Torn
       ELSE at' = "idle" /\ data_ep_in' = data_ep_in
  /\ UNCHANGED <<ep, transferred, fill_tog, out_tog, handed, use, host_tog, received, written>>

\* Fault: the rest of the message is not given up.
TimedOut_KeepsRest ==
  /\ at = "waiting" /\ transferred = 0
  /\ HostPolls /\ use # "write" => ep.res = "NAK"
  /\ at' = "idle"
  /\ UNCHANGED <<left, ep, data_ep_in, transferred, fill_tog, out_tog, handed, reported, use,
                 host_tog, received, written>>

\* Fault: it waits as long as there is a host.
TimedOut_NoHostOnly ==
  /\ at = "waiting" /\ transferred = 0
  /\ use = "write"
  /\ at' = "idle" /\ left' = 0
  /\ UNCHANGED <<ep, data_ep_in, transferred, fill_tog, out_tog, handed, reported, use,
                 host_tog, received, written>>

\* wait_until_sent gives up, and cdc_tx_poll with it.
TimedOut ==
  /\ at = "waiting" /\ transferred = 0
  /\ HostPolls /\ use # "write" => ep.res = "NAK"
  /\ at' = "idle" /\ left' = 0
  /\ UNCHANGED <<ep, data_ep_in, transferred, fill_tog, out_tog, handed, reported, use,
                 host_tog, received, written>>

-----------------------------------------------------------------------------
(* Tokens of the host, each with its interrupt, data_ep_handler.           *)

\* The host takes a packet with the toggle it expects and drops a repetition.
Takes(packet) ==
  IF ep.tog = host_tog
    THEN host_tog' = 1 - host_tog /\ received' = Append(received, packet)
    ELSE UNCHANGED <<host_tog, received>>

InToken ==
  /\ use # "write" /\ ep.res = "ACK"
  /\ IF ep.len = Empty
       THEN /\ received' = received
            /\ host_tog' = IF ep.tog = host_tog THEN 1 - host_tog ELSE host_tog
       ELSE Takes(data_ep_in)
  /\ IF transferred = 0
       THEN transferred' = 1 /\ ep' = ep
       ELSE transferred' = transferred /\ ep' = [res |-> "NAK", tog |-> 1, len |-> Empty]
  /\ UNCHANGED <<data_ep_in, fill_tog, out_tog, at, left, handed, reported, use, written>>

\* on_write gets the packet, and an empty packet is armed.
OutToken ==
  /\ use # "read" /\ written < MaxWrites
  /\ written' = written + 1
  /\ out_tog' = 1 - out_tog
  /\ ep' = [res |-> "ACK", tog |-> 1 - out_tog, len |-> Empty]
  /\ UNCHANGED <<data_ep_in, transferred, fill_tog, at, left, handed, reported, use, host_tog,
                 received>>

inNext ==
  \/ \E n \in Calls : cdc_tx_poll(n)
  \/ Copied \/ ArmIn \/ ClearTransferred \/ Sent \/ TimedOut
  \/ InToken \/ OutToken

\* The main loop runs on; a host that reads goes on polling.
inFairness ==
  /\ WF_inVars(Copied \/ ArmIn \/ ClearTransferred \/ Sent \/ TimedOut)
  /\ WF_inVars(InToken)

-----------------------------------------------------------------------------
(* Properties.                                                             *)

inTypeOK ==
  /\ ep \in [res : {"ACK", "NAK"}, tog : {0, 1}, len : {Empty, 1}]
  /\ data_ep_in \in 0..MaxPackets
  /\ {transferred, fill_tog, out_tog, host_tog} \subseteq {0, 1}
  /\ at \in {"idle", "copying", "copied", "armed", "waiting"}
  /\ (at = "idle") = (left = 0)
  /\ reported \subseteq 1..handed /\ handed <= MaxPackets
  /\ \A i \in DOMAIN received : received[i] \in 0..MaxPackets
  /\ written \in 0..MaxWrites

(* A packet that cdc_tx_poll takes for sent is one the host has taken, not a  *)
(* repetition of the last that it dropped: wherever the tokens fall between   *)
(* the copy, the handshake and the clearing of the flag.                      *)
SentIsReceived ==
  use # "write" => \A p \in reported : \E i \in DOMAIN received : received[i] = p

(* What the host takes are whole packets, each once and in their order,       *)
(* although the buffer is filled while the endpoint still answers.            *)
ReceivedInOrder ==
  /\ \A i \in DOMAIN received : received[i] # Torn
  /\ \A i, j \in DOMAIN received : i < j => received[i] < received[j]

(* What the badge takes for sent is what the host received: each packet once.  *)
PacketsOnce == inTypeOK /\ SentIsReceived /\ ReceivedInOrder

(* cdc_tx_poll comes back, also when an IN token fell between the handshake   *)
(* and the flag, or when nobody reads.                                        *)
PollReturns == at # "idle" ~> at = "idle"

=============================================================================
