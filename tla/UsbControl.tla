----------------------------- MODULE UsbControl -----------------------------
(***************************************************************************)
(* Control transfers over endpoint 0 (src/usb/ctrl.c, dev.c, utils.c and   *)
(* the class requests of hiddev.c and cdc-serial.c), and the host that     *)
(* enumerates the badge.                                                   *)
(*                                                                         *)
(* One buffer, ep0buf, takes the request and gives the reply, and the      *)
(* interrupt of every token reads the request from it again: what it reads *)
(* then may be the reply.  So the model keeps the first two bytes of the   *)
(* buffer, which decide what a handler takes it for, as the numbers they   *)
(* are.  The controller answers NAK while an interrupt is pending, so one  *)
(* token and its interrupt are one step.                                   *)
(***************************************************************************)
EXTENDS Integers, Sequences

CONSTANTS
  Addresses,     \* the addresses a host gives
  Enumeration,   \* the requests of an enumeration, in their order
  LaterRequests, \* what the host asks of a configured badge
  AddressFirst,  \* after a reset the host first gives a badge its new address
  MaxAborts,     \* bound on transfers the host gives up
  MaxLosses,     \* bound on acknowledgements of the host that are lost
  MaxResets      \* bound on bus resets

ASSUME UsbAssumption ==
  /\ Addresses \subseteq 1..127
  /\ AddressFirst \in BOOLEAN
  /\ {MaxAborts, MaxLosses, MaxResets} \subseteq Nat

VARIABLES
  dev,        \* the statics of the control code and the registers they set
  xfer,       \* the host's transfer
  host_ad,    \* the address at which the host speaks to the badge
  place,      \* how far the host is in Enumeration
  aborts, losses, resets

hostVars == <<xfer, host_ad, place, aborts, losses, resets>>
controlVars == <<dev, hostVars>>

MAX_PACKET_SIZE == 64
DEVICE == 0    \* USB_REQ_RECIP_DEVICE
INTERF == 1    \* USB_REQ_RECIP_INTERF

Lesser(a, b) == IF a <= b THEN a ELSE b

-----------------------------------------------------------------------------
(* Requests and the blocks that answer them.                               *)

Request(recip, index, req, desc, n, len) ==
  [recip |-> recip, index |-> index, req |-> req, desc |-> desc, n |-> n, len |-> len]

GetDescriptor(desc, len) == Request(DEVICE, 0, 6, desc, 0, len)
GetStatus == Request(DEVICE, 0, 0, "", 0, 2)
GetConfiguration == Request(DEVICE, 0, 8, "", 0, 1)
SetAddress(a) == Request(DEVICE, 0, 5, "", a, 0)
SetConfiguration == Request(DEVICE, 0, 9, "", 1, 0)
GetReportDescriptor == Request(INTERF, 0, 6, "report", 0, 34)
GetIdle == Request(INTERF, 0, 2, "", 0, 1)
GetProtocol == Request(INTERF, 0, 3, "", 0, 1)
SetIdle == Request(INTERF, 0, 10, "", 0, 0)

\* The descriptors that make the configuration, each by its first three bytes: its
\* own length, its type, and the number, address or subtype that follows.
cfg_static == <<9, 2, 9>>

\* Lengths are added in eight bits.
cfg_desc_append(cfg, desc) ==
  [wTotalLength |-> (cfg.wTotalLength + desc[1]) % 256,
   parts |-> cfg.parts \cup {[off |-> cfg.wTotalLength, desc |-> desc]}]

cfg ++ desc == cfg_desc_append(cfg, desc)

\* The interface, the HID descriptor and the two endpoints.
hiddev_init(cfg) == cfg ++ <<9, 4, 0>> ++ <<9, 33, 0>> ++ <<7, 5, 129>> ++ <<7, 5, 1>>

\* The interface, three functional descriptors, the notification endpoint and the
\* two of the data.
cdc_acm_init(cfg) ==
  cfg ++ <<9, 4, 1>> ++ <<5, 36, 0>> ++ <<4, 36, 2>> ++ <<4, 36, 1>>
      ++ <<7, 5, 130>> ++ <<7, 5, 3>> ++ <<7, 5, 131>>

cfg_desc == cdc_acm_init(hiddev_init([wTotalLength |-> 0, parts |-> {}] ++ cfg_static))

\* Bytes of a block.
BlockLength ==
  [device |-> 18, config |-> cfg_desc.wTotalLength, lang |-> 4, vendor |-> 36,
   product |-> 32, report |-> 34, status |-> 2, devcfg |-> 1, idle |-> 1, protocol |-> 1]

\* The first two bytes of a chunk.  The second of the configuration begins one byte
\* into a descriptor.
BytesAt(blk, off, devcfg) ==
  CASE blk = "device" -> <<18, 1>>
    [] blk = "config" ->
         LET part == CHOOSE x \in cfg_desc.parts : off \in x.off..x.off + x.desc[1] - 1
             at == off - part.off + 1
         IN <<part.desc[at], part.desc[at + 1]>>
    [] blk = "lang" -> <<4, 3>>
    [] blk = "vendor" -> <<36, 3>>
    [] blk = "product" -> <<32, 3>>
    [] blk = "report" -> <<6, 0>>
    [] blk = "devcfg" -> <<devcfg, 0>>
    [] OTHER -> <<0, 0>>

-----------------------------------------------------------------------------
(* utils.c, as operators on the record dev.                                *)

set_handshake(d, tog, len) == [d EXCEPT !.tx = [res |-> "ACK", tog |-> tog, len |-> len]]

ctrl_ack(d) == set_handshake(d, 1, 0)

\* The chunk lies over the request: its first byte holds the recipient.
Overlaid(d, blk, off, len) ==
  LET bytes == BytesAt(blk, off, d.devcfg) IN
  [d.buf EXCEPT !.recip = IF len > 0 THEN bytes[1] % 32 ELSE @,
                !.req = IF len > 1 THEN bytes[2] ELSE @]

\* Fault: a long block is not cut into packets.
load_chunk_NoLimit(d, blk, off, block_len, req_len, tog) ==
  LET len == Lesser(block_len, req_len)
  IN set_handshake([d EXCEPT !.buf = Overlaid(d, blk, off, len),
                             !.chunk = [blk |-> blk, off |-> off],
                             !.blk = blk,
                             !.p_buf = off + len,
                             !.remain_len = block_len - len], tog, len)

\* Fault: the pointer stays at the start of the block.
load_chunk_Restarts(d, blk, off, block_len, req_len, tog) ==
  LET most == Lesser(req_len, MAX_PACKET_SIZE)
      len == Lesser(block_len, most)
  IN set_handshake([d EXCEPT !.buf = Overlaid(d, blk, off, len),
                             !.chunk = [blk |-> blk, off |-> off],
                             !.blk = blk,
                             !.p_buf = off,
                             !.remain_len = block_len - len], tog, len)

load_chunk(d, blk, off, block_len, req_len, tog) ==
  LET most == Lesser(req_len, MAX_PACKET_SIZE)
      len == Lesser(block_len, most)
  IN set_handshake([d EXCEPT !.buf = Overlaid(d, blk, off, len),
                             !.chunk = [blk |-> blk, off |-> off],
                             !.blk = blk,
                             !.p_buf = off + len,
                             !.remain_len = block_len - len], tog, len)

usb_load_next_chunk(d) ==
  IF d.remain_len > 0
    THEN [load_chunk(d, d.blk, d.p_buf, d.remain_len, d.req_len, d._tog)
            EXCEPT !._tog = 1 - d._tog]
    ELSE [d EXCEPT !._tog = 0]

\* Fault: the second chunk has the toggle of the first.
ctrl_start_load_block_SameToggle(d, blk, len) ==
  [load_chunk(d, blk, 0, len, len, 1) EXCEPT !.req_len = len, !._tog = 1]

ctrl_start_load_block(d, blk, len) ==
  [load_chunk(d, blk, 0, len, len, 1) EXCEPT !.req_len = len, !._tog = 0]

-----------------------------------------------------------------------------
(* dev.c, and the class requests.                                          *)

\* Descriptors have the length they say, the configuration the one asked for.
dev_getDesc(d) ==
  CASE d.buf.desc = "config" -> ctrl_start_load_block(d, "config", d.buf.len)
    [] d.buf.desc \in {"device", "lang", "vendor", "product"} ->
         ctrl_start_load_block(d, d.buf.desc, BlockLength[d.buf.desc])
    [] OTHER -> d

\* Fault: the controller is given the address at once.
dev_setAddress_AtOnce(d) ==
  ctrl_ack([d EXCEPT !.address = d.buf.n, !.R8_USB_DEV_AD = d.buf.n])

dev_setAddress(d) == ctrl_ack([d EXCEPT !.address = d.buf.n])

\* Fault: a configuration is set and not acknowledged.
dev_setConfig_NoAck(d) == [d EXCEPT !.devcfg = d.buf.n]

dev_setConfig(d) == ctrl_ack([d EXCEPT !.devcfg = d.buf.n])

handle_devreq(d) ==
  CASE d.buf.req = 0 -> ctrl_start_load_block(d, "status", 2)
    [] d.buf.req = 5 -> dev_setAddress(d)
    [] d.buf.req = 6 -> dev_getDesc(d)
    [] d.buf.req = 8 -> ctrl_start_load_block(d, "devcfg", 1)
    [] d.buf.req = 9 -> dev_setConfig(d)
    [] OTHER -> d

hid_request_handler(d) ==
  CASE d.buf.req = 6 /\ d.buf.desc = "report" -> ctrl_start_load_block(d, "report", 34)
    [] d.buf.req = 2 -> ctrl_start_load_block(d, "idle", 1)
    [] d.buf.req = 3 -> ctrl_start_load_block(d, "protocol", 1)
    [] d.buf.req \in {9, 10} -> ctrl_ack(d)
    [] OTHER -> d

\* The handler of the CDC interface, 1, is empty, and there are no others.
route_interfaces(d) == IF d.buf.index = 0 THEN hid_request_handler(d) ELSE d

-----------------------------------------------------------------------------
(* ctrl.c.                                                                 *)

ep_handler(d, token) ==
  IF d.buf.recip = INTERF THEN route_interfaces(d)
  ELSE IF token = "SETUP" THEN
    IF d.buf.recip = DEVICE THEN handle_devreq(d) ELSE d
  ELSE
    LET acked == IF token = "OUT" /\ d.buf.req = 1 THEN ctrl_ack(d) ELSE d
    IN usb_load_next_chunk([acked EXCEPT !.R8_USB_DEV_AD = acked.address])

\* Endpoint 0 hears of a SETUP twice.
route_enpoints(d, token) ==
  IF token = "SETUP" THEN ep_handler(ep_handler(d, token), token) ELSE ep_handler(d, token)

\* The statics stay as they are.
handle_busReset(d) ==
  [d EXCEPT !.R8_USB_DEV_AD = 0, !.tx = [res |-> "NAK", tog |-> 0, len |-> 0]]

-----------------------------------------------------------------------------
(* The host.                                                               *)

Idle == [stage |-> "idle", r |-> GetStatus, tog |-> 0, got |-> <<>>]

usb_start ==
  /\ dev = [buf |-> GetStatus, tx |-> [res |-> "NAK", tog |-> 0, len |-> 0],
            chunk |-> [blk |-> "status", off |-> 0],
            blk |-> "status", p_buf |-> 0, remain_len |-> 0, req_len |-> 0, _tog |-> 0,
            address |-> 0, R8_USB_DEV_AD |-> 0, devcfg |-> 0]
  /\ xfer = Idle
  /\ host_ad = 0 /\ place = 1
  /\ aborts = 0 /\ losses = 0 /\ resets = 0

Configured == place > Len(Enumeration)

(* What the host asks next: the first descriptor, if it may before the badge  *)
(* has its address, then the enumeration, and then anything.                  *)
Wanted(r) ==
  CASE host_ad = 0 ->
         \/ r \in {SetAddress(a) : a \in Addresses}
         \/ place = 1 /\ r = Enumeration[1] /\ ~(AddressFirst /\ dev.address # 0)
    [] host_ad # 0 /\ ~Configured -> r = Enumeration[place]
    [] OTHER -> r \in LaterRequests

Requests == LaterRequests \cup {Enumeration[i] : i \in 1..Len(Enumeration)}
              \cup {SetAddress(a) : a \in Addresses}

Answered == dev.R8_USB_DEV_AD = host_ad

Begin(r) ==
  /\ xfer' = [stage |-> IF r.len > 0 THEN "data" ELSE "status", r |-> r, tog |-> 1, got |-> <<>>]
  /\ dev' = route_enpoints([dev EXCEPT !.buf = r], "SETUP")

Setup(r) ==
  /\ Answered /\ Wanted(r) /\ xfer.stage = "idle"
  /\ Begin(r)
  /\ UNCHANGED <<host_ad, place, aborts, losses, resets>>

\* The host gives a transfer up and begins another.
SetupAgain(r) ==
  /\ Answered /\ Wanted(r) /\ xfer.stage \in {"data", "statusOut", "status"}
  /\ aborts < MaxAborts /\ aborts' = aborts + 1
  /\ Begin(r)
  /\ UNCHANGED <<host_ad, place, losses, resets>>

Received(got) == IF got = <<>> THEN 0 ELSE got[Len(got)].off + got[Len(got)].len

\* The packet that answers an IN token, as the host takes it.
TakeData ==
  LET piece == [blk |-> dev.chunk.blk, off |-> dev.chunk.off, len |-> dev.tx.len]
      got == Append(xfer.got, piece)
      ends == dev.tx.len < MAX_PACKET_SIZE \/ Received(got) >= xfer.r.len
  IN IF dev.tx.tog # xfer.tog THEN xfer' = xfer
     ELSE xfer' = [xfer EXCEPT !.got = got, !.tog = 1 - xfer.tog,
                               !.stage = IF ends THEN "statusOut" ELSE "data"]

DataIn ==
  /\ Answered /\ xfer.stage = "data" /\ dev.tx.res = "ACK"
  /\ TakeData
  /\ \/ dev' = ep_handler(dev, "IN") /\ losses' = losses
     \/ dev' = dev /\ losses < MaxLosses /\ losses' = losses + 1
  /\ UNCHANGED <<host_ad, place, aborts, resets>>

GivesAddress == xfer.r.recip = DEVICE /\ xfer.r.req = 5

\* The host goes on in its enumeration when a transfer is complete.
Completed(ok) ==
  /\ xfer' = [xfer EXCEPT !.stage = IF ok THEN "idle" ELSE "failed"]
  /\ host_ad' = IF ok /\ GivesAddress THEN xfer.r.n ELSE host_ad
  /\ place' = IF ~ok \/ Configured THEN place
              ELSE IF GivesAddress THEN 2 ELSE place + 1

StatusOut ==
  /\ Answered /\ xfer.stage = "statusOut"
  /\ dev' = ep_handler(dev, "OUT")
  /\ Completed(TRUE)
  /\ UNCHANGED <<aborts, losses, resets>>

StatusIn ==
  /\ Answered /\ xfer.stage = "status" /\ dev.tx.res = "ACK"
  /\ dev' = ep_handler(dev, "IN")
  /\ Completed(dev.tx.len = 0 /\ dev.tx.tog = 1)
  /\ UNCHANGED <<aborts, losses, resets>>

\* The host resets the bus and starts over.
BusReset ==
  /\ resets < MaxResets
  /\ resets' = resets + 1
  /\ dev' = handle_busReset(dev)
  /\ xfer' = Idle /\ host_ad' = 0 /\ place' = 1
  /\ UNCHANGED <<aborts, losses>>

controlInit == usb_start

controlNext ==
  \/ \E r \in Requests : Setup(r) \/ SetupAgain(r)
  \/ DataIn \/ StatusOut \/ StatusIn

\* The host goes on with what it began, and with its enumeration.
controlFairness ==
  /\ WF_controlVars(\E r \in Requests : Setup(r))
  /\ WF_controlVars(DataIn) /\ WF_controlVars(StatusOut) /\ WF_controlVars(StatusIn)

-----------------------------------------------------------------------------
(* Properties.                                                             *)

Pieces == [blk : DOMAIN BlockLength, off : Nat, len : Nat]

ControlTypeOK ==
  /\ dev.buf.recip \in 0..31 /\ dev.buf.req \in 0..255
  /\ dev.tx \in [res : {"ACK", "NAK"}, tog : {0, 1}, len : 0..MAX_PACKET_SIZE]
  /\ dev.chunk.blk \in DOMAIN BlockLength
  /\ {dev.address, dev.R8_USB_DEV_AD, host_ad} \subseteq Addresses \cup {0}
  /\ dev.remain_len + dev.p_buf <= 255
  /\ xfer.stage \in {"idle", "data", "statusOut", "status", "failed"}
  /\ \A i \in DOMAIN xfer.got : xfer.got[i] \in Pieces
  /\ place \in 1..(Len(Enumeration) + 1)

\* The block that answers a request.
Asked(r) ==
  CASE r.req = 6 -> r.desc
    [] r.req = 0 -> "status"
    [] r.req = 8 -> "devcfg"
    [] r.req = 2 -> "idle"
    [] OTHER -> "protocol"

(* A read that the host takes for complete gave it the block it asked for,   *)
(* chunk after chunk from its first byte to the last that was asked for,     *)
(* whatever transfers were given up before it, though the chunks lie where   *)
(* the request was and every token looks for a request there.                *)
ReplyWhole ==
  xfer.stage = "statusOut" =>
    LET want == Asked(xfer.r) IN
    /\ \A i \in DOMAIN xfer.got :
         /\ xfer.got[i].blk = want
         /\ xfer.got[i].off = (i - 1) * MAX_PACKET_SIZE
    /\ Received(xfer.got) = Lesser(xfer.r.len, BlockLength[want])

(* A request without data is answered by an empty packet with the toggle of   *)
(* a status stage, not by what an earlier reply left in the buffer.           *)
StatusIsEmpty == xfer.stage # "failed"

(* Every transfer that the host takes for complete was what it asked for, with *)
(* data or without.                                                           *)
RepliesWhole == ControlTypeOK /\ ReplyWhole /\ StatusIsEmpty

(* The badge answers at the address the host uses: the new address holds from *)
(* the status stage of its request, neither before nor after, and a reset     *)
(* takes it away.                                                             *)
AddressTogether == dev.R8_USB_DEV_AD = host_ad

(* Hosts that give transfers up, lose acknowledgements and reset the bus, but *)
(* not for ever, end with a configured badge.                                 *)
EnumerationEnds == <>[]Configured

=============================================================================
