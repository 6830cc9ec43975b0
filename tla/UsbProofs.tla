------------------------------ MODULE UsbProofs ------------------------------
(***************************************************************************)
(* Proofs about UsbStack.  On the endpoint for data: what the badge takes  *)
(* for sent is what the host received, each packet once and in order, for  *)
(* all messages and wherever the tokens of the host fall.  On endpoint 0:  *)
(* the host gets from every transfer what it asked for, and reaches the    *)
(* badge at the address it gave, for any bounds on what it gives up.       *)
(***************************************************************************)
EXTENDS UsbStack, SequenceTheorems, TLAPS

-----------------------------------------------------------------------------
(* Data packets.                                                           *)

Places == {"idle", "copying", "copied", "armed", "waiting"}

\* The types, and how much of a message is left.
InTypes ==
  /\ ep \in [res : {"ACK", "NAK"}, tog : {0, 1}, len : {Empty, 1}]
  /\ data_ep_in \in 0..MaxPackets
  /\ transferred \in {0, 1} /\ fill_tog \in {0, 1} /\ out_tog \in {0, 1} /\ host_tog \in {0, 1}
  /\ at \in Places
  /\ left \in Nat /\ handed \in Nat
  /\ at = "idle" <=> left = 0
  /\ at \in {"idle", "copying"} => handed + left <= MaxPackets
  /\ at \notin {"idle", "copying"} => handed > 0 /\ handed + left - 1 <= MaxPackets
  /\ reported \subseteq 1..handed
  /\ received \in Seq(0..MaxPackets)
  /\ written \in 0..MaxWrites
  /\ use \in Uses

\* What the host took are packets that were handed over, in their order.
TakenInOrder ==
  /\ \A i \in 1..Len(received) : received[i] \in 1..handed
  /\ \A i, j \in 1..Len(received) : i < j => received[i] < received[j]

\* The host has the packet that was handed over last.
TakenLast == \E i \in 1..Len(received) : received[i] = handed

\* A host that only reads: between two packets its toggle is that of the next one,
\* so that what the endpoint still answers is a repetition; an armed packet is
\* answered until the host has taken it, and the flag is not set before.
ReaderInv ==
  use = "read" =>
    /\ \A p \in reported : \E i \in 1..Len(received) : received[i] = p
    /\ handed = 0 => fill_tog = 0
    /\ ep.res = "ACK" => ep.len = 1
    /\ at \in {"idle", "copying", "copied"} =>
         fill_tog = host_tog /\ (ep.res = "ACK" => ep.tog # host_tog)
    /\ at = "copied" => \A i \in 1..Len(received) : received[i] < handed
    /\ at \in {"copied", "armed", "waiting"} => data_ep_in = handed
    /\ at \in {"armed", "waiting"} =>
         \/ /\ fill_tog = host_tog /\ TakenLast
            /\ ep.res = "ACK" => ep.tog # host_tog
         \/ /\ fill_tog # host_tog
            /\ ep.res = "ACK" /\ ep.tog = host_tog
            /\ at = "waiting" => transferred = 0
            /\ \A i \in 1..Len(received) : received[i] < handed

\* A host that only writes takes nothing.
WriterInv == use = "write" => received = <<>>

InInv == InTypes /\ TakenInOrder /\ ReaderInv /\ WriterInv

LEMMA InInvImplies ==
  ASSUME Uses \subseteq {"read", "write"}
  PROVE  InInv => PacketsOnce
<1> SUFFICES ASSUME InInv PROVE PacketsOnce
  OBVIOUS
<1> USE DEF InInv
<1>0. received \in Seq(0..MaxPackets) /\ DOMAIN received = 1..Len(received)
  BY DEF InTypes
<1>1. inTypeOK
  <2>1. handed <= MaxPackets
    BY UsbInAssumption DEF InTypes, Places
  <2>2. \A i \in DOMAIN received : received[i] \in 0..MaxPackets
    BY <1>0, ElementOfSeq
  <2>3. (at = "idle") = (left = 0)
    BY Zenon DEF InTypes
  <2>4. {transferred, fill_tog, out_tog, host_tog} \subseteq {0, 1}
    BY DEF InTypes
  <2>5. at \in {"idle", "copying", "copied", "armed", "waiting"}
    BY DEF InTypes, Places
  <2>6. /\ ep \in [res : {"ACK", "NAK"}, tog : {0, 1}, len : {Empty, 1}]
        /\ data_ep_in \in 0..MaxPackets
        /\ reported \subseteq 1..handed /\ written \in 0..MaxWrites
    BY DEF InTypes
  <2> QED BY <2>1, <2>2, <2>3, <2>4, <2>5, <2>6, Zenon DEF inTypeOK
<1>2. SentIsReceived
  BY <1>0 DEF SentIsReceived, ReaderInv, InTypes
<1>3. ReceivedInOrder
  BY <1>0 DEF ReceivedInOrder, TakenInOrder, Torn
<1> QED BY <1>1, <1>2, <1>3 DEF PacketsOnce

LEMMA InitIn == inInit => InInv
<1> SUFFICES ASSUME inInit PROVE InInv
  OBVIOUS
<1>1. received = <<>> /\ Len(received) = 0 /\ reported = {} /\ handed = 0
  BY DEF inInit
<1> QED
  BY <1>1, UsbInAssumption DEF inInit, InInv, InTypes, TakenInOrder, ReaderInv, WriterInv,
     Places, Torn, Empty

\* The main loop's side: no packet is taken in any of its steps.
LEMMA LoopStep ==
  ASSUME InInv, HostPolls, Uses \subseteq {"read", "write"},
         \/ \E n \in Calls : cdc_tx_poll(n)
         \/ Copied \/ ArmIn \/ ClearTransferred \/ Sent \/ TimedOut
  PROVE  InInv'
<1> USE DEF InInv, TakenLast
<1>0. MaxPackets \in Nat /\ UNCHANGED <<use, host_tog, received, written, out_tog>>
  BY UsbInAssumption DEF cdc_tx_poll, Copied, ArmIn, ClearTransferred, Sent, TimedOut
<1>1. WriterInv'
  BY <1>0 DEF WriterInv
<1>2. ASSUME NEW n \in Calls, cdc_tx_poll(n)
      PROVE  InInv'
  <2>1. n \in Nat /\ n > 0
    BY UsbInAssumption
  <2>2. InTypes'
    BY <1>0, <1>2, <2>1 DEF cdc_tx_poll, InTypes, Places, Torn
  <2>3. TakenInOrder' /\ ReaderInv'
    BY <1>0, <1>2 DEF cdc_tx_poll, TakenInOrder, ReaderInv
  <2> QED BY <1>1, <2>2, <2>3
<1>3. CASE Copied
  <2>1. handed + 1 <= MaxPackets
    BY <1>0, <1>3 DEF Copied, InTypes
  <2>2. InTypes'
    BY <1>0, <1>3, <2>1 DEF Copied, InTypes, Places
  <2>3. TakenInOrder' /\ ReaderInv'
    BY <1>0, <1>3 DEF Copied, InTypes, TakenInOrder, ReaderInv
  <2> QED BY <1>1, <2>2, <2>3
<1>4. CASE ArmIn
  <2>1. InTypes'
    BY <1>0, <1>4 DEF ArmIn, InTypes, Places
  <2>2. TakenInOrder' /\ ReaderInv'
    BY <1>0, <1>4 DEF ArmIn, InTypes, TakenInOrder, ReaderInv
  <2> QED BY <1>1, <2>1, <2>2
<1>5. CASE ClearTransferred
  <2>1. InTypes'
    BY <1>0, <1>5 DEF ClearTransferred, InTypes, Places
  <2>2. TakenInOrder' /\ ReaderInv'
    BY <1>0, <1>5 DEF ClearTransferred, TakenInOrder, ReaderInv
  <2> QED BY <1>1, <2>1, <2>2
<1>6. CASE Sent
  <2>1. /\ at = "waiting" /\ transferred = 1 /\ left > 0 /\ left \in Nat
        /\ handed \in Nat /\ handed + left - 1 <= MaxPackets
        /\ left' = left - 1 /\ reported' = reported \cup {handed}
        /\ UNCHANGED <<ep, transferred, fill_tog, handed>>
        /\ IF left > 1 THEN at' = "copying" /\ data_ep_in' = Torn
                       ELSE at' = "idle" /\ data_ep_in' = data_ep_in
    BY <1>6 DEF Sent, InTypes
  <2>2. InTypes'
    <3>1. handed > 0
      BY <2>1 DEF InTypes
    <3> QED BY <1>0, <2>1, <3>1 DEF InTypes, Places, Torn
  <2>3. TakenInOrder' /\ ReaderInv'
    BY <1>0, <2>1 DEF TakenInOrder, ReaderInv
  <2> QED BY <1>1, <2>2, <2>3
<1>7. CASE TimedOut
  <2>1. InTypes'
    BY <1>0, <1>7 DEF TimedOut, InTypes, Places
  <2>2. TakenInOrder' /\ ReaderInv'
    BY <1>0, <1>7 DEF TimedOut, TakenInOrder, ReaderInv
  <2> QED BY <1>1, <2>1, <2>2
<1> QED BY <1>2, <1>3, <1>4, <1>5, <1>6, <1>7


\* A token that the endpoint answers: the first answer of a packet is taken, and
\* every other one is a repetition.
LEMMA InTokenStep ==
  ASSUME InInv, Uses \subseteq {"read", "write"}, InToken
  PROVE  InInv'
<1> USE DEF InInv, TakenLast
<1>0. /\ use = "read" /\ ep.res = "ACK" /\ ep.len = 1 /\ received \in Seq(0..MaxPackets)
      /\ UNCHANGED <<data_ep_in, fill_tog, out_tog, at, left, handed, reported, use, written>>
      /\ Takes(data_ep_in)
      /\ IF transferred = 0
         THEN transferred' = 1 /\ ep' = ep
         ELSE transferred' = transferred /\ ep' = [res |-> "NAK", tog |-> 1, len |-> Empty]
  BY DEF InToken, InTypes, ReaderInv, Empty
<1>1. ep' \in [res : {"ACK", "NAK"}, tog : {0, 1}, len : {Empty, 1}]
      /\ (ep'.res = "ACK" => ep' = ep) /\ transferred' = 1
  BY <1>0 DEF InTypes, Empty
<1>2. CASE ep.tog = host_tog
  <2>1. /\ at \in {"armed", "waiting"} /\ fill_tog # host_tog /\ handed > 0
        /\ data_ep_in = handed /\ data_ep_in \in 0..MaxPackets
        /\ \A i \in 1..Len(received) : received[i] < handed
    BY <1>0, <1>2 DEF ReaderInv, InTypes, Places
  <2>2. host_tog' = 1 - host_tog /\ received' = Append(received, handed)
    BY <1>0, <1>2, <2>1 DEF Takes
  <2>3. /\ received' \in Seq(0..MaxPackets) /\ Len(received') = Len(received) + 1
        /\ \A i \in 1..Len(received) : received'[i] = received[i]
        /\ received'[Len(received) + 1] = handed
        /\ Len(received) \in Nat
    BY <1>0, <2>1, <2>2, AppendProperties
  <2>4. host_tog' = fill_tog /\ host_tog' \in {0, 1} /\ ep.tog # host_tog'
    BY <1>2, <2>1, <2>2 DEF InTypes
  <2>5. InTypes'
    BY <1>0, <1>1, <2>3, <2>4 DEF InTypes
  <2>6. TakenInOrder'
    BY <1>0, <2>1, <2>3, SMTT(30) DEF TakenInOrder, InTypes
  <2>7. TakenLast'
    BY <1>0, <2>3
  <2>8. ReaderInv'
    BY <1>0, <1>1, <2>1, <2>3, <2>4, <2>7 DEF ReaderInv
  <2> QED BY <1>0, <2>5, <2>6, <2>8 DEF WriterInv
<1>3. CASE ep.tog # host_tog
  <2>1. UNCHANGED <<host_tog, received>>
    BY <1>0, <1>3 DEF Takes
  <2>2. InTypes'
    BY <1>0, <1>1, <2>1 DEF InTypes
  <2>3. TakenInOrder' /\ ReaderInv' /\ WriterInv'
    BY <1>0, <1>1, <1>3, <2>1 DEF TakenInOrder, ReaderInv, WriterInv
  <2> QED BY <2>2, <2>3
<1> QED BY <1>2, <1>3

LEMMA OutTokenStep ==
  ASSUME InInv, Uses \subseteq {"read", "write"}, OutToken
  PROVE  InInv'
<1>1. use = "write" /\ UNCHANGED <<data_ep_in, transferred, fill_tog, at, left, handed, reported,
                                   use, host_tog, received>>
  BY DEF OutToken, InInv, InTypes
<1>2. written' \in 0..MaxWrites /\ out_tog' \in {0, 1}
      /\ ep' \in [res : {"ACK", "NAK"}, tog : {0, 1}, len : {Empty, 1}]
  BY UsbInAssumption DEF OutToken, InInv, InTypes, Empty
<1> QED
  BY <1>1, <1>2 DEF InInv, InTypes, TakenInOrder, ReaderInv, WriterInv

\* A reset before the port is used finds the toggles as they started.
LEMMA ResetStep ==
  ASSUME InInv, ~ResetWhileOpen, Reset
  PROVE  InInv'
<1>1. /\ handed = 0 /\ written = 0 /\ at = "idle"
      /\ UNCHANGED <<data_ep_in, transferred, fill_tog, out_tog, at, left, handed, reported,
                     use, received, written>>
      /\ ep' = [res |-> "NAK", tog |-> 0, len |-> Empty] /\ host_tog' = 0
  BY DEF Reset, InInv, InTypes
<1>2. InTypes'
  BY <1>1 DEF InInv, InTypes, Empty
<1> QED
  BY <1>1, <1>2 DEF InInv, TakenInOrder, ReaderInv, WriterInv

LEMMA StepIn ==
  ASSUME HostPolls, Uses \subseteq {"read", "write"}, ~ResetWhileOpen
  PROVE  InInv /\ [Next]_vars => InInv'
<1> SUFFICES ASSUME InInv, [Next]_vars PROVE InInv'
  OBVIOUS
<1>1. CASE inNext
  BY <1>1, LoopStep, InTokenStep, OutTokenStep DEF inNext
<1>2. CASE Reset
  BY <1>2, ResetStep
<1>3. CASE UNCHANGED inVars
  BY <1>3 DEF inVars, InInv, InTypes, TakenInOrder, ReaderInv, WriterInv, TakenLast
<1> QED BY <1>1, <1>2, <1>3 DEF Next, vars

\* What the badge takes for sent is what the host received, each packet once and in
\* order, for every length of the messages: where a host that reads keeps polling
\* until wait_until_sent gives up, no host writes to a port that it reads, and the
\* bus is not reset once the port was used (cdc-serial.c:113-178).
THEOREM PacketsOnceHolds ==
  ASSUME HostPolls, Uses \subseteq {"read", "write"}, ~ResetWhileOpen
  PROVE  Spec => []PacketsOnce
<1>1. Init => InInv
  BY InitIn DEF Init
<1> QED
  BY <1>1, StepIn, InInvImplies, PTL DEF Spec

-----------------------------------------------------------------------------
(* The configuration descriptor that usb_start puts together.              *)

LEMMA ConfigLength ==
  /\ cfg_desc.wTotalLength = 84
  /\ cfg_desc.parts =
       {[off |-> 0, desc |-> <<9, 2, 9>>],
        [off |-> 9, desc |-> <<9, 4, 0>>], [off |-> 18, desc |-> <<9, 33, 0>>],
        [off |-> 27, desc |-> <<7, 5, 129>>], [off |-> 34, desc |-> <<7, 5, 1>>],
        [off |-> 41, desc |-> <<9, 4, 1>>], [off |-> 50, desc |-> <<5, 36, 0>>],
        [off |-> 55, desc |-> <<4, 36, 2>>], [off |-> 59, desc |-> <<4, 36, 1>>],
        [off |-> 63, desc |-> <<7, 5, 130>>], [off |-> 70, desc |-> <<7, 5, 3>>],
        [off |-> 77, desc |-> <<7, 5, 131>>]}
<1> DEFINE c0 == [wTotalLength |-> 0, parts |-> {}] ++ cfg_static
           c1 == c0 ++ <<9, 4, 0>>
           c2 == c1 ++ <<9, 33, 0>>
           c3 == c2 ++ <<7, 5, 129>>
           c4 == c3 ++ <<7, 5, 1>>
           c5 == c4 ++ <<9, 4, 1>>
           c6 == c5 ++ <<5, 36, 0>>
           c7 == c6 ++ <<4, 36, 2>>
           c8 == c7 ++ <<4, 36, 1>>
           c9 == c8 ++ <<7, 5, 130>>
           c10 == c9 ++ <<7, 5, 3>>
           c11 == c10 ++ <<7, 5, 131>>
           p0 == [off |-> 0, desc |-> <<9, 2, 9>>]
           p1 == [off |-> 9, desc |-> <<9, 4, 0>>]
           p2 == [off |-> 18, desc |-> <<9, 33, 0>>]
           p3 == [off |-> 27, desc |-> <<7, 5, 129>>]
           p4 == [off |-> 34, desc |-> <<7, 5, 1>>]
           p5 == [off |-> 41, desc |-> <<9, 4, 1>>]
           p6 == [off |-> 50, desc |-> <<5, 36, 0>>]
           p7 == [off |-> 55, desc |-> <<4, 36, 2>>]
           p8 == [off |-> 59, desc |-> <<4, 36, 1>>]
           p9 == [off |-> 63, desc |-> <<7, 5, 130>>]
           p10 == [off |-> 70, desc |-> <<7, 5, 3>>]
           p11 == [off |-> 77, desc |-> <<7, 5, 131>>]
<1>0. c0.wTotalLength = 9 /\ c0.parts = {p0}
  BY DEF ++, cfg_desc_append, cfg_static
<1> HIDE DEF c0
<1>1. c1.wTotalLength = 18 /\ c1.parts = {p0, p1}
  BY <1>0 DEF ++, cfg_desc_append
<1> HIDE DEF c1
<1>2. c2.wTotalLength = 27 /\ c2.parts = {p0, p1, p2}
  BY <1>1 DEF ++, cfg_desc_append
<1> HIDE DEF c2
<1>3. c3.wTotalLength = 34 /\ c3.parts = {p0, p1, p2, p3}
  BY <1>2 DEF ++, cfg_desc_append
<1> HIDE DEF c3
<1>4. c4.wTotalLength = 41 /\ c4.parts = {p0, p1, p2, p3, p4}
  BY <1>3 DEF ++, cfg_desc_append
<1> HIDE DEF c4
<1>5. c5.wTotalLength = 50 /\ c5.parts = {p0, p1, p2, p3, p4, p5}
  BY <1>4 DEF ++, cfg_desc_append
<1> HIDE DEF c5
<1>6. c6.wTotalLength = 55 /\ c6.parts = {p0, p1, p2, p3, p4, p5, p6}
  BY <1>5 DEF ++, cfg_desc_append
<1> HIDE DEF c6
<1>7. c7.wTotalLength = 59 /\ c7.parts = {p0, p1, p2, p3, p4, p5, p6, p7}
  BY <1>6 DEF ++, cfg_desc_append
<1> HIDE DEF c7
<1>8. c8.wTotalLength = 63 /\ c8.parts = {p0, p1, p2, p3, p4, p5, p6, p7, p8}
  BY <1>7 DEF ++, cfg_desc_append
<1> HIDE DEF c8
<1>9. c9.wTotalLength = 70 /\ c9.parts = {p0, p1, p2, p3, p4, p5, p6, p7, p8, p9}
  BY <1>8 DEF ++, cfg_desc_append
<1> HIDE DEF c9
<1>10. c10.wTotalLength = 77 /\ c10.parts = {p0, p1, p2, p3, p4, p5, p6, p7, p8, p9, p10}
  BY <1>9 DEF ++, cfg_desc_append
<1> HIDE DEF c10
<1>11. c11.wTotalLength = 84 /\ c11.parts = {p0, p1, p2, p3, p4, p5, p6, p7, p8, p9, p10, p11}
  BY <1>10 DEF ++, cfg_desc_append
<1> HIDE DEF c11
<1>12. cfg_desc = c11
  BY Zenon DEF cfg_desc, hiddev_init, cdc_acm_init, c0, c1, c2, c3, c4, c5, c6, c7, c8, c9, c10, c11
<1> QED BY <1>11, <1>12


\* The first bytes of its two chunks: the second begins one byte into a descriptor.
LEMMA ConfigBytes ==
  ASSUME NEW devcfg
  PROVE  /\ BytesAt("config", 0, devcfg) = <<9, 2>>
         /\ BytesAt("config", 64, devcfg) = <<5, 130>>
<1> DEFINE Covers(x, off) == off \in x.off..x.off + x.desc[1] - 1
           PartAt(off) == CHOOSE x \in cfg_desc.parts : Covers(x, off)
<1>1. \A x \in cfg_desc.parts : Covers(x, 0) <=> x = [off |-> 0, desc |-> <<9, 2, 9>>]
  BY ConfigLength
<1>2. \A x \in cfg_desc.parts : Covers(x, 64) <=> x = [off |-> 63, desc |-> <<7, 5, 130>>]
  BY ConfigLength
<1>3. [off |-> 0, desc |-> <<9, 2, 9>>] \in cfg_desc.parts /\ [off |-> 63, desc |-> <<7, 5, 130>>] \in cfg_desc.parts
  BY ConfigLength
<1> HIDE DEF Covers
<1>4. PartAt(0) = [off |-> 0, desc |-> <<9, 2, 9>>]
  BY <1>1, <1>3
<1>5. PartAt(64) = [off |-> 63, desc |-> <<7, 5, 130>>]
  BY <1>2, <1>3
<1>6. \A off : BytesAt("config", off, devcfg) =
        <<PartAt(off).desc[off - PartAt(off).off + 1], PartAt(off).desc[off - PartAt(off).off + 1 + 1]>>
  BY DEF BytesAt, Covers
<1> HIDE DEF PartAt
<1>7. 0 - 0 + 1 = 1 /\ 64 - 63 + 1 = 2 /\ 1 + 1 = 2 /\ 2 + 1 = 3
  OBVIOUS
<1>8. BytesAt("config", 0, devcfg) = <<9, 2>>
  BY <1>4, <1>6, <1>7
<1>9. BytesAt("config", 64, devcfg) = <<5, 130>>
  BY <1>5, <1>6, <1>7
<1> QED BY <1>8, <1>9

-----------------------------------------------------------------------------
(* The operators of utils.c.                                               *)

Blocks == {"device", "config", "lang", "vendor", "product", "report", "status", "devcfg",
           "idle", "protocol"}

LEMMA BlockNames ==
  /\ DOMAIN BlockLength = Blocks
  /\ \A blk \in Blocks : BlockLength[blk] \in 1..84 /\ (blk # "config" => BlockLength[blk] < 64)
  BY ConfigLength DEF BlockLength, Blocks

\* The descriptors a request may name.
Names == {"", "device", "config", "lang", "vendor", "product", "report"}

DevType ==
  [buf : [recip : 0..31, index : Nat, req : 0..255, desc : Names, n : Nat, len : Nat],
   tx : [res : {"ACK", "NAK"}, tog : {0, 1}, len : 0..MAX_PACKET_SIZE],
   chunk : [blk : Blocks, off : Nat],
   blk : Blocks, p_buf : Nat, remain_len : Nat, req_len : Nat, _tog : {0, 1},
   address : Addresses \cup {0}, R8_USB_DEV_AD : Addresses \cup {0}, devcfg : {0, 1}]

LEMMA OverlaidType ==
  ASSUME NEW d \in DevType, NEW blk \in Blocks, NEW off, off = 0 \/ (blk = "config" /\ off = 64),
         NEW len \in Nat
  PROVE  /\ Overlaid(d, blk, off, len) \in
              [recip : 0..31, index : Nat, req : 0..255, desc : Names, n : Nat, len : Nat]
         /\ Overlaid(d, blk, off, len).index = d.buf.index
<1>1. BytesAt(blk, off, d.devcfg)[1] \in 0..255 /\ BytesAt(blk, off, d.devcfg)[2] \in 0..255
  <2>1. CASE blk = "config"
    BY <2>1, ConfigBytes
  <2>2. CASE blk # "config"
    <3>1. d.devcfg \in 0..1
      BY DEF DevType
    <3> QED BY <2>2, <3>1 DEF BytesAt, Blocks
  <2> QED BY <2>1, <2>2
<1>2. PICK b1 \in 0..31 : b1 = IF len > 0 THEN BytesAt(blk, off, d.devcfg)[1] % 32 ELSE d.buf.recip
  BY <1>1 DEF DevType
<1>3. PICK b2 \in 0..255 : b2 = IF len > 1 THEN BytesAt(blk, off, d.devcfg)[2] ELSE d.buf.req
  BY <1>1 DEF DevType
<1>4. Overlaid(d, blk, off, len) = [d.buf EXCEPT !.recip = b1, !.req = b2]
  BY <1>2, <1>3, Zenon DEF Overlaid
<1>5. d.buf \in [recip : 0..31, index : Nat, req : 0..255, desc : Names, n : Nat, len : Nat]
  BY DEF DevType
<1>6. Overlaid(d, blk, off, len) =
        [recip |-> b1, index |-> d.buf.index, req |-> b2, desc |-> d.buf.desc,
         n |-> d.buf.n, len |-> d.buf.len]
  <2>1. PICK r \in [recip : 0..31, index : Nat, req : 0..255, desc : Names, n : Nat, len : Nat] :
          r = d.buf
    BY <1>5
  <2>2. PICK x : x = Overlaid(d, blk, off, len) /\ x = [r EXCEPT !.recip = b1, !.req = b2]
    BY <1>4, <2>1
  <2>3. x = [recip |-> b1, index |-> r.index, req |-> b2, desc |-> r.desc, n |-> r.n,
             len |-> r.len]
    BY <2>2, ZenonT(30)
  <2> QED BY <2>1, <2>2, <2>3
<1>7. /\ d.buf.index \in Nat /\ d.buf.desc \in Names /\ d.buf.n \in Nat /\ d.buf.len \in Nat
  BY <1>5
<1> QED BY <1>6, <1>7

LEMMA LoadChunk ==
  ASSUME NEW d \in DevType, NEW blk \in Blocks, NEW off, off = 0 \/ (blk = "config" /\ off = 64),
         NEW block_len \in Nat, NEW req_len \in Nat, NEW tog \in {0, 1},
         NEW x, x = load_chunk(d, blk, off, block_len, req_len, tog),
         NEW n, n = Lesser(block_len, Lesser(req_len, 64))
  PROVE  /\ x \in DevType
         /\ x.tx = [res |-> "ACK", tog |-> tog, len |-> n]
         /\ x.chunk = [blk |-> blk, off |-> off]
         /\ x.blk = blk /\ x.p_buf = off + n /\ x.remain_len = block_len - n
         /\ x.buf = Overlaid(d, blk, off, n)
         /\ x.req_len = d.req_len /\ x._tog = d._tog
         /\ x.address = d.address /\ x.R8_USB_DEV_AD = d.R8_USB_DEV_AD
         /\ x.devcfg = d.devcfg
<1>1. n \in 0..64 /\ off + n \in Nat /\ block_len - n \in Nat /\ off \in Nat
  BY DEF Lesser
<1>2. Overlaid(d, blk, off, n) \in
        [recip : 0..31, index : Nat, req : 0..255, desc : Names, n : Nat, len : Nat]
  BY <1>1, OverlaidType
<1>3. x = [d EXCEPT !.buf = Overlaid(d, blk, off, n),
                    !.chunk = [blk |-> blk, off |-> off],
                    !.blk = blk,
                    !.p_buf = off + n,
                    !.remain_len = block_len - n,
                    !.tx = [res |-> "ACK", tog |-> tog, len |-> n]]
  BY DEF load_chunk, set_handshake, MAX_PACKET_SIZE
<1>4. [res |-> "ACK", tog |-> tog, len |-> n] \in
        [res : {"ACK", "NAK"}, tog : {0, 1}, len : 0..MAX_PACKET_SIZE]
  BY <1>1 DEF MAX_PACKET_SIZE
<1>5. PICK b, t, c, p, m : b = Overlaid(d, blk, off, n) /\ c = [blk |-> blk, off |-> off]
                           /\ t = [res |-> "ACK", tog |-> tog, len |-> n]
                           /\ p = off + n /\ m = block_len - n
  OBVIOUS
<1>51. x = [d EXCEPT !.buf = b, !.chunk = c, !.blk = blk, !.p_buf = p, !.remain_len = m, !.tx = t]
  BY <1>3, <1>5
<1>52. x.tx = t /\ x.chunk = c /\ x.blk = blk /\ x.p_buf = p /\ x.remain_len = m /\ x.buf = b
      /\ x.req_len = d.req_len /\ x._tog = d._tog /\ x.address = d.address
      /\ x.R8_USB_DEV_AD = d.R8_USB_DEV_AD /\ x.devcfg = d.devcfg
  BY <1>51 DEF DevType
<1>53. /\ b \in [recip : 0..31, index : Nat, req : 0..255, desc : Names, n : Nat, len : Nat]
       /\ t \in [res : {"ACK", "NAK"}, tog : {0, 1}, len : 0..MAX_PACKET_SIZE]
       /\ c \in [blk : Blocks, off : Nat] /\ p \in Nat /\ m \in Nat
  BY <1>1, <1>2, <1>4, <1>5
<1>6. x \in DevType
  <2>1. PICK z1 : z1 = [d EXCEPT !.buf = b]
    OBVIOUS
  <2>2. z1 \in DevType
    BY <1>53, <2>1 DEF DevType
  <2>3. PICK z2 : z2 = [z1 EXCEPT !.chunk = c]
    OBVIOUS
  <2>4. z2 \in DevType
    BY <1>53, <2>2, <2>3 DEF DevType
  <2>5. PICK z3 : z3 = [z2 EXCEPT !.blk = blk]
    OBVIOUS
  <2>6. z3 \in DevType
    BY <2>4, <2>5 DEF DevType
  <2>7. PICK z4 : z4 = [z3 EXCEPT !.p_buf = p]
    OBVIOUS
  <2>8. z4 \in DevType
    BY <1>53, <2>6, <2>7 DEF DevType
  <2>9. PICK z5 : z5 = [z4 EXCEPT !.remain_len = m]
    OBVIOUS
  <2>10. z5 \in DevType
    BY <1>53, <2>8, <2>9 DEF DevType
  <2>11. x = [z5 EXCEPT !.tx = t]
    BY <1>51, <2>1, <2>3, <2>5, <2>7, <2>9
  <2> QED BY <1>53, <2>10, <2>11 DEF DevType
<1> QED BY <1>5, <1>52, <1>6

\* What is left of a block after its first chunk is the second of a configuration.
DevOK(d) ==
  /\ d \in DevType
  /\ d.buf.index = 0
  /\ d.remain_len > 0 => /\ d.blk = "config" /\ d.p_buf = 64
                         /\ d.req_len = 64 + d.remain_len
                         /\ d.remain_len <= 20
  /\ d.p_buf <= 84

\* What the handlers of endpoint 0 leave alone.
SameAddress(x, d) == x.address = d.address /\ x.R8_USB_DEV_AD = d.R8_USB_DEV_AD

\* What ctrl_start_load_block makes of d.
Started(x, d, blk, len) ==
  /\ DevOK(x) /\ SameAddress(x, d) /\ x.devcfg = d.devcfg
  /\ x.tx = [res |-> "ACK", tog |-> 1, len |-> Lesser(len, 64)]
  /\ x.chunk = [blk |-> blk, off |-> 0]
  /\ x.remain_len = len - Lesser(len, 64) /\ x._tog = 0
  /\ x.buf = Overlaid(d, blk, 0, Lesser(len, 64))

LEMMA StartBlock ==
  ASSUME NEW d \in DevType, d.buf.index = 0, NEW blk \in Blocks, NEW len \in 1..84,
         len > 64 => blk = "config"
  PROVE  Started(ctrl_start_load_block(d, blk, len), d, blk, len)
<1>0. PICK x : x = ctrl_start_load_block(d, blk, len)
  OBVIOUS
<1>1. PICK y : y = load_chunk(d, blk, 0, len, len, 1)
  OBVIOUS
<1>2. len \in Nat /\ 1 \in {0, 1}
  OBVIOUS
<1>3. Lesser(len, Lesser(len, 64)) = Lesser(len, 64) /\ 0 + Lesser(len, 64) = Lesser(len, 64)
      /\ Lesser(len, 64) \in 1..64 /\ len - Lesser(len, 64) \in Nat
  BY DEF Lesser
<1>4. /\ y \in DevType
      /\ y.tx = [res |-> "ACK", tog |-> 1, len |-> Lesser(len, 64)]
      /\ y.chunk = [blk |-> blk, off |-> 0]
      /\ y.blk = blk /\ y.p_buf = Lesser(len, 64) /\ y.remain_len = len - Lesser(len, 64)
      /\ y.buf = Overlaid(d, blk, 0, Lesser(len, 64))
      /\ y.address = d.address /\ y.R8_USB_DEV_AD = d.R8_USB_DEV_AD
      /\ y.devcfg = d.devcfg
  BY <1>1, <1>2, <1>3, LoadChunk
<1>5. x = [y EXCEPT !.req_len = len, !._tog = 0]
  BY <1>0, <1>1 DEF ctrl_start_load_block
<1>6. /\ x \in DevType
      /\ x.tx = y.tx /\ x.chunk = y.chunk /\ x.blk = y.blk /\ x.p_buf = y.p_buf
      /\ x.remain_len = y.remain_len /\ x.buf = y.buf /\ x.address = y.address
      /\ x.R8_USB_DEV_AD = y.R8_USB_DEV_AD /\ x.devcfg = y.devcfg
      /\ x.req_len = len /\ x._tog = 0
  <2>1. y \in DevType
    BY <1>4
  <2>2. len \in Nat /\ 0 \in {0, 1}
    OBVIOUS
  <2>3. x \in DevType
    <3>1. PICK z : z = [y EXCEPT !.req_len = len]
      OBVIOUS
    <3>2. z \in DevType
      BY <2>1, <2>2, <3>1 DEF DevType
    <3>3. x = [z EXCEPT !._tog = 0]
      BY <1>5, <3>1
    <3> QED BY <2>2, <3>2, <3>3 DEF DevType
  <2>4. /\ x.tx = y.tx /\ x.chunk = y.chunk /\ x.blk = y.blk /\ x.p_buf = y.p_buf
        /\ x.remain_len = y.remain_len /\ x.buf = y.buf /\ x.address = y.address
        /\ x.R8_USB_DEV_AD = y.R8_USB_DEV_AD /\ x.devcfg = y.devcfg
        /\ x.req_len = len /\ x._tog = 0
    BY <1>5, <2>1 DEF DevType
  <2> QED BY <2>3, <2>4
<1>7. x.buf.index = 0
  BY <1>3, <1>4, <1>6, OverlaidType
<1>8. DevOK(x)
  <2>1. x.remain_len > 0 => len > 64 /\ Lesser(len, 64) = 64
    BY <1>4, <1>6 DEF Lesser
  <2> QED BY <1>3, <1>4, <1>6, <1>7, <2>1 DEF DevOK
<1> QED BY <1>0, <1>4, <1>5, <1>6, <1>8 DEF SameAddress, Started

LEMMA NextChunk ==
  ASSUME NEW d, DevOK(d), NEW x, x = usb_load_next_chunk(d)
  PROVE  /\ DevOK(x) /\ SameAddress(x, d)
         /\ d.remain_len > 0 =>
              /\ x.tx = [res |-> "ACK", tog |-> d._tog, len |-> d.remain_len]
              /\ x.chunk = [blk |-> "config", off |-> 64]
<1>0. d \in DevType /\ d.remain_len \in Nat /\ d._tog \in {0, 1} /\ d.req_len \in Nat
      /\ d.buf.index = 0 /\ d.p_buf \in Nat
  BY DEF DevOK, DevType
<1>1. CASE d.remain_len > 0
  <2>1. d.blk = "config" /\ d.p_buf = 64 /\ d.req_len = 64 + d.remain_len /\ d.remain_len <= 20
    BY <1>1 DEF DevOK
  <2>2. PICK y : y = load_chunk(d, "config", 64, d.remain_len, d.req_len, d._tog)
    OBVIOUS
  <2>3. Lesser(d.remain_len, Lesser(d.req_len, 64)) = d.remain_len /\ "config" \in Blocks
    BY <1>0, <2>1 DEF Lesser, Blocks
  <2>4. /\ y \in DevType
        /\ y.tx = [res |-> "ACK", tog |-> d._tog, len |-> d.remain_len]
        /\ y.chunk = [blk |-> "config", off |-> 64]
        /\ y.p_buf = 64 + d.remain_len /\ y.remain_len = d.remain_len - d.remain_len
        /\ y.buf = Overlaid(d, "config", 64, d.remain_len)
        /\ y.address = d.address /\ y.R8_USB_DEV_AD = d.R8_USB_DEV_AD
        /\ y._tog = d._tog
    BY <1>0, <2>2, <2>3, LoadChunk
  <2>5. x = [y EXCEPT !._tog = 1 - d._tog]
    BY <1>1, <2>1, <2>2 DEF usb_load_next_chunk
  <2>6. /\ x \in DevType
        /\ x.tx = y.tx /\ x.chunk = y.chunk /\ x.p_buf = y.p_buf
        /\ x.remain_len = y.remain_len /\ x.buf = y.buf /\ x.address = y.address
        /\ x.R8_USB_DEV_AD = y.R8_USB_DEV_AD
    BY <1>0, <2>4, <2>5 DEF DevType
  <2>7. x.buf.index = 0
    BY <1>0, <2>3, <2>4, <2>6, OverlaidType
  <2>8. DevOK(x)
    BY <1>0, <2>1, <2>4, <2>6, <2>7 DEF DevOK
  <2> QED BY <2>4, <2>5, <2>6, <2>8 DEF SameAddress
<1>2. CASE ~(d.remain_len > 0)
  <2>1. x = [d EXCEPT !._tog = 0]
    BY <1>2 DEF usb_load_next_chunk
  <2>2. /\ x \in DevType
        /\ x.buf = d.buf /\ x.remain_len = d.remain_len /\ x.p_buf = d.p_buf
        /\ x.address = d.address /\ x.R8_USB_DEV_AD = d.R8_USB_DEV_AD
    BY <1>0, <2>1 DEF DevType
  <2> QED BY <1>0, <1>2, <2>1, <2>2 DEF DevOK, SameAddress
<1> QED BY <1>1, <1>2

LEMMA Acked ==
  ASSUME NEW d, DevOK(d), NEW x, x = ctrl_ack(d)
  PROVE  /\ DevOK(x) /\ SameAddress(x, d) /\ x.devcfg = d.devcfg
         /\ x.buf = d.buf
         /\ x.tx = [res |-> "ACK", tog |-> 1, len |-> 0]
         /\ x.remain_len = d.remain_len
<1>1. x = [d EXCEPT !.tx = [res |-> "ACK", tog |-> 1, len |-> 0]]
  BY DEF ctrl_ack, set_handshake
<1>2. d \in DevType /\ 0 \in 0..64
  BY DEF DevOK
<1>3. /\ x \in DevType
      /\ x.tx = [res |-> "ACK", tog |-> 1, len |-> 0]
      /\ x.buf = d.buf /\ x.remain_len = d.remain_len /\ x.p_buf = d.p_buf
      /\ x.blk = d.blk /\ x.req_len = d.req_len
      /\ x.address = d.address /\ x.R8_USB_DEV_AD = d.R8_USB_DEV_AD /\ x.devcfg = d.devcfg
  BY <1>1, <1>2 DEF DevType, MAX_PACKET_SIZE
<1> QED BY <1>1, <1>3 DEF DevOK, SameAddress

-----------------------------------------------------------------------------
(* The handlers.                                                           *)

LEMMA HidStep ==
  ASSUME NEW d, DevOK(d), NEW x, x = route_interfaces(d)
  PROVE  DevOK(x) /\ SameAddress(x, d)
<1>0. d \in DevType /\ d.buf.index = 0 /\ "report" \in Blocks /\ "idle" \in Blocks
      /\ "protocol" \in Blocks
  BY DEF DevOK, Blocks
<1>1. x = hid_request_handler(d)
  BY <1>0 DEF route_interfaces
<1>2. \/ x = ctrl_start_load_block(d, "report", 34)
      \/ x = ctrl_start_load_block(d, "idle", 1)
      \/ x = ctrl_start_load_block(d, "protocol", 1)
      \/ x = ctrl_ack(d)
      \/ x = d
  BY <1>1, Zenon DEF hid_request_handler
<1>3. 34 \in 1..84 /\ 1 \in 1..84 /\ ~(34 > 64) /\ ~(1 > 64)
  OBVIOUS
<1>4. CASE x = ctrl_start_load_block(d, "report", 34)
  <2>1. Started(ctrl_start_load_block(d, "report", 34), d, "report", 34)
    BY <1>0, <1>3, StartBlock
  <2> QED BY <1>4, <2>1 DEF Started
<1>5. CASE x = ctrl_start_load_block(d, "idle", 1)
  <2>1. Started(ctrl_start_load_block(d, "idle", 1), d, "idle", 1)
    BY <1>0, <1>3, StartBlock
  <2> QED BY <1>5, <2>1 DEF Started
<1>6. CASE x = ctrl_start_load_block(d, "protocol", 1)
  <2>1. Started(ctrl_start_load_block(d, "protocol", 1), d, "protocol", 1)
    BY <1>0, <1>3, StartBlock
  <2> QED BY <1>6, <2>1 DEF Started
<1>7. CASE x = ctrl_ack(d)
  BY <1>7, Acked
<1>8. CASE x = d
  BY <1>8 DEF SameAddress
<1> QED BY <1>2, <1>4, <1>5, <1>6, <1>7, <1>8

\* A token of the data or the status stage gives the controller the address, unless
\* the buffer looks like a request to an interface.
LEMMA TokenStep ==
  ASSUME NEW d, DevOK(d), NEW token \in {"IN", "OUT"}, NEW x, x = ep_handler(d, token)
  PROVE  /\ DevOK(x) /\ x.address = d.address
         /\ x.R8_USB_DEV_AD \in {d.R8_USB_DEV_AD, d.address}
         /\ d.buf.recip # INTERF => x.R8_USB_DEV_AD = d.address
         /\ d.buf.recip # INTERF /\ token = "IN" /\ d.remain_len > 0 =>
              /\ x.tx = [res |-> "ACK", tog |-> d._tog, len |-> d.remain_len]
              /\ x.chunk = [blk |-> "config", off |-> 64]
<1>1. CASE d.buf.recip = INTERF
  <2>1. x = route_interfaces(d)
    BY <1>1 DEF ep_handler
  <2> QED BY <1>1, <2>1, HidStep DEF SameAddress
<1>2. CASE d.buf.recip # INTERF
  <2>1. PICK a : a = IF token = "OUT" /\ d.buf.req = 1 THEN ctrl_ack(d) ELSE d
    OBVIOUS
  <2>2. DevOK(a) /\ SameAddress(a, d) /\ a.remain_len = d.remain_len
    <3>1. CASE a = d
      BY <3>1 DEF SameAddress
    <3>2. CASE a = ctrl_ack(d)
      BY <3>2, Acked
    <3> QED BY <2>1, <3>1, <3>2
  <2>3. token = "IN" => a = d
    BY <2>1
  <2>4. PICK z : z = [a EXCEPT !.R8_USB_DEV_AD = a.address]
    OBVIOUS
  <2>5. x = usb_load_next_chunk(z)
    BY <1>2, <2>1, <2>4 DEF ep_handler
  <2>6. a \in DevType
    BY <2>2 DEF DevOK
  <2>7. /\ z \in DevType /\ z.buf = a.buf /\ z.remain_len = a.remain_len /\ z.blk = a.blk
        /\ z.p_buf = a.p_buf /\ z.req_len = a.req_len /\ z._tog = a._tog
        /\ z.address = a.address /\ z.R8_USB_DEV_AD = a.address
    BY <2>4, <2>6 DEF DevType
  <2>8. DevOK(z)
    BY <2>2, <2>7 DEF DevOK
  <2>9. DevOK(x) /\ SameAddress(x, z)
    BY <2>5, <2>8, NextChunk
  <2>10. z.remain_len > 0 => /\ x.tx = [res |-> "ACK", tog |-> z._tog, len |-> z.remain_len]
                             /\ x.chunk = [blk |-> "config", off |-> 64]
    BY <2>5, <2>8, NextChunk
  <2> QED BY <1>2, <2>2, <2>3, <2>7, <2>9, <2>10 DEF SameAddress
<1> QED BY <1>1, <1>2

-----------------------------------------------------------------------------
(* Control transfers.                                                      *)

\* What a host asks of the badge but for its address: a descriptor in its whole
\* length, as much of the configuration as there is, and the requests of drivers.
FromDriver(r) ==
  \/ \E blk \in {"device", "lang", "vendor", "product"}, len \in Nat :
       len >= BlockLength[blk] /\ r = GetDescriptor(blk, len)
  \/ \E len \in 1..84 : r = GetDescriptor("config", len)
  \/ r \in {GetStatus, GetConfiguration, GetReportDescriptor, GetIdle, GetProtocol,
            SetConfiguration, SetIdle}

DriverRequests ==
  {r \in [recip : 0..31, index : Nat, req : 0..255, desc : Names, n : Nat, len : Nat] :
     FromDriver(r)}

\* The host that the proofs are about.
DriverHost ==
  AddressFirst /\ Enumeration \in Seq(DriverRequests) /\ LaterRequests \subseteq DriverRequests

\* The bytes that answer a request.
Whole(r) == Lesser(r.len, BlockLength[Asked(r)])

\* The first chunk of the answer is armed; what follows it can be loaded, since the
\* chunk in the buffer is no request.
Serves(d, r) ==
  /\ d.chunk = [blk |-> Asked(r), off |-> 0]
  /\ d.tx = [res |-> "ACK", tog |-> 1, len |-> Lesser(Whole(r), 64)]
  /\ d.remain_len = Whole(r) - Lesser(Whole(r), 64)
  /\ d.remain_len > 0 => d._tog = 0 /\ d.buf.recip = 9

ServesRest(d, r) ==
  /\ d.chunk = [blk |-> "config", off |-> 64]
  /\ d.tx = [res |-> "ACK", tog |-> 0, len |-> Whole(r) - 64]

FirstPiece == [blk |-> "config", off |-> 0, len |-> 64]

\* Nothing is taken yet; or the first of two chunks is, and the badge has it still
\* armed because the acknowledgement was lost, or has armed the second.
Reading ==
  \/ xfer.got = <<>> /\ xfer.tog = 1 /\ Serves(dev, xfer.r)
  \/ /\ xfer.got = <<FirstPiece>> /\ xfer.tog = 0
     /\ Asked(xfer.r) = "config" /\ Whole(xfer.r) > 64
     /\ Serves(dev, xfer.r) \/ ServesRest(dev, xfer.r)

CtlTypes ==
  /\ DevOK(dev)
  /\ xfer = [stage |-> xfer.stage, r |-> xfer.r, tog |-> xfer.tog, got |-> xfer.got]
  /\ xfer.tog \in {0, 1} /\ xfer.got \in Seq(Pieces)
  /\ host_ad \in Addresses \cup {0}
  /\ place \in 1..Len(Enumeration) + 1
  /\ xfer.stage \in {"idle", "data", "statusOut", "status"}

\* The controller has the host's address, and so has the badge unless the host is
\* about to give it one.
CtlAddress ==
  /\ dev.R8_USB_DEV_AD = host_ad
  /\ host_ad # 0 \/ xfer.stage \in {"data", "statusOut"} => dev.address = host_ad
  /\ xfer.stage = "status" /\ ~GivesAddress => dev.address = host_ad
  /\ xfer.stage = "status" /\ GivesAddress =>
       \E a \in Addresses : /\ xfer.r = SetAddress(a) /\ host_ad = 0
                            /\ dev.buf = xfer.r /\ dev.address = a

CtlStages ==
  /\ xfer.stage = "data" => FromDriver(xfer.r) /\ xfer.r.len > 0 /\ Reading
  /\ xfer.stage = "statusOut" => FromDriver(xfer.r) /\ ReplyWhole
  /\ xfer.stage = "status" => dev.tx = [res |-> "ACK", tog |-> 1, len |-> 0]

CtlInv == CtlTypes /\ CtlAddress /\ CtlStages

-----------------------------------------------------------------------------
(* A SETUP of which endpoint 0 hears twice.                                *)

\* What it makes of d, for a request r that the block answers.
StartsFor(x, d, blk, len, r) ==
  /\ DevOK(x) /\ SameAddress(x, d) /\ x.devcfg = d.devcfg /\ Serves(x, r)
  /\ x.buf.recip = BytesAt(blk, 0, d.devcfg)[1] % 32
  /\ len > 1 => x.buf.req = BytesAt(blk, 0, d.devcfg)[2]
  /\ len = 1 => x.buf.req = d.buf.req

LEMMA Starts ==
  ASSUME NEW d \in DevType, d.buf.index = 0, NEW blk \in Blocks, NEW len \in 1..84,
         len > 64 => blk = "config", NEW r, Asked(r) = blk, Whole(r) = len
  PROVE  StartsFor(ctrl_start_load_block(d, blk, len), d, blk, len, r)
<1> DEFINE x == ctrl_start_load_block(d, blk, len)
<1>1. /\ DevOK(x) /\ SameAddress(x, d) /\ x.devcfg = d.devcfg
      /\ x.tx = [res |-> "ACK", tog |-> 1, len |-> Lesser(len, 64)]
      /\ x.chunk = [blk |-> blk, off |-> 0]
      /\ x.remain_len = len - Lesser(len, 64) /\ x._tog = 0
      /\ x.buf = Overlaid(d, blk, 0, Lesser(len, 64))
  BY StartBlock, SMTT(30) DEF Started
<1> HIDE DEF x
<1>2. Lesser(len, 64) > 0 /\ (Lesser(len, 64) > 1 <=> len > 1)
      /\ (len <= 64 => len - Lesser(len, 64) = 0)
  BY DEF Lesser
<1>3. d.buf \in [recip : 0..31, index : Nat, req : 0..255, desc : Names, n : Nat, len : Nat]
  BY DEF DevType
<1>4. PICK b : b = d.buf
  OBVIOUS
<1>5. PICK b1, b2 : /\ b1 = BytesAt(blk, 0, d.devcfg)[1] % 32
                    /\ b2 = IF len > 1 THEN BytesAt(blk, 0, d.devcfg)[2] ELSE d.buf.req
  OBVIOUS
<1>6. x.buf = [b EXCEPT !.recip = b1, !.req = b2]
  BY <1>1, <1>2, <1>4, <1>5, Zenon DEF Overlaid
<1>7. x.buf.recip = b1 /\ x.buf.req = b2
  BY <1>3, <1>4, <1>6
<1>8. blk = "config" => b1 = 9
  BY <1>5, ConfigBytes
<1>9. StartsFor(x, d, blk, len, r)
  BY <1>1, <1>2, <1>5, <1>7, <1>8 DEF Serves, StartsFor
<1> QED BY <1>9 DEF x

\* The second call finds no request in the buffer, or the same.
LEMMA NoRequest ==
  ASSUME NEW y, y.buf.recip \notin {DEVICE, INTERF}
  PROVE  ep_handler(y, "SETUP") = y
BY DEF ep_handler

\* The fields of the requests, and what answers them.
LEMMA Fields ==
  /\ GetStatus.index = 0 /\ GetStatus.recip = DEVICE /\ GetStatus.req = 0 /\ GetStatus.len = 2
  /\ GetConfiguration.index = 0 /\ GetConfiguration.recip = DEVICE /\ GetConfiguration.req = 8 /\ GetConfiguration.len = 1
  /\ SetConfiguration.index = 0 /\ SetConfiguration.recip = DEVICE /\ SetConfiguration.req = 9 /\ SetConfiguration.n = 1
  /\ SetConfiguration.len = 0
  /\ GetReportDescriptor.index = 0 /\ GetReportDescriptor.recip = INTERF /\ GetReportDescriptor.req = 6
  /\ GetReportDescriptor.len = 34 /\ GetReportDescriptor.desc = "report"
  /\ GetIdle.index = 0 /\ GetIdle.recip = INTERF /\ GetIdle.req = 2 /\ GetIdle.len = 1
  /\ GetProtocol.index = 0 /\ GetProtocol.recip = INTERF /\ GetProtocol.req = 3 /\ GetProtocol.len = 1
  /\ SetIdle.index = 0 /\ SetIdle.recip = INTERF /\ SetIdle.req = 10 /\ SetIdle.len = 0
BY DEF GetStatus, GetConfiguration, SetConfiguration, GetReportDescriptor, GetIdle, GetProtocol,
       SetIdle, Request

LEMMA DeviceRequest ==
  ASSUME NEW d
  PROVE  /\ d.buf.req = 0 => handle_devreq(d) = ctrl_start_load_block(d, "status", 2)
         /\ d.buf.req = 5 => handle_devreq(d) = dev_setAddress(d)
         /\ d.buf.req = 6 => handle_devreq(d) = dev_getDesc(d)
         /\ d.buf.req = 8 => handle_devreq(d) = ctrl_start_load_block(d, "devcfg", 1)
         /\ d.buf.req = 9 => handle_devreq(d) = dev_setConfig(d)
         /\ d.buf.req \in {2, 3} => handle_devreq(d) = d
BY DEF handle_devreq

LEMMA HidRequest ==
  ASSUME NEW d
  PROVE  /\ d.buf.req = 6 /\ d.buf.desc = "report" =>
              hid_request_handler(d) = ctrl_start_load_block(d, "report", 34)
         /\ d.buf.req = 2 => hid_request_handler(d) = ctrl_start_load_block(d, "idle", 1)
         /\ d.buf.req = 3 => hid_request_handler(d) = ctrl_start_load_block(d, "protocol", 1)
         /\ d.buf.req = 10 => hid_request_handler(d) = ctrl_ack(d)
         /\ d.buf.req = 8 => hid_request_handler(d) = d
BY DEF hid_request_handler

LEMMA NoDeviceRequest ==
  ASSUME NEW y, y.buf.recip = DEVICE, y.buf.req \in {2, 3}
  PROVE  ep_handler(y, "SETUP") = y
BY DeviceRequest DEF ep_handler, DEVICE, INTERF

LEMMA SetupRead ==
  ASSUME NEW d, DevOK(d), NEW r, d.buf = r, FromDriver(r), r.len > 0,
         NEW x, x = route_enpoints(d, "SETUP")
  PROVE  DevOK(x) /\ SameAddress(x, d) /\ Serves(x, r)
<1>0. d \in DevType /\ d.buf.index = 0 /\ r.index = 0 /\ d.devcfg \in {0, 1}
  BY DEF DevOK, DevType
<1>1. PICK y : y = ep_handler(d, "SETUP")
  OBVIOUS
<1>2. x = ep_handler(y, "SETUP")
  BY <1>1 DEF route_enpoints
<1>3. r.recip = DEVICE => y = handle_devreq(d)
  BY <1>1 DEF ep_handler, DEVICE, INTERF
<1>4. r.recip = INTERF => y = hid_request_handler(d)
  BY <1>0, <1>1 DEF ep_handler, route_interfaces
<1>5. ASSUME NEW blk \in {"device", "lang", "vendor", "product"}, NEW len \in Nat,
             len >= BlockLength[blk], r = GetDescriptor(blk, len)
      PROVE  DevOK(x) /\ SameAddress(x, d) /\ Serves(x, r)
  <2>1. /\ r.recip = DEVICE /\ r.req = 6 /\ r.desc = blk /\ r.len = len
    BY <1>5 DEF GetDescriptor, Request
  <2>2. PICK n \in 1..84 : n = BlockLength[blk] /\ n <= 64 /\ n > 1
    <3>1. BlockLength[blk] \in {18, 4, 36, 32}
      BY DEF BlockLength
    <3> QED BY <3>1
  <2>3. y = dev_getDesc(d)
    BY <1>3, <2>1, DeviceRequest
  <2>4. y = ctrl_start_load_block(d, blk, n)
    BY <2>1, <2>2, <2>3 DEF dev_getDesc
  <2>5. Asked(r) = blk /\ Whole(r) = n /\ blk \in Blocks
    BY <1>5, <2>1, <2>2 DEF Asked, Whole, Lesser, Blocks
  <2>6. /\ DevOK(y) /\ SameAddress(y, d) /\ Serves(y, r)
        /\ y.buf.recip = BytesAt(blk, 0, d.devcfg)[1] % 32
        /\ y.buf.req = BytesAt(blk, 0, d.devcfg)[2]
    <3>1. StartsFor(y, d, blk, n, r)
      BY <1>0, <2>2, <2>4, <2>5, Starts
    <3> QED BY <2>2, <3>1 DEF StartsFor
  <2>7. CASE blk = "product"
    <3>1. y.buf.recip = DEVICE /\ y.buf.req = 3
      BY <2>6, <2>7 DEF BytesAt, DEVICE
    <3> QED BY <1>2, <2>6, <3>1, NoDeviceRequest
  <2>8. CASE blk # "product"
    <3>1. BytesAt(blk, 0, d.devcfg)[1] \in {18, 4, 36}
      BY <2>8 DEF BytesAt
    <3>2. y.buf.recip \notin {DEVICE, INTERF}
      BY <2>6, <3>1 DEF DEVICE, INTERF
    <3> QED BY <1>2, <2>6, <3>2, NoRequest
  <2> QED BY <2>7, <2>8
<1>6. ASSUME NEW len \in 1..84, r = GetDescriptor("config", len)
      PROVE  DevOK(x) /\ SameAddress(x, d) /\ Serves(x, r)
  <2>1. /\ r.recip = DEVICE /\ r.req = 6 /\ r.desc = "config" /\ r.len = len
    BY <1>6 DEF GetDescriptor, Request
  <2>2. BlockLength["config"] = 84
    BY ConfigLength DEF BlockLength
  <2>3. y = dev_getDesc(d)
    BY <1>3, <2>1, DeviceRequest
  <2>4. y = ctrl_start_load_block(d, "config", len)
    BY <2>1, <2>3 DEF dev_getDesc
  <2>5. Asked(r) = "config" /\ Whole(r) = len /\ "config" \in Blocks
    BY <1>6, <2>1, <2>2 DEF Asked, Whole, Lesser, Blocks
  <2>6. DevOK(y) /\ SameAddress(y, d) /\ Serves(y, r) /\ y.buf.recip = 9
    <3>1. DevOK(y) /\ SameAddress(y, d) /\ Serves(y, r)
          /\ y.buf.recip = BytesAt("config", 0, d.devcfg)[1] % 32
      BY <1>0, <2>4, <2>5, Starts DEF StartsFor
    <3> QED BY <3>1, ConfigBytes
  <2>7. y.buf.recip \notin {DEVICE, INTERF}
    BY <2>6 DEF DEVICE, INTERF
  <2> QED BY <1>2, <2>6, <2>7, NoRequest
<1>7. CASE r = GetStatus
  <2>1. r.recip = DEVICE /\ r.req = 0 /\ r.len = 2
    BY <1>7, Fields
  <2>2. y = ctrl_start_load_block(d, "status", 2)
    BY <1>3, <2>1, DeviceRequest
  <2>3. Asked(r) = "status" /\ Whole(r) = 2 /\ "status" \in Blocks
    BY <2>1 DEF Asked, Whole, Lesser, Blocks, BlockLength
  <2>4. /\ DevOK(y) /\ SameAddress(y, d) 
        /\ y.buf.recip = BytesAt("status", 0, d.devcfg)[1] % 32
        /\ y.buf.req = BytesAt("status", 0, d.devcfg)[2]
    BY <1>0, <2>2, <2>3, Starts DEF StartsFor
  <2>5. y.buf.recip = DEVICE /\ y.buf.req = 0 
    BY <2>4 DEF BytesAt, DEVICE
  <2>6. x = handle_devreq(y)
    BY <1>2, <2>5 DEF ep_handler, DEVICE, INTERF
  <2>7. x = ctrl_start_load_block(y, "status", 2)
    BY <2>5, <2>6, DeviceRequest
  <2>8. y \in DevType /\ y.buf.index = 0
    BY <2>4 DEF DevOK
  <2>9. DevOK(x) /\ SameAddress(x, y) /\ Serves(x, r)
    BY <2>3, <2>7, <2>8, Starts DEF StartsFor
  <2> QED BY <2>4, <2>9 DEF SameAddress
<1>8. CASE r = GetConfiguration
  <2>1. r.recip = DEVICE /\ r.req = 8 /\ r.len = 1
    BY <1>8, Fields
  <2>2. y = ctrl_start_load_block(d, "devcfg", 1)
    BY <1>3, <2>1, DeviceRequest
  <2>3. Asked(r) = "devcfg" /\ Whole(r) = 1 /\ "devcfg" \in Blocks
    BY <2>1 DEF Asked, Whole, Lesser, Blocks, BlockLength
  <2>4. /\ DevOK(y) /\ SameAddress(y, d) /\ Serves(y, r)
        /\ y.buf.recip = BytesAt("devcfg", 0, d.devcfg)[1] % 32
        /\ y.buf.req = 8
    BY <1>0, <2>1, <2>2, <2>3, Starts DEF StartsFor
  <2>5. y \in DevType /\ y.buf.index = 0
    BY <2>4 DEF DevOK
  <2>6. BytesAt("devcfg", 0, d.devcfg)[1] = d.devcfg
    BY DEF BytesAt
  <2>7. CASE d.devcfg = 0
    <3>1. y.buf.recip = DEVICE
      BY <2>4, <2>6, <2>7 DEF DEVICE
    <3>2. x = handle_devreq(y)
      BY <1>2, <3>1 DEF ep_handler, DEVICE, INTERF
    <3>3. x = ctrl_start_load_block(y, "devcfg", 1)
      BY <2>4, <3>2, DeviceRequest
    <3>4. DevOK(x) /\ SameAddress(x, y) /\ Serves(x, r)
      BY <2>3, <2>5, <3>3, Starts DEF StartsFor
    <3> QED BY <2>4, <3>4 DEF SameAddress
  <2>8. CASE d.devcfg = 1
    <3>1. y.buf.recip = INTERF
      BY <2>4, <2>6, <2>8 DEF INTERF
    <3>2. x = hid_request_handler(y)
      BY <1>2, <2>5, <3>1 DEF ep_handler, route_interfaces
    <3>3. x = y
      BY <2>4, <3>2, HidRequest
    <3> QED BY <2>4, <3>3
  <2> QED BY <1>0, <2>7, <2>8
<1>9. CASE r = GetReportDescriptor
  <2>1. r.recip = INTERF /\ r.req = 6 /\ r.desc = "report" /\ r.len = 34
    BY <1>9, Fields
  <2>2. y = ctrl_start_load_block(d, "report", 34)
    BY <1>4, <2>1, HidRequest
  <2>3. Asked(r) = "report" /\ Whole(r) = 34 /\ "report" \in Blocks
    BY <2>1 DEF Asked, Whole, Lesser, Blocks, BlockLength
  <2>4. /\ DevOK(y) /\ SameAddress(y, d) /\ Serves(y, r)
        /\ y.buf.recip = BytesAt("report", 0, d.devcfg)[1] % 32
    BY <1>0, <2>2, <2>3, Starts DEF StartsFor
  <2>5. y.buf.recip \notin {DEVICE, INTERF}
    BY <2>4 DEF BytesAt, DEVICE, INTERF
  <2> QED BY <1>2, <2>4, <2>5, NoRequest
<1>10. CASE r = GetIdle
  <2>1. r.recip = INTERF /\ r.req = 2 /\ r.len = 1
    BY <1>10, Fields
  <2>2. y = ctrl_start_load_block(d, "idle", 1)
    BY <1>4, <2>1, HidRequest
  <2>3. Asked(r) = "idle" /\ Whole(r) = 1 /\ "idle" \in Blocks
    BY <2>1 DEF Asked, Whole, Lesser, Blocks, BlockLength
  <2>4. /\ DevOK(y) /\ SameAddress(y, d) /\ Serves(y, r)
        /\ y.buf.recip = BytesAt("idle", 0, d.devcfg)[1] % 32 /\ y.buf.req = 2
    BY <1>0, <2>1, <2>2, <2>3, Starts DEF StartsFor
  <2>5. y.buf.recip = DEVICE
    BY <2>4 DEF BytesAt, DEVICE
  <2> QED BY <1>2, <2>4, <2>5, NoDeviceRequest
<1>11. CASE r = GetProtocol
  <2>1. r.recip = INTERF /\ r.req = 3 /\ r.len = 1
    BY <1>11, Fields
  <2>2. y = ctrl_start_load_block(d, "protocol", 1)
    BY <1>4, <2>1, HidRequest
  <2>3. Asked(r) = "protocol" /\ Whole(r) = 1 /\ "protocol" \in Blocks
    BY <2>1 DEF Asked, Whole, Lesser, Blocks, BlockLength
  <2>4. /\ DevOK(y) /\ SameAddress(y, d) /\ Serves(y, r)
        /\ y.buf.recip = BytesAt("protocol", 0, d.devcfg)[1] % 32 /\ y.buf.req = 3
    BY <1>0, <2>1, <2>2, <2>3, Starts DEF StartsFor
  <2>5. y.buf.recip = DEVICE
    BY <2>4 DEF BytesAt, DEVICE
  <2> QED BY <1>2, <2>4, <2>5, NoDeviceRequest
<1>12. r # SetConfiguration /\ r # SetIdle
  BY Fields
<1> QED BY <1>5, <1>6, <1>7, <1>8, <1>9, <1>10, <1>11, <1>12 DEF FromDriver

LEMMA SetupWrite ==
  ASSUME NEW d, DevOK(d), NEW r, d.buf = r, FromDriver(r), ~(r.len > 0),
         NEW x, x = route_enpoints(d, "SETUP")
  PROVE  DevOK(x) /\ SameAddress(x, d) /\ x.tx = [res |-> "ACK", tog |-> 1, len |-> 0]
<1>0. d \in DevType /\ d.buf.index = 0
  BY DEF DevOK
<1>1. PICK y : y = ep_handler(d, "SETUP")
  OBVIOUS
<1>2. x = ep_handler(y, "SETUP")
  BY <1>1 DEF route_enpoints
<1>3. r \in {SetConfiguration, SetIdle}
  <2>1. ASSUME NEW blk \in {"device", "lang", "vendor", "product"}
        PROVE  BlockLength[blk] \in {18, 4, 36, 32}
    BY DEF BlockLength
  <2>2. ASSUME NEW blk, NEW len PROVE GetDescriptor(blk, len).len = len
    BY DEF GetDescriptor, Request
  <2>3. ASSUME NEW blk \in {"device", "lang", "vendor", "product"}, NEW len \in Nat,
               len >= BlockLength[blk]
        PROVE  GetDescriptor(blk, len).len > 0
    BY <2>1, <2>2, <2>3
  <2>4. ASSUME NEW len \in 1..84
        PROVE  GetDescriptor("config", len).len > 0
    BY <2>2
  <2>5. /\ GetStatus.len > 0 /\ GetConfiguration.len > 0 /\ GetReportDescriptor.len > 0
        /\ GetIdle.len > 0 /\ GetProtocol.len > 0
    BY Fields
  <2> QED BY <2>3, <2>4, <2>5 DEF FromDriver
<1>4. CASE r = SetConfiguration
  <2>1. r.recip = DEVICE /\ r.req = 9 /\ r.n = 1
    BY <1>4, Fields
  <2>2. ASSUME NEW e, DevOK(e), e.buf = r
        PROVE  /\ DevOK(ep_handler(e, "SETUP")) /\ SameAddress(ep_handler(e, "SETUP"), e)
               /\ ep_handler(e, "SETUP").tx = [res |-> "ACK", tog |-> 1, len |-> 0]
               /\ ep_handler(e, "SETUP").buf = r
    <3>1. PICK z : z = [e EXCEPT !.devcfg = 1]
      OBVIOUS
    <3>2. ep_handler(e, "SETUP") = handle_devreq(e)
      BY <2>1, <2>2 DEF ep_handler, DEVICE, INTERF
    <3>3. ep_handler(e, "SETUP") = ctrl_ack(z)
      BY <2>1, <2>2, <3>1, <3>2, DeviceRequest DEF dev_setConfig
    <3>4. e \in DevType
      BY <2>2 DEF DevOK
    <3>5. /\ z \in DevType /\ z.buf = e.buf /\ z.remain_len = e.remain_len /\ z.blk = e.blk
          /\ z.p_buf = e.p_buf /\ z.req_len = e.req_len /\ SameAddress(z, e)
      BY <3>1, <3>4 DEF DevType, SameAddress
    <3>6. DevOK(z)
      BY <2>2, <3>5 DEF DevOK
    <3> QED BY <2>2, <3>3, <3>5, <3>6, Acked DEF SameAddress
  <2> QED BY <1>1, <1>2, <2>2 DEF SameAddress
<1>5. CASE r = SetIdle
  <2>1. r.recip = INTERF /\ r.req = 10
    BY <1>5, Fields
  <2>2. ASSUME NEW e, DevOK(e), e.buf = r
        PROVE  ep_handler(e, "SETUP") = ctrl_ack(e)
    <3>1. ep_handler(e, "SETUP") = hid_request_handler(e)
      BY <2>1, <2>2 DEF ep_handler, route_interfaces, DevOK
    <3>2. e.buf.req = 10
      BY <2>1, <2>2
    <3> QED BY <3>1, <3>2, HidRequest
  <2>3. y = ctrl_ack(d)
    BY <1>1, <2>2
  <2>4. DevOK(y) /\ SameAddress(y, d) /\ y.buf = r
    BY <2>3, Acked
  <2>5. x = ctrl_ack(y)
    BY <1>2, <2>2, <2>4
  <2> QED BY <2>4, <2>5, Acked DEF SameAddress
<1> QED BY <1>3, <1>4, <1>5

LEMMA SetupAddress ==
  ASSUME NEW d, DevOK(d), NEW a \in Addresses, d.buf = SetAddress(a),
         NEW x, x = route_enpoints(d, "SETUP")
  PROVE  /\ DevOK(x) /\ x.R8_USB_DEV_AD = d.R8_USB_DEV_AD /\ x.address = a
         /\ x.buf = SetAddress(a) /\ x.tx = [res |-> "ACK", tog |-> 1, len |-> 0]
<1>0. d \in DevType
  BY DEF DevOK
<1>1. PICK y : y = ep_handler(d, "SETUP")
  OBVIOUS
<1>2. x = ep_handler(y, "SETUP")
  BY <1>1 DEF route_enpoints
<1>3. PICK r : r = SetAddress(a)
  OBVIOUS
<1>4. r.recip = DEVICE /\ r.req = 5 /\ r.n = a
  BY <1>3 DEF SetAddress, Request
<1>5. ASSUME NEW e, DevOK(e), e.buf = r
      PROVE  /\ DevOK(ep_handler(e, "SETUP")) /\ ep_handler(e, "SETUP").address = a
             /\ ep_handler(e, "SETUP").R8_USB_DEV_AD = e.R8_USB_DEV_AD
             /\ ep_handler(e, "SETUP").tx = [res |-> "ACK", tog |-> 1, len |-> 0]
             /\ ep_handler(e, "SETUP").buf = r
  <2>1. PICK z : z = [e EXCEPT !.address = a]
    OBVIOUS
  <2>2. ep_handler(e, "SETUP") = handle_devreq(e)
    BY <1>4, <1>5 DEF ep_handler, DEVICE, INTERF
  <2>3. ep_handler(e, "SETUP") = ctrl_ack(z)
    BY <1>4, <1>5, <2>1, <2>2, DeviceRequest DEF dev_setAddress
  <2>4. e \in DevType
    BY <1>5 DEF DevOK
  <2>5. /\ z \in DevType /\ z.buf = e.buf /\ z.remain_len = e.remain_len /\ z.blk = e.blk
        /\ z.p_buf = e.p_buf /\ z.req_len = e.req_len /\ z.address = a
        /\ z.R8_USB_DEV_AD = e.R8_USB_DEV_AD
    BY <2>1, <2>4 DEF DevType
  <2>6. DevOK(z)
    BY <1>5, <2>5 DEF DevOK
  <2> QED BY <1>5, <2>3, <2>5, <2>6, Acked DEF SameAddress
<1> QED BY <1>1, <1>2, <1>3, <1>5

-----------------------------------------------------------------------------
(* The invariant.                                                          *)

LEMMA DriverFacts ==
  ASSUME NEW r, FromDriver(r)
  PROVE  /\ r.req # 5 /\ r.index = 0
         /\ r.len > 0 => /\ Asked(r) \in Blocks
                         /\ r.len \in Nat /\ Whole(r) \in 1..84
                         /\ Asked(r) = "config" => Whole(r) = r.len
<1>1. ASSUME NEW blk \in {"device", "lang", "vendor", "product"}, NEW len \in Nat,
             len >= BlockLength[blk], r = GetDescriptor(blk, len)
      PROVE  /\ r.req # 5 /\ r.index = 0
             /\ Asked(r) \in Blocks /\ r.len \in Nat /\ Whole(r) \in 1..84 /\ Asked(r) # "config"
  <2>1. r.req = 6 /\ r.index = 0 /\ r.desc = blk /\ r.len = len
    BY <1>1 DEF GetDescriptor, Request
  <2>2. Asked(r) = blk
    BY <2>1 DEF Asked
  <2>3. BlockLength[blk] \in {18, 4, 36, 32}
    BY DEF BlockLength
  <2> QED BY <1>1, <2>1, <2>2, <2>3 DEF Whole, Lesser, Blocks
<1>2. ASSUME NEW len \in 1..84, r = GetDescriptor("config", len)
      PROVE  /\ r.req # 5 /\ r.index = 0
             /\ Asked(r) \in Blocks /\ r.len \in Nat /\ Whole(r) \in 1..84 /\ Whole(r) = r.len
  <2>1. r.req = 6 /\ r.index = 0 /\ r.desc = "config" /\ r.len = len
    BY <1>2 DEF GetDescriptor, Request
  <2>2. Asked(r) = "config"
    BY <2>1 DEF Asked
  <2>3. BlockLength["config"] = 84
    BY ConfigLength DEF BlockLength
  <2> QED BY <2>1, <2>2, <2>3 DEF Whole, Lesser, Blocks
<1>3. ASSUME NEW q \in {GetStatus, GetConfiguration, GetReportDescriptor, GetIdle, GetProtocol,
                        SetConfiguration, SetIdle}
      PROVE  q.req # 5 /\ q.index = 0
  BY Fields
<1>4. ASSUME NEW q \in {GetStatus, GetConfiguration, GetReportDescriptor, GetIdle, GetProtocol}
      PROVE  /\ Asked(q) \in Blocks /\ q.len \in Nat /\ Whole(q) \in 1..84 /\ Asked(q) # "config"
  <2>1. /\ Asked(GetStatus) = "status" /\ Asked(GetConfiguration) = "devcfg"
        /\ Asked(GetReportDescriptor) = "report" /\ Asked(GetIdle) = "idle"
        /\ Asked(GetProtocol) = "protocol"
    BY Fields DEF Asked
  <2>2. /\ BlockLength["status"] = 2 /\ BlockLength["devcfg"] = 1 /\ BlockLength["report"] = 34
        /\ BlockLength["idle"] = 1 /\ BlockLength["protocol"] = 1
    BY DEF BlockLength
  <2>3. /\ Whole(GetStatus) = 2 /\ Whole(GetConfiguration) = 1 /\ Whole(GetReportDescriptor) = 34
        /\ Whole(GetIdle) = 1 /\ Whole(GetProtocol) = 1
    BY <2>1, <2>2, Fields DEF Whole, Lesser
  <2> QED BY <2>1, <2>3, Fields DEF Blocks
<1>5. ~(SetConfiguration.len > 0) /\ ~(SetIdle.len > 0)
  BY Fields
<1> QED BY <1>1, <1>2, <1>3, <1>4, <1>5 DEF FromDriver

LEMMA CtlImplies ==
  ASSUME CtlInv
  PROVE  RepliesWhole /\ AddressTogether
<1>1. dev \in DevType
  BY DEF CtlInv, CtlTypes, DevOK
<1>2. ControlTypeOK
  <2>1. /\ dev.buf.recip \in 0..31 /\ dev.buf.req \in 0..255
        /\ dev.tx \in [res : {"ACK", "NAK"}, tog : {0, 1}, len : 0..MAX_PACKET_SIZE]
        /\ dev.chunk.blk \in Blocks
        /\ dev.address \in Addresses \cup {0} /\ dev.R8_USB_DEV_AD \in Addresses \cup {0}
        /\ dev.remain_len \in Nat /\ dev.p_buf \in Nat
    BY <1>1 DEF DevType
  <2>2. dev.remain_len + dev.p_buf <= 255
    BY <2>1 DEF CtlInv, CtlTypes, DevOK
  <2>3. \A i \in DOMAIN xfer.got : xfer.got[i] \in Pieces
    BY ElementOfSeq DEF CtlInv, CtlTypes
  <2> QED BY <2>1, <2>2, <2>3, BlockNames DEF ControlTypeOK, CtlInv, CtlTypes
<1>3. ReplyWhole
  BY DEF CtlInv, CtlStages, ReplyWhole
<1> QED BY <1>2, <1>3 DEF RepliesWhole, StatusIsEmpty, AddressTogether, CtlInv, CtlTypes, CtlAddress

LEMMA InitCtl == DriverHost /\ controlInit => CtlInv
<1> SUFFICES ASSUME DriverHost, controlInit PROVE CtlInv
  OBVIOUS
<1> USE DEF controlInit, usb_start
<1>1. GetStatus \in [recip : 0..31, index : Nat, req : 0..255, desc : Names, n : Nat, len : Nat]
      /\ GetStatus.index = 0
  <2>1. PICK s : s = ""
    OBVIOUS
  <2>2. s \in Names
    BY <2>1, Zenon DEF Names
  <2>3. GetStatus = [recip |-> 0, index |-> 0, req |-> 0, desc |-> s, n |-> 0, len |-> 2]
    BY <2>1, Zenon DEF GetStatus, Request, DEVICE
  <2> QED BY <2>2, <2>3
<1>2. DevOK(dev)
  BY <1>1 DEF DevOK, DevType, Blocks, MAX_PACKET_SIZE
<1>3. Len(Enumeration) \in Nat
  BY DEF DriverHost
<1>4. /\ xfer.stage = "idle" /\ xfer.r = GetStatus /\ xfer.tog = 0 /\ xfer.got = <<>>
      /\ xfer = [stage |-> xfer.stage, r |-> xfer.r, tog |-> xfer.tog, got |-> xfer.got]
  BY DEF Idle
<1>5. xfer.got \in Seq(Pieces)
  BY <1>4
<1>6. CtlTypes
  BY <1>2, <1>3, <1>4, <1>5 DEF CtlTypes
<1>7. CtlAddress
  BY <1>4 DEF CtlAddress
<1>8. CtlStages
  BY <1>4 DEF CtlStages
<1> QED BY <1>6, <1>7, <1>8 DEF CtlInv

LEMMA AddressFields ==
  \A a \in Addresses : /\ SetAddress(a).req = 5 /\ SetAddress(a).n = a /\ SetAddress(a).len = 0
                         /\ SetAddress(a).index = 0 /\ SetAddress(a).recip = DEVICE
                         /\ SetAddress(a) \in [recip : 0..31, index : Nat, req : 0..255,
                                               desc : Names, n : Nat, len : Nat]
<1>1. PICK s : s = ""
  OBVIOUS
<1>2. s \in Names
  BY <1>1, Zenon DEF Names
<1>3. ASSUME NEW a \in Addresses
      PROVE  SetAddress(a) = [recip |-> 0, index |-> 0, req |-> 5, desc |-> s, n |-> a,
                              len |-> 0]
  BY <1>1, Zenon DEF SetAddress, Request, DEVICE
<1>4. \A a \in Addresses : a \in Nat
  BY UsbAssumption
<1>5. ASSUME NEW a \in Addresses, NEW r, r = SetAddress(a)
      PROVE  /\ r.req = 5 /\ r.n = a /\ r.len = 0 /\ r.index = 0 /\ r.recip = DEVICE
             /\ r \in [recip : 0..31, index : Nat, req : 0..255, desc : Names, n : Nat, len : Nat]
  <2>1. r = [recip |-> 0, index |-> 0, req |-> 5, desc |-> s, n |-> a, len |-> 0]
    BY <1>3, <1>5
  <2>2. a \in Nat /\ 0 \in 0..31 /\ 5 \in 0..255
    BY <1>4
  <2> QED BY <1>2, <2>1, <2>2 DEF DEVICE
<1> QED BY <1>5

LEMMA BeginStep ==
  ASSUME DriverHost, CtlInv, NEW r \in Requests, Wanted(r), Begin(r),
         host_ad' = host_ad, place' = place
  PROVE  CtlInv'
<1>0. dev \in DevType /\ DevOK(dev) /\ dev.R8_USB_DEV_AD = host_ad
  BY DEF CtlInv, CtlTypes, CtlAddress, DevOK
<1>1. r \in DriverRequests \/ \E a \in Addresses : r = SetAddress(a)
  <2>1. \A i \in 1..Len(Enumeration) : Enumeration[i] \in DriverRequests
    BY ElementOfSeq DEF DriverHost
  <2> QED BY <2>1 DEF Requests, DriverHost
<1>2. \A a \in Addresses : /\ SetAddress(a).req = 5 /\ SetAddress(a).n = a /\ SetAddress(a).len = 0
                           /\ SetAddress(a).index = 0 /\ SetAddress(a).recip = DEVICE
                           /\ SetAddress(a) \in [recip : 0..31, index : Nat, req : 0..255,
                                                 desc : Names, n : Nat, len : Nat]
  BY AddressFields
<1>3. PICK d : d = [dev EXCEPT !.buf = r]
  OBVIOUS
<1>4. /\ r.index = 0
      /\ r \in [recip : 0..31, index : Nat, req : 0..255, desc : Names, n : Nat, len : Nat]
  BY <1>1, <1>2, DriverFacts DEF DriverRequests
<1>5. /\ d \in DevType /\ d.buf = r /\ SameAddress(d, dev)
      /\ d.remain_len = dev.remain_len /\ d.blk = dev.blk /\ d.p_buf = dev.p_buf
      /\ d.req_len = dev.req_len
  BY <1>0, <1>3, <1>4 DEF DevType, SameAddress
<1>6. DevOK(d)
  BY <1>0, <1>4, <1>5 DEF DevOK
<1>7. dev' = route_enpoints(d, "SETUP")
  BY <1>3 DEF Begin
<1>8. /\ xfer'.r = r /\ xfer'.tog = 1 /\ xfer'.got = <<>>
      /\ xfer'.stage = IF r.len > 0 THEN "data" ELSE "status"
      /\ xfer' = [stage |-> xfer'.stage, r |-> xfer'.r, tog |-> xfer'.tog, got |-> xfer'.got]
  BY DEF Begin
<1>9. ASSUME DevOK(dev)'
      PROVE  CtlTypes'
  <2>1. /\ host_ad' \in Addresses \cup {0} /\ place' \in 1..Len(Enumeration) + 1
    BY DEF CtlInv, CtlTypes
  <2>2. xfer'.got \in Seq(Pieces)
    BY <1>8
  <2> QED BY <1>8, <1>9, <2>1, <2>2 DEF CtlTypes, Pieces
<1>10. ASSUME NEW a \in Addresses, r = SetAddress(a), ~FromDriver(r)
       PROVE  CtlInv'
  <2>1. /\ DevOK(dev)' /\ dev'.R8_USB_DEV_AD = d.R8_USB_DEV_AD /\ dev'.address = a
        /\ dev'.buf = SetAddress(a) /\ dev'.tx = [res |-> "ACK", tog |-> 1, len |-> 0]
    BY <1>5, <1>6, <1>7, <1>10, SetupAddress
  <2>2. r.len = 0
    BY <1>2, <1>10
  <2>3. xfer'.stage = "status"
    BY <1>8, <2>2
  <2>4. host_ad = 0
    <3>1. SUFFICES ASSUME host_ad # 0 PROVE FALSE
      OBVIOUS
    <3>2. r \in LaterRequests \/ (~Configured /\ r = Enumeration[place])
      BY <3>1 DEF Wanted
    <3>3. ~Configured => place \in 1..Len(Enumeration)
      BY DEF Configured, CtlInv, CtlTypes, DriverHost
    <3>4. r \in DriverRequests
      BY <3>2, <3>3, ElementOfSeq DEF DriverHost
    <3> QED BY <1>10, <3>4 DEF DriverRequests
  <2>5. CtlAddress'
    <3>1. GivesAddress'
      BY <1>2, <1>8, <1>10 DEF GivesAddress
    <3>2. dev'.R8_USB_DEV_AD = host_ad' /\ host_ad' = 0
      BY <1>0, <1>5, <2>1, <2>4 DEF SameAddress
    <3>3. xfer'.r = SetAddress(a) /\ dev'.buf = xfer'.r /\ dev'.address = a
      BY <1>8, <1>10, <2>1
    <3> QED BY <2>3, <3>1, <3>2, <3>3 DEF CtlAddress
  <2>6. CtlStages'
    BY <2>1, <2>3 DEF CtlStages
  <2> QED BY <1>9, <2>1, <2>5, <2>6 DEF CtlInv
<1>11. CASE FromDriver(r)
  <2>1. r.req # 5
    BY <1>11, DriverFacts
  <2>2. dev.address = host_ad
    <3>1. CASE host_ad # 0
      BY <3>1 DEF CtlInv, CtlAddress
    <3>2. CASE host_ad = 0
      <4>1. r \notin {SetAddress(a) : a \in Addresses}
        BY <1>2, <2>1
      <4> QED BY <3>2, <4>1 DEF Wanted, DriverHost
    <3> QED BY <3>1, <3>2
  <2>3. ~GivesAddress'
    BY <1>8, <2>1 DEF GivesAddress
  <2>4. CASE r.len > 0
    <3>1. DevOK(dev)' /\ SameAddress(dev', d) /\ Serves(dev', r)
      BY <1>5, <1>6, <1>7, <1>11, <2>4, SetupRead
    <3>2. xfer'.stage = "data"
      BY <1>8, <2>4
    <3>3. CtlAddress'
      BY <1>0, <1>5, <2>2, <3>1, <3>2 DEF CtlAddress, SameAddress
    <3>4. Reading'
      BY <1>8, <3>1 DEF Reading
    <3>5. CtlStages'
      BY <1>8, <1>11, <2>4, <3>2, <3>4 DEF CtlStages
    <3> QED BY <1>9, <3>1, <3>3, <3>5 DEF CtlInv
  <2>5. CASE ~(r.len > 0)
    <3>1. /\ DevOK(dev)' /\ SameAddress(dev', d)
          /\ dev'.tx = [res |-> "ACK", tog |-> 1, len |-> 0]
      BY <1>5, <1>6, <1>7, <1>11, <2>5, SetupWrite
    <3>2. xfer'.stage = "status"
      BY <1>8, <2>5
    <3>3. CtlAddress'
      BY <1>0, <1>5, <2>2, <2>3, <3>1, <3>2 DEF CtlAddress, SameAddress
    <3>4. CtlStages'
      BY <3>1, <3>2 DEF CtlStages
    <3> QED BY <1>9, <3>1, <3>3, <3>4 DEF CtlInv
  <2> QED BY <2>4, <2>5
<1> QED BY <1>1, <1>10, <1>11 DEF DriverRequests

\* The piece that an IN token takes, in each state of a read.
LEMMA TakeStep ==
  ASSUME CtlInv, xfer.stage = "data", TakeData
  PROVE  /\ xfer' = [stage |-> xfer'.stage, r |-> xfer'.r, tog |-> xfer'.tog, got |-> xfer'.got]
         /\ xfer'.r = xfer.r /\ xfer'.tog \in {0, 1} /\ xfer'.got \in Seq(Pieces)
         /\ \/ xfer'.stage = "statusOut" /\ ReplyWhole'
            \/ /\ xfer'.stage = "data" /\ xfer'.tog = 0 /\ xfer'.got = <<FirstPiece>>
               /\ Asked(xfer.r) = "config" /\ Whole(xfer.r) > 64
               /\ Serves(dev, xfer.r)
<1> DEFINE r == xfer.r
           piece == [blk |-> dev.chunk.blk, off |-> dev.chunk.off, len |-> dev.tx.len]
           got == Append(xfer.got, piece)
           ends == dev.tx.len < MAX_PACKET_SIZE \/ Received(got) >= r.len
           want == Asked(r)
<1>0. /\ FromDriver(r) /\ r.len > 0 /\ Reading /\ dev \in DevType
      /\ xfer = [stage |-> xfer.stage, r |-> xfer.r, tog |-> xfer.tog, got |-> xfer.got]
      /\ xfer.tog \in {0, 1} /\ xfer.got \in Seq(Pieces)
  BY DEF CtlInv, CtlTypes, CtlStages, DevOK
<1>1. /\ want \in Blocks /\ r.len \in Nat /\ Whole(r) \in 1..84
      /\ want = "config" => Whole(r) = r.len
      /\ Whole(r) = Lesser(r.len, BlockLength[want])
  BY <1>0, DriverFacts DEF Whole
<1>2. /\ BlockLength[want] \in 1..84
      /\ want # "config" => BlockLength[want] < 64
  BY <1>1, BlockNames
<1>3. piece \in Pieces
  <2>1. dev.chunk.blk \in Blocks /\ dev.chunk.off \in Nat /\ dev.tx.len \in Nat
    <3>1. /\ dev.chunk \in [blk : Blocks, off : Nat]
          /\ dev.tx \in [res : {"ACK", "NAK"}, tog : {0, 1}, len : 0..64]
      BY <1>0 DEF DevType, MAX_PACKET_SIZE
    <3> QED BY <3>1
  <2> QED BY <2>1, BlockNames DEF Pieces
<1>4. CASE dev.tx.tog # xfer.tog
  <2>1. xfer' = xfer
    BY <1>4 DEF TakeData
  <2>2. xfer.got = <<FirstPiece>> /\ xfer.tog = 0 /\ want = "config" /\ Whole(r) > 64 /\ Serves(dev, r)
    BY <1>0, <1>4 DEF Reading, Serves, ServesRest
  <2> QED BY <1>0, <2>1, <2>2
<1>5. CASE dev.tx.tog = xfer.tog
  <2>1. xfer' = [xfer EXCEPT !.got = got, !.tog = 1 - xfer.tog,
                             !.stage = IF ends THEN "statusOut" ELSE "data"]
    BY <1>5 DEF TakeData
  <2>2. PICK st : st = IF ends THEN "statusOut" ELSE "data"
    OBVIOUS
  <2>3. xfer' = [stage |-> st, r |-> xfer.r, tog |-> 1 - xfer.tog, got |-> got]
    <3>1. PICK g, t : g = got /\ t = 1 - xfer.tog
      OBVIOUS
    <3>2. xfer' = [xfer EXCEPT !.got = g, !.tog = t, !.stage = st]
      BY <2>1, <2>2, <3>1
    <3>3. PICK a, b, c, e : xfer = [stage |-> a, r |-> b, tog |-> c, got |-> e] /\ b = xfer.r
      BY <1>0
    <3> QED BY <3>1, <3>2, <3>3
  <2>4. got \in Seq(Pieces) /\ 1 - xfer.tog \in {0, 1} /\ Len(got) = Len(xfer.got) + 1
        /\ got[Len(got)] = piece /\ \A i \in 1..Len(xfer.got) : got[i] = xfer.got[i]
    BY <1>0, <1>3, AppendProperties
  <2>5. Received(got) = dev.chunk.off + dev.tx.len
    <3>1. got # <<>>
      BY <2>4
    <3> QED BY <2>4, <3>1 DEF Received
  <2>6. CASE xfer.got = <<>>
    <3>1. Serves(dev, r)
      BY <1>0, <2>6 DEF Reading
    <3>2. PICK n : n = dev.tx.len
      OBVIOUS
    <3>3. /\ dev.chunk.blk = want /\ dev.chunk.off = 0 /\ n = Lesser(Whole(r), 64)
          /\ dev.tx.tog = 1
      BY <3>1, <3>2 DEF Serves
    <3>4. n \in 1..64 /\ (n < 64 => n = Whole(r)) /\ n <= Whole(r) /\ Received(got) = n
      BY <1>1, <2>5, <3>2, <3>3 DEF Lesser
    <3>5. Len(got) = 1 /\ got[1] = piece
      BY <2>4, <2>6
    <3>6. CASE ends
      <4>1. n = Whole(r)
        BY <1>1, <1>2, <3>2, <3>4, <3>6 DEF MAX_PACKET_SIZE, Lesser
      <4>2. ReplyWhole'
        <5>1. xfer'.got = got /\ xfer'.r = r
          BY <2>3
        <5>2. \A i \in DOMAIN got : i = 1
          BY <2>4, <3>5
        <5>3. piece.blk = want /\ piece.off = 0
          BY <3>3
        <5>4. (1 - 1) * MAX_PACKET_SIZE = 0
          BY DEF MAX_PACKET_SIZE
        <5>5. /\ \A i \in DOMAIN got : got[i].blk = want /\ got[i].off = (i - 1) * MAX_PACKET_SIZE
              /\ Received(got) = Lesser(r.len, BlockLength[want])
          BY <1>1, <3>4, <3>5, <4>1, <5>2, <5>3, <5>4
        <5> QED BY <5>1, <5>5 DEF ReplyWhole, Received
      <4> QED BY <2>2, <2>3, <2>4, <3>6, <4>2
    <3>7. CASE ~ends
      <4>1. n = 64 /\ r.len > 64
        BY <1>1, <3>2, <3>4, <3>7 DEF MAX_PACKET_SIZE
      <4>2. want = "config" /\ Whole(r) > 64
        BY <1>1, <1>2, <3>4, <4>1 DEF Lesser
      <4>3. piece = FirstPiece
        BY <3>2, <3>3, <4>1, <4>2 DEF FirstPiece
      <4>4. got = <<FirstPiece>>
        BY <2>6, <4>3
      <4>5. 1 - xfer.tog = 0
        BY <1>5, <3>3
      <4> QED BY <2>2, <2>3, <2>4, <3>1, <3>7, <4>2, <4>4, <4>5
    <3> QED BY <3>6, <3>7
  <2>7. CASE xfer.got # <<>>
    <3>1. xfer.got = <<FirstPiece>> /\ want = "config" /\ Whole(r) > 64 /\ ServesRest(dev, r)
      BY <1>0, <1>5, <2>7 DEF Reading, Serves
    <3>2. dev.chunk.blk = "config" /\ dev.chunk.off = 64 /\ dev.tx.len = Whole(r) - 64
      BY <3>1 DEF ServesRest
    <3>3. dev.tx.len < 64 /\ Received(got) = Whole(r)
      BY <1>1, <2>5, <3>2
    <3>4. ends
      BY <3>3 DEF MAX_PACKET_SIZE
    <3>5. Len(got) = 2 /\ got[1] = FirstPiece /\ got[2] = piece
      <4>1. Len(xfer.got) = 1 /\ xfer.got[1] = FirstPiece
        BY <3>1
      <4>2. 1 \in 1..1 /\ 1 + 1 = 2
        OBVIOUS
      <4> QED BY <2>4, <4>1, <4>2
    <3>6. ReplyWhole'
      <4>1. xfer'.got = got /\ xfer'.r = r
        BY <2>3
      <4>2. \A i \in DOMAIN got : i = 1 \/ i = 2
        BY <2>4, <3>5
      <4>3. /\ piece.blk = want /\ piece.off = 64
            /\ FirstPiece.blk = want /\ FirstPiece.off = 0
        BY <3>1, <3>2 DEF FirstPiece
      <4>4. (1 - 1) * MAX_PACKET_SIZE = 0 /\ (2 - 1) * MAX_PACKET_SIZE = 64
        BY DEF MAX_PACKET_SIZE
      <4>5. /\ \A i \in DOMAIN got : got[i].blk = want /\ got[i].off = (i - 1) * MAX_PACKET_SIZE
            /\ Received(got) = Lesser(r.len, BlockLength[want])
        BY <1>1, <3>3, <3>5, <4>2, <4>3, <4>4
      <4> QED BY <4>1, <4>5 DEF ReplyWhole, Received
    <3> QED BY <2>2, <2>3, <2>4, <3>4, <3>6
  <2> QED BY <2>6, <2>7
<1> QED BY <1>4, <1>5

LEMMA DataStep ==
  ASSUME DriverHost, CtlInv, DataIn
  PROVE  CtlInv'
<1>0. /\ DevOK(dev) /\ dev.address = host_ad /\ dev.R8_USB_DEV_AD = host_ad
      /\ FromDriver(xfer.r) /\ xfer.r.len > 0 /\ dev \in DevType
  BY DEF CtlInv, CtlTypes, CtlAddress, CtlStages, DataIn, DevOK
<1>1. /\ DevOK(dev)' /\ dev'.address = host_ad /\ dev'.R8_USB_DEV_AD = host_ad
      /\ dev' = dev \/ dev' = ep_handler(dev, "IN")
  <2>1. dev' = dev \/ dev' = ep_handler(dev, "IN")
    BY DEF DataIn
  <2>2. CASE dev' = dev
    BY <1>0, <2>1, <2>2
  <2>3. CASE dev' = ep_handler(dev, "IN")
    BY <1>0, <2>1, <2>3, TokenStep
  <2> QED BY <2>1, <2>2, <2>3
<1>2. /\ xfer' = [stage |-> xfer'.stage, r |-> xfer'.r, tog |-> xfer'.tog, got |-> xfer'.got]
      /\ xfer'.r = xfer.r /\ xfer'.tog \in {0, 1} /\ xfer'.got \in Seq(Pieces)
      /\ \/ xfer'.stage = "statusOut" /\ ReplyWhole'
         \/ /\ xfer'.stage = "data" /\ xfer'.tog = 0 /\ xfer'.got = <<FirstPiece>>
            /\ Asked(xfer.r) = "config" /\ Whole(xfer.r) > 64
            /\ Serves(dev, xfer.r)
  BY TakeStep DEF DataIn
<1>3. host_ad' = host_ad /\ place' = place
  BY DEF DataIn
<1>4. CtlTypes'
  BY <1>1, <1>2, <1>3 DEF CtlInv, CtlTypes, Pieces
<1>5. CtlAddress'
  BY <1>1, <1>2, <1>3 DEF CtlAddress
<1>6. CtlStages'
  <2>1. CASE xfer'.stage = "statusOut"
    BY <1>0, <1>2, <2>1 DEF CtlStages
  <2>2. CASE xfer'.stage = "data"
    <3>1. Serves(dev', xfer.r) \/ ServesRest(dev', xfer.r)
      <4>1. CASE dev' = dev
        BY <1>2, <2>2, <4>1
      <4>2. CASE dev' = ep_handler(dev, "IN")
        <5>1. Lesser(Whole(xfer.r), 64) = 64 /\ Whole(xfer.r) - 64 > 0
          <6>1. Whole(xfer.r) \in 1..84
            BY <1>0, DriverFacts
          <6>2. Whole(xfer.r) > 64
            BY <1>2, <2>2
          <6> QED BY <6>1, <6>2 DEF Lesser
        <5>2. dev.remain_len = Whole(xfer.r) - 64 /\ dev._tog = 0 /\ dev.buf.recip # INTERF
          BY <1>2, <2>2, <5>1 DEF Serves, INTERF
        <5>3. /\ dev'.tx = [res |-> "ACK", tog |-> dev._tog, len |-> dev.remain_len]
              /\ dev'.chunk = [blk |-> "config", off |-> 64]
          BY <1>0, <4>2, <5>1, <5>2, TokenStep
        <5> QED BY <5>2, <5>3 DEF ServesRest
      <4> QED BY <1>1, <4>1, <4>2
    <3>2. Reading'
      BY <1>2, <2>2, <3>1 DEF Reading
    <3> QED BY <1>0, <1>2, <2>2, <3>2 DEF CtlStages
  <2> QED BY <1>2, <2>1, <2>2
<1> QED BY <1>4, <1>5, <1>6 DEF CtlInv

LEMMA StatusStep ==
  ASSUME DriverHost, CtlInv, StatusOut \/ StatusIn
  PROVE  CtlInv'
<1>0. /\ DevOK(dev) /\ dev.R8_USB_DEV_AD = host_ad /\ dev \in DevType
      /\ host_ad \in Addresses \cup {0} /\ place \in 1..Len(Enumeration) + 1
      /\ Len(Enumeration) \in Nat
      /\ xfer = [stage |-> xfer.stage, r |-> xfer.r, tog |-> xfer.tog, got |-> xfer.got]
      /\ xfer.tog \in {0, 1} /\ xfer.got \in Seq(Pieces)
  BY DEF CtlInv, CtlTypes, CtlAddress, DevOK, DriverHost
<1>1. PICK token \in {"IN", "OUT"} : dev' = ep_handler(dev, token)
  BY DEF StatusOut, StatusIn
<1>2. Completed(TRUE)
  <2>1. CASE StatusOut
    BY <2>1 DEF StatusOut
  <2>2. CASE StatusIn
    <3>1. dev.tx = [res |-> "ACK", tog |-> 1, len |-> 0]
      BY <2>2 DEF StatusIn, CtlInv, CtlStages
    <3>2. (dev.tx.len = 0 /\ dev.tx.tog = 1) = TRUE
      BY <3>1
    <3> QED BY <2>2, <3>2, Zenon DEF StatusIn
  <2> QED BY <2>1, <2>2
<1>3. /\ xfer'.stage = "idle" /\ xfer'.r = xfer.r /\ xfer'.tog = xfer.tog /\ xfer'.got = xfer.got
      /\ xfer' = [stage |-> xfer'.stage, r |-> xfer'.r, tog |-> xfer'.tog, got |-> xfer'.got]
  <2>1. xfer' = [xfer EXCEPT !.stage = "idle"]
    BY <1>2 DEF Completed
  <2>2. PICK a, b, c, e : xfer = [stage |-> a, r |-> b, tog |-> c, got |-> e]
    BY <1>0
  <2> QED BY <2>1, <2>2
<1>4. DevOK(dev)' /\ dev'.address = dev.address
      /\ dev'.R8_USB_DEV_AD \in {dev.R8_USB_DEV_AD, dev.address}
      /\ (dev.buf.recip # INTERF => dev'.R8_USB_DEV_AD = dev.address)
  BY <1>0, <1>1, TokenStep
<1>5. place' \in 1..Len(Enumeration) + 1
  BY <1>0, <1>2 DEF Completed, Configured
<1>6. host_ad' \in Addresses \cup {0} /\ dev'.address = host_ad' /\ dev'.R8_USB_DEV_AD = host_ad'
  <2>1. CASE GivesAddress
    <3>1. xfer.stage = "status"
      <4>1. CASE xfer.stage = "statusOut"
        BY <2>1, <4>1, DriverFacts DEF CtlInv, CtlStages, GivesAddress
      <4> QED BY <4>1 DEF StatusOut, StatusIn
    <3>2. PICK a \in Addresses : /\ xfer.r = SetAddress(a) /\ dev.buf = xfer.r
                                 /\ dev.address = a
      BY <2>1, <3>1 DEF CtlInv, CtlAddress
    <3>3. xfer.r.n = a /\ dev.buf.recip # INTERF
      BY <3>2, AddressFields DEF DEVICE, INTERF
    <3> QED BY <1>2, <1>4, <2>1, <3>2, <3>3 DEF Completed
  <2>2. CASE ~GivesAddress
    <3>1. host_ad' = host_ad
      BY <1>2, <2>2 DEF Completed
    <3>2. dev.address = host_ad
      BY <2>2 DEF CtlInv, CtlAddress, StatusOut, StatusIn
    <3> QED BY <1>0, <1>4, <3>1, <3>2
  <2> QED BY <2>1, <2>2
<1>7. CtlTypes'
  BY <1>0, <1>3, <1>4, <1>5, <1>6 DEF CtlTypes, Pieces
<1>8. CtlAddress'
  BY <1>3, <1>6 DEF CtlAddress
<1>9. CtlStages'
  BY <1>3 DEF CtlStages
<1> QED BY <1>7, <1>8, <1>9 DEF CtlInv

LEMMA BusResetStep ==
  ASSUME DriverHost, CtlInv, BusReset
  PROVE  CtlInv'
<1>0. DevOK(dev) /\ dev \in DevType
  BY DEF CtlInv, CtlTypes, DevOK
<1>1. dev' = [dev EXCEPT !.R8_USB_DEV_AD = 0, !.tx = [res |-> "NAK", tog |-> 0, len |-> 0]]
      /\ xfer' = Idle /\ host_ad' = 0 /\ place' = 1
  BY DEF BusReset, handle_busReset
<1>2. /\ dev' \in DevType /\ dev'.R8_USB_DEV_AD = 0
      /\ dev'.buf = dev.buf /\ dev'.remain_len = dev.remain_len /\ dev'.blk = dev.blk
      /\ dev'.p_buf = dev.p_buf /\ dev'.req_len = dev.req_len
  <2>1. PICK t : t = [res |-> "NAK", tog |-> 0, len |-> 0]
    OBVIOUS
  <2>2. t \in [res : {"ACK", "NAK"}, tog : {0, 1}, len : 0..MAX_PACKET_SIZE]
    BY <2>1 DEF MAX_PACKET_SIZE
  <2>3. PICK z : z = [dev EXCEPT !.R8_USB_DEV_AD = 0]
    OBVIOUS
  <2>4. /\ z \in DevType /\ z.R8_USB_DEV_AD = 0
        /\ z.buf = dev.buf /\ z.remain_len = dev.remain_len /\ z.blk = dev.blk
        /\ z.p_buf = dev.p_buf /\ z.req_len = dev.req_len
    BY <1>0, <2>3 DEF DevType
  <2>5. dev' = [z EXCEPT !.tx = t]
    BY <1>1, <2>1, <2>3
  <2> QED BY <2>2, <2>4, <2>5 DEF DevType
<1>3. DevOK(dev)'
  BY <1>0, <1>2 DEF DevOK
<1>4. /\ xfer'.stage = "idle" /\ xfer'.tog = 0 /\ xfer'.got = <<>>
      /\ xfer' = [stage |-> xfer'.stage, r |-> xfer'.r, tog |-> xfer'.tog, got |-> xfer'.got]
  BY <1>1 DEF Idle
<1>5. xfer'.got \in Seq(Pieces) /\ place' \in 1..Len(Enumeration) + 1
  BY <1>1, <1>4 DEF DriverHost
<1>6. CtlTypes'
  BY <1>1, <1>3, <1>4, <1>5 DEF CtlTypes, Pieces
<1>7. CtlAddress'
  BY <1>1, <1>2, <1>4 DEF CtlAddress
<1>8. CtlStages'
  BY <1>4 DEF CtlStages
<1> QED BY <1>6, <1>7, <1>8 DEF CtlInv

LEMMA StepCtl == DriverHost /\ CtlInv /\ [Next]_vars => CtlInv'
<1> SUFFICES ASSUME DriverHost, CtlInv, [Next]_vars PROVE CtlInv'
  OBVIOUS
<1>1. CASE UNCHANGED controlVars
  BY <1>1 DEF controlVars, hostVars, CtlInv, CtlTypes, CtlAddress, CtlStages, Reading, ReplyWhole,
              GivesAddress, DevOK, Serves, ServesRest, Received, Pieces
<1>2. CASE controlNext
  <2>1. ASSUME NEW r \in Requests, Setup(r) \/ SetupAgain(r)
        PROVE  CtlInv'
    <3>1. Wanted(r) /\ Begin(r) /\ host_ad' = host_ad /\ place' = place
      BY <2>1 DEF Setup, SetupAgain
    <3> QED BY <3>1, BeginStep
  <2> QED BY <1>2, <2>1, DataStep, StatusStep DEF controlNext
<1>3. CASE BusReset
  BY <1>3, BusResetStep
<1> QED BY <1>1, <1>2, <1>3 DEF Next, Reset, vars

\* A host that asks for descriptors in their whole length, and gives a badge that it
\* reset its address before anything else, gets from every read the block it asked
\* for and from every other request an empty packet, whatever transfers it gave up
\* and whatever acknowledgements were lost (ctrl.c, dev.c, utils.c:28-80).
THEOREM RepliesWholeHolds ==
  ASSUME DriverHost
  PROVE  Spec => []RepliesWhole
<1>1. Init => CtlInv
  BY InitCtl DEF Init
<1> QED
  BY <1>1, StepCtl, CtlImplies, PTL DEF Spec

\* The badge answers such a host at the address the host uses: from the end of the
\* request that gives the address, until the bus is reset (dev.c:16-24, ctrl.c:96-108).
THEOREM AddressTogetherHolds ==
  ASSUME DriverHost
  PROVE  Spec => []AddressTogether
<1>1. Init => CtlInv
  BY InitCtl DEF Init
<1> QED
  BY <1>1, StepCtl, CtlImplies, PTL DEF Spec

=============================================================================
