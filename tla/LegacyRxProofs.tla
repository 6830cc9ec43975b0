--------------------------- MODULE LegacyRxProofs ---------------------------
(***************************************************************************)
(* Proofs about LegacyRx for every set of files, their lengths and every   *)
(* set of PINs: the flash and the buffers on the way to it hold nothing    *)
(* but files, a file whose last chunk was answered with success is the one *)
(* that is saved, and packets are taken only from a host with the PIN.     *)
(* Hosts over USB send any files, one after the other, break them off, and *)
(* find memory or not.                                                     *)
(***************************************************************************)
EXTENDS LegacyRx, Integers, SequenceTheorems, TLAPS

\* What the receiver holds after the first n chunks of a file.
Sent(u, n) == SubSeq(File(u), 1, n)

LEMMA FileIsSeq ==
  ASSUME NEW u \in Uploads
  PROVE  /\ Length[u] \in Nat /\ Length[u] > 4
         /\ File(u) \in Seq(Chunks) /\ Len(File(u)) = Length[u]
         /\ \A i \in 1..Length[u] : File(u)[i] = [up |-> u, at |-> i] /\ File(u)[i] \in Chunks
<1>1. Length[u] \in Nat /\ Length[u] > 4
  BY UploadsAssumption
<1>2. PICK n \in Nat : n = Length[u]
  BY <1>1
<1>3. File(u) = [i \in 1..n |-> [up |-> u, at |-> i]]
  BY <1>2 DEF File
<1>4. \A i \in 1..n : [up |-> u, at |-> i] \in Chunks
  BY DEF Chunks
<1>5. File(u) \in [1..n -> Chunks]
  BY <1>3, <1>4
<1>6. File(u) \in Seq(Chunks)
  BY <1>5
<1>7. Len(File(u)) = n
  BY <1>5, <1>6
<1>8. \A i \in 1..n : File(u)[i] = [up |-> u, at |-> i] /\ File(u)[i] \in Chunks
  BY <1>3, <1>4
<1> QED BY <1>1, <1>2, <1>6, <1>7, <1>8

LEMMA FileAt ==
  ASSUME NEW u \in Uploads, NEW i \in 1..Length[u]
  PROVE  /\ File(u)[i].up = u /\ File(u)[i].at = i
         /\ IsWang(File(u)[i]) <=> i = 1
<1>1. File(u)[i] = [up |-> u, at |-> i]
  BY FileIsSeq
<1> QED BY <1>1 DEF IsWang

LEMMA FirstPlace ==
  ASSUME NEW u \in Uploads
  PROVE  1 \in 1..Length[u] /\ 2 \in 1..Length[u] /\ 0 \in 0..Length[u] - 1
  BY FileIsSeq

LEMMA SentIsSeq ==
  ASSUME NEW u \in Uploads, NEW n \in 0..Length[u]
  PROVE  /\ Sent(u, n) \in Seq(Chunks) /\ Len(Sent(u, n)) = n
         /\ \A i \in 1..n : Sent(u, n)[i] = File(u)[i]
<1>1. \A i \in 1..n : File(u)[i] \in Chunks
  BY FileIsSeq
<1>2. n \in Int /\ 1 \in Int
  BY FileIsSeq
<1> QED BY <1>1, <1>2, FileIsSeq, SubSeqProperties DEF Sent

LEMMA SentAppend ==
  ASSUME NEW u \in Uploads, NEW n \in 0..Length[u] - 1
  PROVE  Append(Sent(u, n), File(u)[n + 1]) = Sent(u, n + 1)
<1>1. Length[u] \in Nat /\ n \in Nat /\ n + 1 \in 1..Length[u]
  BY FileIsSeq
<1>2. Append(Sent(u, n), File(u)[n + 1]) = Sent(u, n) \o <<File(u)[n + 1]>>
  BY <1>1, FileIsSeq, SentIsSeq, AppendIsConcat
<1>3. Sent(u, n + 1) = SubSeq(File(u), 1, n) \o <<File(u)[n + 1]>>
  BY <1>1, FileIsSeq, SubSeqRecursiveSecond DEF Sent
<1> QED BY <1>2, <1>3 DEF Sent

LEMMA SentAll ==
  ASSUME NEW u \in Uploads
  PROVE  Sent(u, Length[u]) = File(u) /\ Sent(u, 0) = <<>>
  BY FileIsSeq, SubSeqFull, SubSeqEmpty DEF Sent

\* A packet over USB continues what was sent before it.
LEMMA SentPacket ==
  ASSUME NEW u \in Uploads, NEW n \in 0..Length[u] - 1, NEW m \in n + 1..Length[u]
  PROVE  /\ Sent(u, n) \o SubSeq(File(u), n + 1, m) = Sent(u, m)
         /\ SubSeq(File(u), n + 1, m) \in Seq(Chunks)
         /\ Len(SubSeq(File(u), n + 1, m)) = m - n
<1>1. /\ Length[u] \in Nat /\ n \in Nat /\ m \in Nat
      /\ n \in 1 - 1..Length[u] /\ m \in n..Length[u] /\ 1 \in 1..Length[u] + 1
      /\ n + 1 \in Int /\ m \in Int
  BY FileIsSeq
<1>2. Sent(u, n) \o SubSeq(File(u), n + 1, m) = Sent(u, m)
  BY <1>1, FileIsSeq, ConcatAdjacentSubSeq DEF Sent
<1>3. \A i \in n + 1..m : File(u)[i] \in Chunks
  BY <1>1, FileIsSeq
<1>4. /\ SubSeq(File(u), n + 1, m) \in Seq(Chunks)
      /\ Len(SubSeq(File(u), n + 1, m)) = IF n + 1 <= m THEN m - (n + 1) + 1 ELSE 0
  BY <1>1, <1>3, SubSeqProperties
<1>5. n + 1 <= m /\ m - (n + 1) + 1 = m - n
  BY <1>1
<1> QED BY <1>2, <1>4, <1>5

-----------------------------------------------------------------------------
\* The receiver over BLE: what it holds while a host sends a file is what that
\* host has sent, and its length is known from the second chunk on.
BleAt(u) ==
  /\ bleFile = [up |-> u, next |-> c + 1]
  /\ c \in 1..Length[u] - 1
  /\ ble_data = Sent(u, c)
  /\ c > 1 => ble_len = Length[u]

BleInv ==
  /\ c \in Nat /\ ble_len \in Nat
  /\ BufferType(ble_data)
  /\ ble_data \in Seq(Chunks) => Len(ble_data) = c
  /\ bleFile = NoFile \/ \E u \in Uploads : BleAt(u)

\* The receiver over USB: a file that began in a buffer of its own has it to
\* itself, and nothing is left of an earlier file.
UsbAt(u) ==
  /\ usbFile = [up |-> u, next |-> rx_len + 1, fresh |-> TRUE]
  /\ rx_len \in UsbWidth..Length[u] - 1
  /\ usb_data = Sent(u, rx_len)
  /\ usb_len = Length[u]

\* What is left in the buffer for another file, or of a failed allocation, has no
\* order, but a length that is known.
UsbPast(u) ==
  /\ \E n \in 2..Length[u] : usbFile = [up |-> u, next |-> n, fresh |-> FALSE]
  /\ rx_len > 0

UsbType ==
  /\ BufferType(usb_data)
  /\ rx_len \in Nat /\ usb_len \in Nat
  /\ usb_data \in Seq(Chunks) => Len(usb_data) = rx_len
  /\ rx_len = 0 <=> usb_len = 0

UsbInv ==
  /\ UsbType
  /\ usbFile = NoFile \/ \E u \in Uploads : UsbAt(u) \/ UsbPast(u)

\* What is on its way into the flash is a file, while the heap is whole.
SaveInv ==
  /\ \/ saving = NULL
     \/ \E u \in Uploads : saving = File(u)
     \/ corrupt /\ saving = Garbage
  /\ stored \in {Erased, Garbage} \/ stored \in Seq(Chunks)
  /\ StoredWhole

FlagTypes ==
  /\ reset_rx \in BOOLEAN /\ authorized \in BOOLEAN
  /\ connected \in BOOLEAN /\ hostPin \in BOOLEAN /\ bypassed \in BOOLEAN
HeapTypes == corrupt \in BOOLEAN /\ spoilt \in BOOLEAN
RestType == auth_code \in Codes /\ result \in {0, 2, 3, 4, 5}

RxInv == BleInv /\ UsbInv /\ SaveInv /\ FlagTypes /\ HeapTypes /\ RestType

LEMMA RxInvImplies == RxInv => FlashSafe
<1> SUFFICES ASSUME RxInv PROVE FlashSafe
  OBVIOUS
<1> USE DEF RxInv
<1>1. /\ c \in Nat /\ ble_len \in Nat /\ BufferType(ble_data)
      /\ ble_data \in Seq(Chunks) => Len(ble_data) = c
  BY DEF BleInv
<1>2. /\ rx_len \in Nat /\ usb_len \in Nat /\ BufferType(usb_data)
      /\ usb_data \in Seq(Chunks) => Len(usb_data) = rx_len
  BY DEF UsbInv, UsbType
<1>3. bleFile \in {NoFile} \cup [up : Uploads, next : Nat]
  BY <1>1 DEF BleInv, BleAt
<1>4. usbFile \in {NoFile} \cup [up : Uploads, next : Nat, fresh : BOOLEAN]
  <2>1. CASE \E u \in Uploads : UsbAt(u)
    BY <1>2, <2>1 DEF UsbAt
  <2>2. CASE \E u \in Uploads : UsbPast(u)
    BY <2>2, FileIsSeq DEF UsbPast
  <2> QED BY <2>1, <2>2 DEF UsbInv
<1>5. /\ saving \in {NULL, Garbage} \/ saving \in Seq(Chunks)
      /\ stored \in {Erased, Garbage} \/ stored \in Seq(Chunks)
  BY FileIsSeq DEF SaveInv
<1>6. /\ {reset_rx, authorized} \subseteq BOOLEAN
      /\ {connected, hostPin, bypassed, corrupt, spoilt} \subseteq BOOLEAN
  BY Zenon DEF FlagTypes, HeapTypes
<1>7. TypeOK
  BY <1>1, <1>2, <1>3, <1>4, <1>5, <1>6 DEF TypeOK, RestType
<1> QED BY <1>7 DEF FlashSafe, SaveInv

-----------------------------------------------------------------------------
(* Packets over BLE.                                                       *)

LEMMA AcceptFirst ==
  ASSUME NEW u \in Uploads, Accept(File(u)[1], 0)
  PROVE  /\ c' = 1 /\ ble_data' = Sent(u, 1) /\ result' = 0
         /\ UNCHANGED <<ble_len, saving, stored>>
<1>1. ~Complete(0, ble_len)
  BY DEF Complete
<1>2. Append(<<>>, File(u)[1]) = Sent(u, 1)
  <2>1. Append(Sent(u, 0), File(u)[0 + 1]) = Sent(u, 0 + 1)
    BY FirstPlace, SentAppend
  <2>2. 0 + 1 = 1
    OBVIOUS
  <2> QED BY <2>1, <2>2, SentAll, Zenon
<1> QED BY <1>1, <1>2 DEF Accept

LEMMA AcceptNext ==
  ASSUME NEW u \in Uploads, BleAt(u), Accept(File(u)[c + 1], c)
  PROVE  /\ c' = c + 1 /\ ble_len' = Length[u] /\ result' = 0
         /\ \/ /\ c + 1 = Length[u]
               /\ ble_data' = NULL /\ saving' \in Held(File(u)) /\ stored' = Erased
            \/ /\ c + 1 < Length[u]
               /\ ble_data' = Sent(u, c + 1) /\ UNCHANGED <<saving, stored>>
<1> USE DEF BleAt
<1>1. c \in Nat /\ c > 0 /\ c + 1 \in 0..Length[u] /\ Length[u] \in Nat /\ Length[u] > 4
  BY FileIsSeq
<1>2. Append(ble_data, File(u)[c + 1]) = Sent(u, c + 1)
  BY <1>1, SentAppend
<1>3. c = 1 => Sent(u, c + 1)[2].up = u
  <2>1. 2 \in 0..Length[u] /\ 2 \in 1..2
    BY <1>1
  <2>2. Sent(u, 2)[2] = File(u)[2]
    BY <2>1, SentIsSeq, Zenon
  <2> QED BY <2>2, FirstPlace, FileAt
<1>4. /\ c' = c + 1 /\ result' = 0 /\ ble_len' = IF c = 1 THEN Length[Sent(u, c + 1)[2].up] ELSE ble_len
      /\ IF Complete(c, ble_len')
         THEN ble_data' = NULL /\ saving' \in Held(Sent(u, c + 1)) /\ stored' = Erased
         ELSE ble_data' = Sent(u, c + 1) /\ UNCHANGED <<saving, stored>>
  <2>1. c # 0
    BY <1>1
  <2> QED BY <1>2, <2>1, Zenon DEF Accept
<1>5. ble_len' = Length[u]
  BY <1>1, <1>3, <1>4
<1>6. CASE c + 1 = Length[u]
  <2>1. Complete(c, ble_len')
    BY <1>1, <1>5, <1>6 DEF Complete
  <2> QED BY <1>4, <1>5, <1>6, <2>1, SentAll
<1>7. CASE c + 1 # Length[u]
  <2>1. ~Complete(c, ble_len') /\ c + 1 < Length[u]
    BY <1>1, <1>5, <1>7 DEF Complete
  <2> QED BY <1>4, <1>5, <2>1
<1> QED BY <1>6, <1>7

\* What a packet over BLE leads to: it is refused or dropped, or it is one more
\* chunk of its file, or the last one, which starts the save of that file.
BleOutcome(u) ==
  \/ /\ bleFile' = NoFile /\ result' \in {3, 4, 5}
     /\ UNCHANGED <<saving, stored>>
     /\ UNCHANGED bleRx \/ (ble_data' = NULL /\ c' \in Nat /\ c' <= c /\ ble_len' = ble_len)
  \/ BleAt(u)' /\ authorized /\ result' = 0 /\ ble_len' \in Nat /\ UNCHANGED <<saving, stored>>
  \/ /\ bleFile' = NoFile /\ ble_data' = NULL /\ c' \in Nat /\ ble_len' \in Nat /\ authorized
     /\ result' = 0
     /\ saving' \in Held(File(u)) /\ stored' = Erased

\* The first chunk of a file starts over, whatever was received before.
LEMMA BleFirst ==
  ASSUME BleInv, bleFile = NoFile, NEW u \in Uploads, legacy_ble_rx(File(u)[1]),
         bleFile' = IF result' # 0 \/ 1 = Length[u] THEN NoFile ELSE [up |-> u, next |-> 2]
  PROVE  BleOutcome(u)
<1>1. IsWang(File(u)[1]) /\ Restarts(File(u)[1]) /\ Length[u] > 4 /\ Length[u] \in Nat
  BY FileIsSeq, FirstPlace, FileAt DEF Restarts
<1>2. \/ Refuse(4) \/ Refuse(5)
      \/ authorized /\ (Accept(File(u)[1], 0) \/ NoMemory(0))
  BY <1>1 DEF legacy_ble_rx
<1>3. CASE Refuse(4) \/ Refuse(5)
  BY <1>3 DEF Refuse, BleOutcome
<1>4. CASE NoMemory(0)
  BY <1>4 DEF NoMemory, BleOutcome, BleInv
<1>5. CASE authorized /\ Accept(File(u)[1], 0)
  <2>1. /\ c' = 1 /\ ble_data' = Sent(u, 1) /\ result' = 0 /\ UNCHANGED <<ble_len, saving, stored>>
    BY <1>5, AcceptFirst
  <2>2. bleFile' = [up |-> u, next |-> c' + 1]
    BY <1>1, <2>1
  <2>3. BleAt(u)'
    BY <1>1, <2>1, <2>2 DEF BleAt, Sent
  <2> QED BY <1>5, <2>1, <2>3 DEF BleOutcome, BleInv
<1> QED BY <1>2, <1>3, <1>4, <1>5

\* A later chunk of the file goes on with what the file's host has sent.
LEMMA BleNext ==
  ASSUME BleInv, NEW u \in Uploads, BleAt(u), legacy_ble_rx(File(u)[c + 1]),
         bleFile' = IF result' # 0 \/ c + 1 = Length[u]
                    THEN NoFile ELSE [up |-> u, next |-> c + 2]
  PROVE  BleOutcome(u)
<1>1. /\ c \in Nat /\ c > 0 /\ c < Length[u] /\ Length[u] \in Nat /\ c + 1 \in 1..Length[u]
  BY FileIsSeq DEF BleAt
<1>2. ~IsWang(File(u)[c + 1]) /\ ~Restarts(File(u)[c + 1])
  <2>1. c + 1 # 1 /\ c # 0
    BY <1>1
  <2> QED BY <1>1, <2>1, FileAt, Zenon DEF Restarts
<1>3. ble_data # NULL
  BY <1>1, SentIsSeq, ValuesAssumption DEF BleAt
<1>4. \/ Refuse(4) \/ Refuse(5)
      \/ authorized /\ (Accept(File(u)[c + 1], c) \/ NoMemory(c))
  BY <1>1, <1>2, <1>3 DEF legacy_ble_rx
<1>5. CASE Refuse(4) \/ Refuse(5)
  BY <1>5 DEF Refuse, BleOutcome
<1>6. CASE NoMemory(c)
  BY <1>1, <1>6 DEF NoMemory, BleOutcome
<1>7. CASE authorized /\ Accept(File(u)[c + 1], c)
  <2>1. /\ c' = c + 1 /\ ble_len' = Length[u] /\ result' = 0
        /\ \/ /\ c + 1 = Length[u]
              /\ ble_data' = NULL /\ saving' \in Held(File(u)) /\ stored' = Erased
           \/ /\ c + 1 < Length[u]
              /\ ble_data' = Sent(u, c + 1) /\ UNCHANGED <<saving, stored>>
    BY <1>7, AcceptNext
  <2>2. CASE c + 1 = Length[u]
    BY <1>1, <1>7, <2>1, <2>2 DEF BleOutcome
  <2>3. CASE c + 1 # Length[u]
    <3>1. bleFile' = [up |-> u, next |-> c' + 1] /\ c' \in 1..Length[u] - 1
      BY <1>1, <2>1, <2>3
    <3>2. BleAt(u)'
      BY <2>1, <2>3, <3>1 DEF BleAt, Sent
    <3> QED BY <1>1, <1>7, <2>1, <2>3, <3>2 DEF BleOutcome
  <2> QED BY <2>2, <2>3
<1> QED BY <1>4, <1>5, <1>6, <1>7

LEMMA BleSends ==
  ASSUME BleInv, BleSend
  PROVE  \E u \in Uploads : /\ BleOutcome(u)
                            /\ bleFile = NoFile \/ BleAt(u)
<1>1. PICK u \in Uploads :
        LET i == IF bleFile = NoFile THEN 1 ELSE bleFile.next
        IN  /\ bleFile # NoFile => bleFile.up = u
            /\ legacy_ble_rx(File(u)[i])
            /\ bleFile' = IF result' # 0 \/ i = Length[u]
                          THEN NoFile
                          ELSE [up |-> u, next |-> i + 1]
  BY DEF BleSend
<1>2. CASE bleFile = NoFile
  BY <1>1, <1>2, BleFirst
<1>3. CASE bleFile # NoFile
  <2>1. PICK v \in Uploads : BleAt(v)
    BY <1>3 DEF BleInv
  <2>2. v = u /\ bleFile.next = c + 1 /\ c \in Nat
    BY <1>1, <1>3, <2>1 DEF BleAt, BleInv
  <2>3. c + 1 + 1 = c + 2
    BY <2>2
  <2> QED BY <1>1, <1>3, <2>1, <2>2, <2>3, BleNext
<1> QED BY <1>2, <1>3

-----------------------------------------------------------------------------
(* Packets over USB.                                                       *)

LEMMA NoBufferIsNoSeq ==
  /\ NULL \notin Seq(Chunks) /\ Freed \notin Seq(Chunks) /\ Garbage \notin Seq(Chunks)
  /\ <<>> \notin NoBuffer
  /\ \A data \in Seq(Chunks) : data \notin NoBuffer
  BY ValuesAssumption, EmptySeq DEF NoBuffer

\* Whatever the buffer holds, and whether there is memory or not, the receiver
\* counts the packet and knows a length.
LEMMA UsbRxTypes ==
  ASSUME UsbType, corrupt \in BOOLEAN, NEW packet \in Seq(Chunks), Len(packet) > 0,
         rx_len = 0 => Length[packet[2].up] \in Nat \ {0},
         NEW got \in BOOLEAN, NEW kept \in BOOLEAN
  PROVE  LET rx == legacy_usb_rx(packet, got, kept)
         IN  /\ rx.rx_len \in Nat \ {0} /\ rx.usb_len \in Nat \ {0}
             /\ rx.rx_len = rx_len + Len(packet)
             /\ BufferType(rx.usb_data)
             /\ rx.usb_data \in Seq(Chunks) => Len(rx.usb_data) = rx.rx_len
             /\ rx.corrupt \in BOOLEAN /\ (corrupt => rx.corrupt)
             /\ rx.saved \in BOOLEAN
             /\ ~rx.saved => rx.stored = stored
             /\ rx.saved => rx.stored = Garbage \/ rx.stored \in Seq(Chunks)
<1> DEFINE base == IF rx_len # 0 THEN usb_data ELSE IF got THEN <<>> ELSE NULL
           copied == IF base \in NoBuffer THEN base ELSE base \o packet
           total == rx_len + Len(packet)
           len == IF usb_len # 0 THEN usb_len
                  ELSE IF copied = NULL THEN NullLength ELSE Length[copied[2].up]
           data == IF usb_len # 0 THEN copied
                   ELSE IF ~kept THEN NULL
                   ELSE IF copied = NULL THEN Garbage ELSE copied
           full == total > UsbWidth /\ total >= len
<1>1. /\ rx_len \in Nat /\ usb_len \in Nat /\ Len(packet) \in Nat
      /\ total \in Nat \ {0}
  BY LenProperties DEF UsbType
<1>2. base \in NoBuffer \/ (base \in Seq(Chunks) /\ Len(base) = rx_len)
  BY <1>1, NoBufferIsNoSeq, EmptySeq DEF UsbType, BufferType, NoBuffer
<1>3. copied \in NoBuffer \/ (copied \in Seq(Chunks) /\ Len(copied) = total)
  <2>1. CASE base \in NoBuffer
    BY <2>1
  <2>2. CASE base \notin NoBuffer
    <3>1. copied = base \o packet /\ base \in Seq(Chunks) /\ Len(base) = rx_len
      BY <1>2, <2>2
    <3> QED BY <3>1, ConcatProperties
  <2> QED BY <2>1, <2>2
<1>4. len \in Nat \ {0}
  <2>1. CASE usb_len # 0
    BY <1>1, <2>1
  <2>2. CASE usb_len = 0
    <3>1. rx_len = 0 /\ base = IF got THEN <<>> ELSE NULL
      BY <2>2 DEF UsbType
    <3>2. copied = IF got THEN packet ELSE NULL
      BY <3>1, NoBufferIsNoSeq, ConcatEmptySeq DEF NoBuffer
    <3>3. CASE got
      BY <2>2, <3>1, <3>2, <3>3, NoBufferIsNoSeq
    <3>4. CASE ~got
      BY <2>2, <3>2, <3>4, ConfigAssumption
    <3> QED BY <3>3, <3>4
  <2> QED BY <2>1, <2>2
<1>5. data \in NoBuffer \/ (data \in Seq(Chunks) /\ Len(data) = total)
  BY <1>3 DEF NoBuffer
<1>6. full \in BOOLEAN
  OBVIOUS
<1>7. full /\ data \notin NoBuffer => SubSeq(data, 1, len) \in Seq(Chunks)
  <2> SUFFICES ASSUME full, data \in Seq(Chunks), Len(data) = total
               PROVE  SubSeq(data, 1, len) \in Seq(Chunks)
    BY <1>5
  <2> HIDE DEF base, copied, data, len, total
  <2>1. \A i \in 1..len : i \in 1..Len(data)
    BY <1>1, <1>4
  <2>2. \A i \in 1..len : data[i] \in Chunks
    BY <2>1, ElementOfSeq
  <2> QED BY <1>4, <2>2, SubSeqProperties
<1>8. legacy_usb_rx(packet, got, kept) =
        [rx_len |-> total,
         usb_len |-> len,
         usb_data |-> IF full /\ data # NULL THEN Freed ELSE data,
         corrupt |-> corrupt \/ copied = Freed \/ (copied # NULL /\ total > len),
         saved |-> full,
         stored |-> IF ~full THEN stored
                    ELSE IF data \in NoBuffer THEN Garbage
                    ELSE SubSeq(data, 1, len)]
  BY Zenon DEF legacy_usb_rx
<1> HIDE DEF base, copied, total, len, data, full
<1> DEFINE spoils == corrupt \/ copied = Freed \/ (copied # NULL /\ total > len)
<1>9. spoils \in BOOLEAN /\ (corrupt => spoils)
  BY Zenon
<1> HIDE DEF spoils
<1>10. /\ BufferType(IF full /\ data # NULL THEN Freed ELSE data)
       /\ (IF full /\ data # NULL THEN Freed ELSE data) \in Seq(Chunks) => ~full /\ Len(data) = total
  BY <1>5, NoBufferIsNoSeq DEF BufferType, NoBuffer
<1>11. total = rx_len + Len(packet)
  BY DEF total
<1> DEFINE rx == legacy_usb_rx(packet, got, kept)
<1>12. /\ rx.rx_len = total /\ rx.usb_len = len /\ rx.saved = full /\ rx.corrupt = spoils
       /\ rx.usb_data = IF full /\ data # NULL THEN Freed ELSE data
       /\ rx.stored = IF ~full THEN stored
                      ELSE IF data \in NoBuffer THEN Garbage
                      ELSE SubSeq(data, 1, len)
  <2>1. legacy_usb_rx(packet, got, kept) =
          [rx_len |-> total,
           usb_len |-> len,
           usb_data |-> IF full /\ data # NULL THEN Freed ELSE data,
           corrupt |-> spoils,
           saved |-> full,
           stored |-> IF ~full THEN stored
                      ELSE IF data \in NoBuffer THEN Garbage
                      ELSE SubSeq(data, 1, len)]
    BY <1>8, Zenon DEF spoils
  <2> QED BY <2>1
<1> HIDE DEF rx
<1>13. rx.usb_data \in Seq(Chunks) => Len(rx.usb_data) = rx.rx_len
  BY <1>10, <1>12
<1>14. /\ ~rx.saved => rx.stored = stored
       /\ rx.saved => rx.stored = Garbage \/ rx.stored \in Seq(Chunks)
  BY <1>7, <1>12, Zenon
<1>15. rx.saved \in BOOLEAN /\ rx.corrupt \in BOOLEAN /\ (corrupt => rx.corrupt)
  BY <1>6, <1>9, <1>12, Zenon
<1>16. BufferType(rx.usb_data)
  BY <1>10, <1>12
<1>17. rx.rx_len \in Nat \ {0} /\ rx.usb_len \in Nat \ {0} /\ rx.rx_len = rx_len + Len(packet)
  BY <1>1, <1>4, <1>11, <1>12
<1> QED BY <1>13, <1>14, <1>15, <1>16, <1>17, Zenon DEF rx

LEMMA UsbPacketIs ==
  ASSUME NEW u \in Uploads, NEW i \in 1..Length[u]
  PROVE  /\ UsbPacket(u, i) \in Seq(Chunks)
         /\ Len(UsbPacket(u, i)) = IF i + UsbWidth > Length[u] THEN Length[u] - i + 1 ELSE UsbWidth
         /\ Len(UsbPacket(u, i)) > 0
         /\ i = 1 => UsbPacket(u, i) = Sent(u, UsbWidth) /\ UsbPacket(u, i)[2].up = u
<1>1. Length[u] \in Nat /\ Length[u] > 4
  BY FileIsSeq
<1> DEFINE m == IF i + UsbWidth > Length[u] THEN Length[u] ELSE i + UsbWidth - 1
<1>2. m \in i - 1 + 1..Length[u] /\ i - 1 \in 0..Length[u] - 1 /\ i - 1 + 1 = i
  BY <1>1 DEF UsbWidth
<1>3. UsbPacket(u, i) = SubSeq(File(u), i, m)
  BY DEF UsbPacket
<1> HIDE DEF m
<1>4. SubSeq(File(u), i, m) \in Seq(Chunks) /\ Len(SubSeq(File(u), i, m)) = m - (i - 1)
  BY <1>2, SentPacket
<1>5. i = 1 => UsbPacket(u, i) = Sent(u, UsbWidth) /\ UsbPacket(u, i)[2].up = u
  <2> SUFFICES ASSUME i = 1
               PROVE  UsbPacket(u, 1) = Sent(u, UsbWidth) /\ UsbPacket(u, 1)[2].up = u
    OBVIOUS
  <2>1. 1 + 4 <= Length[u] /\ 1 + 4 - 1 = 4 /\ 4 \in 0..Length[u] /\ 2 \in 1..4
    BY <1>1
  <2>2. UsbPacket(u, 1) = Sent(u, 4)
    BY <1>1, <2>1 DEF UsbPacket, UsbWidth, Sent
  <2>3. Sent(u, 4)[2] = File(u)[2]
    BY <2>1, SentIsSeq
  <2> QED BY <2>2, <2>3, FirstPlace, FileAt DEF UsbWidth
<1> QED BY <1>1, <1>2, <1>3, <1>4, <1>5 DEF m, UsbWidth

\* The first packet after a reset, with memory, is what the receiver holds.
LEMMA UsbFirst ==
  ASSUME UsbInv, rx_len = 0, NEW u \in Uploads
  PROVE  LET rx == legacy_usb_rx(UsbPacket(u, 1), TRUE, TRUE)
         IN  /\ rx.rx_len = UsbWidth /\ rx.usb_len = Length[u]
             /\ rx.usb_data = Sent(u, UsbWidth)
             /\ rx.saved = FALSE
<1>1. usb_len = 0
  BY DEF UsbInv, UsbType
<1>2. Length[u] \in Nat /\ Length[u] > 4 /\ 4 \in 0..Length[u] /\ 1 \in 1..Length[u]
  BY FileIsSeq
<1>3. UsbPacket(u, 1) = Sent(u, 4) /\ Sent(u, 4)[2].up = u
  BY <1>2, UsbPacketIs DEF UsbWidth
<1>4. /\ Sent(u, 4) \in Seq(Chunks) /\ Len(Sent(u, 4)) = 4
      /\ Sent(u, 4) \notin NoBuffer /\ <<>> \o Sent(u, 4) = Sent(u, 4)
  BY <1>2, SentIsSeq, NoBufferIsNoSeq, ConcatEmptySeq
<1>5. rx_len + Len(Sent(u, 4)) = 4 /\ ~(4 > 4)
  BY <1>4
<1>6. <<>> \notin NoBuffer /\ NULL \in NoBuffer
  BY NoBufferIsNoSeq DEF NoBuffer
<1> DEFINE rx == legacy_usb_rx(Sent(u, 4), TRUE, TRUE)
<1>7. /\ rx.rx_len = 4 /\ rx.usb_len = Length[u] /\ rx.saved = FALSE
      /\ rx.usb_data = Sent(u, 4)
  <2>1. Sent(u, 4) # NULL
    BY <1>4, <1>6
  <2> QED BY <1>1, <1>3, <1>4, <1>5, <1>6, <2>1 DEF legacy_usb_rx, UsbWidth
<1> QED BY <1>3, <1>7 DEF UsbWidth

\* A later packet of a file with a buffer of its own goes on with it; the last
\* one completes it.
LEMMA UsbNextPacket ==
  ASSUME UsbInv, NEW u \in Uploads, UsbAt(u), NEW got, NEW kept
  PROVE  LET i == rx_len + 1
             rx == legacy_usb_rx(UsbPacket(u, i), got, kept)
         IN  IF i + UsbWidth > Length[u]
             THEN rx.saved = TRUE /\ rx.stored = File(u)
             ELSE /\ rx.saved = FALSE
                  /\ rx.rx_len = rx_len + UsbWidth /\ rx.usb_len = Length[u]
                  /\ rx.usb_data = Sent(u, rx_len + UsbWidth)
<1> USE DEF UsbAt, UsbWidth
<1>1. /\ Length[u] \in Nat /\ Length[u] > 4 /\ rx_len \in Nat /\ rx_len >= 4
      /\ rx_len < Length[u] /\ rx_len \in 0..Length[u] - 1 /\ rx_len \in 0..Length[u]
  BY FileIsSeq
<1>2. rx_len # 0 /\ usb_len = Length[u] /\ usb_len # 0 /\ usb_data = Sent(u, rx_len)
  BY <1>1
<1>3. Sent(u, rx_len) \notin NoBuffer
  BY <1>1, SentIsSeq, NoBufferIsNoSeq
<1>4. ASSUME NEW m \in rx_len + 1..Length[u], UsbPacket(u, rx_len + 1) = SubSeq(File(u), rx_len + 1, m)
      PROVE  LET rx == legacy_usb_rx(UsbPacket(u, rx_len + 1), got, kept)
             IN  /\ rx.rx_len = m /\ rx.usb_len = Length[u]
                 /\ rx.saved = (m >= Length[u])
                 /\ m < Length[u] => rx.usb_data = Sent(u, m)
                 /\ m >= Length[u] => rx.stored = SubSeq(Sent(u, m), 1, Length[u])
  <2>1. Sent(u, rx_len) \o UsbPacket(u, rx_len + 1) = Sent(u, m)
        /\ Len(UsbPacket(u, rx_len + 1)) = m - rx_len
    BY <1>1, <1>4, SentPacket
  <2>2. rx_len + Len(UsbPacket(u, rx_len + 1)) = m /\ m > 4 /\ m \in 0..Length[u]
    BY <1>1, <2>1
  <2>3. Sent(u, m) \notin NoBuffer
    BY <2>2, SentIsSeq, NoBufferIsNoSeq
  <2>4. (m > 4 /\ m >= Length[u]) = (m >= Length[u])
    BY <2>2
  <2>5. ~(m >= Length[u]) <=> m < Length[u]
    BY <1>1, <2>2
  <2> QED BY <1>2, <1>3, <2>1, <2>2, <2>3, <2>4, <2>5 DEF legacy_usb_rx
<1>5. CASE rx_len + 1 + 4 > Length[u]
  <2>1. UsbPacket(u, rx_len + 1) = SubSeq(File(u), rx_len + 1, Length[u])
        /\ Length[u] \in rx_len + 1..Length[u]
    BY <1>1, <1>5 DEF UsbPacket
  <2>2. SubSeq(File(u), 1, Length[u]) = File(u) /\ Sent(u, Length[u]) = File(u)
    BY SentAll DEF Sent
  <2>3. (Length[u] >= Length[u]) = TRUE
    BY <1>1
  <2> QED BY <1>4, <1>5, <2>1, <2>2, <2>3
<1>6. CASE ~(rx_len + 1 + 4 > Length[u])
  <2>1. UsbPacket(u, rx_len + 1) = SubSeq(File(u), rx_len + 1, rx_len + 4)
        /\ rx_len + 4 \in rx_len + 1..Length[u]
    BY <1>1, <1>6 DEF UsbPacket
  <2>2. (rx_len + 4 >= Length[u]) = FALSE /\ rx_len + 4 < Length[u]
    BY <1>1, <1>6
  <2> QED BY <1>4, <1>6, <2>1, <2>2
<1> QED BY <1>5, <1>6

\* What a packet over USB leads to: a file that began in a buffer of its own goes on
\* there or is saved whole; of any other only the types are known.
UsbOutcome(rx, u, i, fresh) ==
  /\ rx.rx_len \in Nat \ {0} /\ rx.usb_len \in Nat \ {0}
  /\ BufferType(rx.usb_data)
  /\ rx.usb_data \in Seq(Chunks) => Len(rx.usb_data) = rx.rx_len
  /\ rx.corrupt \in BOOLEAN /\ (corrupt => rx.corrupt)
  /\ rx.saved \in BOOLEAN
  /\ ~rx.saved => rx.stored = stored
  /\ rx.saved => rx.stored = Garbage \/ rx.stored \in Seq(Chunks)
  /\ rx.saved /\ fresh => rx.stored = File(u)
  /\ fresh /\ ~(i + UsbWidth > Length[u]) =>
       /\ rx.rx_len + 1 = i + UsbWidth /\ rx.rx_len \in UsbWidth..Length[u] - 1
       /\ rx.usb_data = Sent(u, rx.rx_len) /\ rx.usb_len = Length[u]

LEMMA UsbRx ==
  ASSUME UsbInv, corrupt \in BOOLEAN, NEW u \in Uploads, usbFile # NoFile => usbFile.up = u,
         NEW got \in BOOLEAN, NEW kept \in BOOLEAN
  PROVE  /\ UsbNext(u) \in 1..Length[u]
         /\ Fresh(got, kept) \in BOOLEAN
         /\ UsbOutcome(legacy_usb_rx(UsbPacket(u, UsbNext(u)), got, kept), u, UsbNext(u),
                       Fresh(got, kept))
<1> DEFINE i == UsbNext(u)
           rx == legacy_usb_rx(UsbPacket(u, i), got, kept)
<1>1. Length[u] \in Nat /\ Length[u] > 4
  BY FileIsSeq
<1>2. CASE usbFile = NoFile
  <2>1. i = 1 /\ 1 \in 1..Length[u] /\ Fresh(got, kept) = (rx_len = 0 /\ got /\ kept)
    BY <1>1, <1>2 DEF UsbNext, Fresh
  <2>2. /\ UsbPacket(u, 1) \in Seq(Chunks) /\ Len(UsbPacket(u, 1)) > 0
        /\ Length[UsbPacket(u, 1)[2].up] \in Nat \ {0}
    BY <1>1, <2>1, UsbPacketIs
  <2>3. CASE ~Fresh(got, kept)
    <3> HIDE DEF i, rx
    <3>1. LET rr == legacy_usb_rx(UsbPacket(u, 1), got, kept)
          IN  /\ rr.rx_len \in Nat \ {0} /\ rr.usb_len \in Nat \ {0}
              /\ rr.rx_len = rx_len + Len(UsbPacket(u, 1))
              /\ BufferType(rr.usb_data)
              /\ rr.usb_data \in Seq(Chunks) => Len(rr.usb_data) = rr.rx_len
              /\ rr.corrupt \in BOOLEAN /\ (corrupt => rr.corrupt)
              /\ rr.saved \in BOOLEAN
              /\ ~rr.saved => rr.stored = stored
              /\ rr.saved => rr.stored = Garbage \/ rr.stored \in Seq(Chunks)
      BY <2>2, UsbRxTypes DEF UsbInv
    <3> QED BY <2>1, <2>3, <3>1 DEF UsbOutcome, i, rx
  <2>4. CASE Fresh(got, kept)
    <3>1. rx_len = 0 /\ got = TRUE /\ kept = TRUE
      BY <2>1, <2>4
    <3> HIDE DEF i, rx
    <3>2. LET rr == legacy_usb_rx(UsbPacket(u, 1), TRUE, TRUE)
          IN  /\ rr.rx_len \in Nat \ {0} /\ rr.usb_len \in Nat \ {0}
              /\ rr.rx_len = rx_len + Len(UsbPacket(u, 1))
              /\ BufferType(rr.usb_data)
              /\ rr.usb_data \in Seq(Chunks) => Len(rr.usb_data) = rr.rx_len
              /\ rr.corrupt \in BOOLEAN /\ (corrupt => rr.corrupt)
              /\ rr.saved \in BOOLEAN
              /\ ~rr.saved => rr.stored = stored
              /\ rr.saved => rr.stored = Garbage \/ rr.stored \in Seq(Chunks)
      BY <2>2, UsbRxTypes DEF UsbInv
    <3>3. LET rr == legacy_usb_rx(UsbPacket(u, 1), TRUE, TRUE)
          IN  /\ rr.rx_len = UsbWidth /\ rr.usb_len = Length[u]
              /\ rr.usb_data = Sent(u, UsbWidth) /\ rr.saved = FALSE
      BY <3>1, UsbFirst
    <3>4. UsbWidth + 1 = 1 + UsbWidth /\ UsbWidth \in UsbWidth..Length[u] - 1
      BY <1>1 DEF UsbWidth
    <3> QED BY <2>1, <3>1, <3>2, <3>3, <3>4 DEF UsbOutcome, i, rx
  <2> QED BY <2>1, <2>3, <2>4
<1>3. CASE usbFile # NoFile
  <2>1. UsbAt(u) \/ UsbPast(u)
    <3>1. PICK v \in Uploads : UsbAt(v) \/ UsbPast(v)
      BY <1>3 DEF UsbInv
    <3>2. v = usbFile.up
      BY <3>1 DEF UsbAt, UsbPast
    <3> QED BY <1>3, <3>1, <3>2
  <2>2. /\ i = usbFile.next /\ Fresh(got, kept) = usbFile.fresh
        /\ i \in 1..Length[u] /\ rx_len > 0 /\ rx_len # 0
        /\ usbFile.fresh \in BOOLEAN /\ (usbFile.fresh => UsbAt(u))
    <3>1. i = usbFile.next /\ Fresh(got, kept) = usbFile.fresh
      BY <1>3 DEF UsbNext, Fresh
    <3>2. CASE UsbAt(u)
      BY <1>1, <3>1, <3>2 DEF UsbAt, UsbWidth
    <3>3. CASE UsbPast(u)
      <4>1. PICK n \in 2..Length[u] : usbFile = [up |-> u, next |-> n, fresh |-> FALSE]
        BY <3>3 DEF UsbPast
      <4>2. usbFile.fresh = FALSE /\ usbFile.next = n
        BY <4>1
      <4>3. rx_len > 0 /\ rx_len # 0
        BY <3>3 DEF UsbPast
      <4> QED BY <1>1, <3>1, <4>1, <4>2, <4>3
    <3> QED BY <2>1, <3>2, <3>3
  <2>3. UsbPacket(u, i) \in Seq(Chunks) /\ Len(UsbPacket(u, i)) > 0
    BY <2>2, UsbPacketIs
  <2>4. /\ rx.rx_len \in Nat \ {0} /\ rx.usb_len \in Nat \ {0}
        /\ BufferType(rx.usb_data)
        /\ rx.usb_data \in Seq(Chunks) => Len(rx.usb_data) = rx.rx_len
        /\ rx.corrupt \in BOOLEAN /\ (corrupt => rx.corrupt)
        /\ rx.saved \in BOOLEAN
        /\ ~rx.saved => rx.stored = stored
        /\ rx.saved => rx.stored = Garbage \/ rx.stored \in Seq(Chunks)
    BY <2>2, <2>3, UsbRxTypes DEF UsbInv
  <2>5. CASE ~usbFile.fresh
    BY <2>2, <2>4, <2>5 DEF UsbOutcome
  <2>6. CASE usbFile.fresh
    <3>1. UsbAt(u) /\ i = rx_len + 1
      BY <2>2, <2>6 DEF UsbAt
    <3> HIDE DEF i, rx
    <3>2. IF i + UsbWidth > Length[u]
          THEN rx.saved = TRUE /\ rx.stored = File(u)
          ELSE /\ rx.saved = FALSE
               /\ rx.rx_len = rx_len + UsbWidth /\ rx.usb_len = Length[u]
               /\ rx.usb_data = Sent(u, rx_len + UsbWidth)
      <4>1. rx = legacy_usb_rx(UsbPacket(u, rx_len + 1), got, kept)
        BY <3>1, Zenon DEF rx
      <4>2. LET j == rx_len + 1
                rr == legacy_usb_rx(UsbPacket(u, j), got, kept)
            IN  IF j + UsbWidth > Length[u]
                THEN rr.saved = TRUE /\ rr.stored = File(u)
                ELSE /\ rr.saved = FALSE
                     /\ rr.rx_len = rx_len + UsbWidth /\ rr.usb_len = Length[u]
                     /\ rr.usb_data = Sent(u, rx_len + UsbWidth)
        BY <3>1, UsbNextPacket, Zenon
      <4> QED BY <3>1, <4>1, <4>2, Zenon
    <3>3. ~(i + UsbWidth > Length[u]) =>
            /\ rx_len + UsbWidth + 1 = i + UsbWidth
            /\ rx_len + UsbWidth \in UsbWidth..Length[u] - 1
      BY <1>1, <2>2, <3>1 DEF UsbWidth, UsbInv, UsbType
    <3>4. UsbOutcome(rx, u, i, usbFile.fresh)
      BY <2>4, <3>2, <3>3 DEF UsbOutcome
    <3> QED BY <2>2, <3>4 DEF i, rx
  <2> QED BY <2>2, <2>5, <2>6
<1> QED BY <1>2, <1>3

\* A step of the interrupt leaves the flash with a whole file, or spoilt, and the
\* receiver over BLE alone.
LEMMA UsbSends ==
  ASSUME UsbInv, HeapTypes, StoredWhole, stored \in {Erased, Garbage} \/ stored \in Seq(Chunks), UsbSend
  PROVE  /\ StoredWhole' /\ spoilt' \in BOOLEAN
         /\ stored' \in {Erased, Garbage} \/ stored' \in Seq(Chunks)
         /\ \/ Booted
            \/ /\ UsbInv' /\ corrupt' \in BOOLEAN /\ (corrupt => corrupt')
               /\ UNCHANGED <<reset_rx, auth, bleRx, saving, connected, bleFile, hostPin,
                              bypassed, result>>
<1>1. PICK u \in Uploads, got \in Allocates, kept \in Allocates :
        LET i == UsbNext(u)
            rx == legacy_usb_rx(UsbPacket(u, i), got, kept)
        IN  /\ rx.rx_len <= MaxRx
            /\ usbFile # NoFile => usbFile.up = u
            /\ stored' = rx.stored
            /\ spoilt' = IF rx.saved THEN ~Fresh(got, kept) ELSE spoilt
            /\ IF ResetsAfterUsb(rx.saved)
               THEN Booted
               ELSE /\ rx_len' = rx.rx_len
                    /\ usb_len' = rx.usb_len
                    /\ usb_data' = rx.usb_data
                    /\ corrupt' = rx.corrupt
                    /\ usbFile' = IF i + UsbWidth > Length[u]
                                  THEN NoFile
                                  ELSE [up |-> u, next |-> i + UsbWidth, fresh |-> Fresh(got, kept)]
                    /\ UNCHANGED <<reset_rx, auth, bleRx, saving, connected, bleFile, hostPin,
                                   bypassed, result>>
  BY Zenon DEF UsbSend
<1>2. PICK i : i = UsbNext(u)
  OBVIOUS
<1>3. PICK rx : rx = legacy_usb_rx(UsbPacket(u, UsbNext(u)), got, kept)
  OBVIOUS
<1>4. PICK fresh : fresh = Fresh(got, kept)
  OBVIOUS
<1>5. i \in 1..Length[u] /\ fresh \in BOOLEAN /\ UsbOutcome(rx, u, i, fresh)
  BY <1>1, <1>2, <1>3, <1>4, UsbRx, ConfigAssumption DEF HeapTypes
<1>6. /\ stored' = rx.stored
      /\ spoilt' = IF rx.saved THEN ~fresh ELSE spoilt
      /\ \/ Booted
         \/ /\ rx_len' = rx.rx_len
            /\ usb_len' = rx.usb_len
            /\ usb_data' = rx.usb_data
            /\ corrupt' = rx.corrupt
            /\ usbFile' = IF i + UsbWidth > Length[u]
                          THEN NoFile
                          ELSE [up |-> u, next |-> i + UsbWidth, fresh |-> fresh]
            /\ UNCHANGED <<reset_rx, auth, bleRx, saving, connected, bleFile, hostPin,
                           bypassed, result>>
  BY <1>1, <1>2, <1>3, <1>4, Zenon
<1>7. spoilt' \in BOOLEAN
  BY <1>5, <1>6, Zenon DEF UsbOutcome, HeapTypes
<1>8. StoredWhole' /\ (stored' \in {Erased, Garbage} \/ stored' \in Seq(Chunks))
  <2>1. CASE rx.saved
    BY <1>5, <1>6, <2>1 DEF UsbOutcome, StoredWhole
  <2>2. CASE ~rx.saved
    BY <1>5, <1>6, <2>2 DEF UsbOutcome, StoredWhole
  <2> QED BY <2>1, <2>2
<1>9. CASE Booted
  BY <1>7, <1>8, <1>9
<1>10. CASE /\ rx_len' = rx.rx_len
            /\ usb_len' = rx.usb_len
            /\ usb_data' = rx.usb_data
            /\ corrupt' = rx.corrupt
            /\ usbFile' = IF i + UsbWidth > Length[u]
                          THEN NoFile
                          ELSE [up |-> u, next |-> i + UsbWidth, fresh |-> fresh]
            /\ UNCHANGED <<reset_rx, auth, bleRx, saving, connected, bleFile, hostPin,
                           bypassed, result>>
  <2>1. UsbType'
    BY <1>5, <1>10 DEF UsbOutcome, UsbType, BufferType
  <2>2. usbFile' = NoFile \/ UsbAt(u)' \/ UsbPast(u)'
    <3>1. CASE i + UsbWidth > Length[u]
      BY <1>10, <3>1
    <3>2. CASE ~(i + UsbWidth > Length[u]) /\ fresh
      BY <1>5, <1>10, <3>2 DEF UsbOutcome, UsbAt, Sent
    <3>3. CASE ~(i + UsbWidth > Length[u]) /\ ~fresh
      <4>1. i + UsbWidth \in 2..Length[u] /\ fresh = FALSE /\ rx_len' > 0
        BY <1>5, <1>10, <3>3, FileIsSeq DEF UsbOutcome, UsbWidth
      <4> QED BY <1>10, <3>3, <4>1 DEF UsbPast
    <3> QED BY <3>1, <3>2, <3>3
  <2>3. UsbInv'
    BY <2>1, <2>2 DEF UsbInv
  <2>4. corrupt' \in BOOLEAN /\ (corrupt => corrupt')
    BY <1>5, <1>10 DEF UsbOutcome
  <2> QED BY <1>7, <1>8, <1>10, <2>3, <2>4
<1> QED BY <1>6, <1>9, <1>10

-----------------------------------------------------------------------------
(* The invariant.                                                          *)

LEMMA InitRx == Init => RxInv
<1> SUFFICES ASSUME Init PROVE RxInv
  OBVIOUS
<1>1. FlagTypes /\ HeapTypes
  BY Zenon DEF Init, FlagTypes, HeapTypes
<1>2. NULL \notin Seq(Chunks)
  BY ValuesAssumption
<1> QED
  BY <1>1, <1>2, CodesAssumption DEF Init, RxInv, BleInv, UsbInv, UsbType, SaveInv, RestType,
     BufferType, StoredWhole

LEMMA BootedRx ==
  ASSUME Booted, StoredWhole', spoilt' \in BOOLEAN,
         stored' \in {Erased, Garbage} \/ stored' \in Seq(Chunks)
  PROVE  RxInv'
<1>1. FlagTypes' /\ HeapTypes'
  BY Zenon DEF Booted, FlagTypes, HeapTypes
<1>2. NULL \notin Seq(Chunks)
  BY ValuesAssumption
<1> QED BY <1>1, <1>2, CodesAssumption DEF Booted, RxInv, BleInv, UsbInv, UsbType, SaveInv, RestType,
           BufferType

LEMMA UnchangedBle == BleInv /\ UNCHANGED <<bleRx, bleFile>> => BleInv'
  BY DEF BleInv, BleAt, bleRx, BufferType, Sent

LEMMA UnchangedUsb == UsbInv /\ UNCHANGED <<usbRx, usbFile>> => UsbInv'
  BY DEF UsbInv, UsbType, UsbAt, UsbPast, usbRx, BufferType, Sent

LEMMA UnchangedSave == SaveInv /\ UNCHANGED <<saving, flash, corrupt>> => SaveInv'
  BY DEF SaveInv, StoredWhole, flash

LEMMA BleOutcomeRx ==
  ASSUME BleInv, SaveInv, NEW u \in Uploads, BleOutcome(u), UNCHANGED <<corrupt, spoilt>>
  PROVE  BleInv' /\ SaveInv'
<1>0. NULL \notin Seq(Chunks)
  BY ValuesAssumption
<1>1. CASE /\ bleFile' = NoFile /\ UNCHANGED <<saving, stored>>
           /\ UNCHANGED bleRx \/ (ble_data' = NULL /\ c' \in Nat /\ ble_len' = ble_len)
  BY <1>0, <1>1, UnchangedSave DEF BleInv, bleRx, BufferType, flash
<1>2. CASE BleAt(u)' /\ ble_len' \in Nat /\ UNCHANGED <<saving, stored>>
  <2>1. c' \in Nat /\ c' \in 0..Length[u] /\ ble_data' = Sent(u, c')
    BY <1>2, FileIsSeq DEF BleAt, Sent
  <2>2. ble_data' \in Seq(Chunks) /\ Len(ble_data') = c'
    BY <2>1, SentIsSeq
  <2> QED BY <1>2, <2>1, <2>2, UnchangedSave DEF BleInv, BufferType, flash
<1>3. CASE /\ bleFile' = NoFile /\ ble_data' = NULL /\ c' \in Nat /\ ble_len' \in Nat
           /\ saving' \in Held(File(u)) /\ stored' = Erased
  <2>1. saving' = File(u) \/ (corrupt' /\ saving' = Garbage)
    BY <1>3 DEF Held
  <2>2. BleInv'
    BY <1>0, <1>3 DEF BleInv, BufferType
  <2> QED BY <1>3, <2>1, <2>2 DEF SaveInv, StoredWhole
<1> QED BY <1>1, <1>2, <1>3 DEF BleOutcome

\* What the main loop writes is the file, where the flash was erased and the heap
\* is whole.
LEMMA SaveWriteRx ==
  ASSUME RxInv, SaveWrite
  PROVE  /\ StoredWhole' /\ spoilt' \in BOOLEAN
         /\ stored' \in {Erased, Garbage} \/ stored' \in Seq(Chunks)
<1>1. PICK data \in Held(saving) : stored' = Programmed(stored, data)
  BY DEF SaveWrite
<1>2. stored' = data \/ (stored # Erased /\ stored' = Garbage)
  BY <1>1 DEF Programmed
<1>3. data = saving \/ (corrupt /\ data = Garbage)
  BY <1>1 DEF Held
<1>4. \/ \E u \in Uploads : data = File(u)
      \/ corrupt /\ data = Garbage
  BY <1>3 DEF SaveWrite, RxInv, SaveInv
<1>5. spoilt' = (corrupt \/ stored # Erased)
  BY DEF SaveWrite
<1>6. spoilt' \in BOOLEAN
  BY <1>5, Zenon
<1> QED BY <1>2, <1>4, <1>5, <1>6, FileIsSeq DEF StoredWhole

LEMMA StepRx == RxInv /\ [Next]_vars => RxInv'
<1> SUFFICES ASSUME RxInv, [Next]_vars
             PROVE  RxInv'
  OBVIOUS
<1>1. CASE PowerLoss \/ UsbSaveCut
  <2>1. /\ Booted /\ StoredWhole' /\ spoilt' \in BOOLEAN
        /\ stored' \in {Erased, Garbage} \/ stored' \in Seq(Chunks)
    BY <1>1 DEF PowerLoss, UsbSaveCut, RxInv, SaveInv, StoredWhole, HeapTypes, flash
  <2> QED BY <2>1, BootedRx
<1>2. CASE cfg_reset_rx \/ BtPairing \/ bt_pairing_bypass \/ link_onEstablished
           \/ link_onTerminated \/ SendPin \/ UsbStop \/ UNCHANGED vars
  <2>1. SaveInv'
    BY <1>2, UnchangedSave DEF RxInv, cfg_reset_rx, BtPairing, bt_pairing_bypass,
       link_onEstablished, link_onTerminated, SendPin, UsbStop, vars
  <2>2. BleInv'
    <3>1. CASE link_onTerminated
      BY <3>1 DEF link_onTerminated, RxInv, BleInv, bleRx, BufferType
    <3>2. CASE ~link_onTerminated
      BY <1>2, <3>2, UnchangedBle DEF RxInv, cfg_reset_rx, BtPairing, bt_pairing_bypass,
         link_onEstablished, SendPin, UsbStop, vars
    <3> QED BY <3>1, <3>2
  <2>3. UsbInv'
    <3>1. CASE UsbStop
      BY <3>1 DEF UsbStop, RxInv, UsbInv, UsbType, usbRx, BufferType
    <3>2. CASE ~UsbStop
      BY <1>2, <3>2, UnchangedUsb DEF RxInv, cfg_reset_rx, BtPairing, bt_pairing_bypass,
         link_onEstablished, link_onTerminated, SendPin, vars
    <3> QED BY <3>1, <3>2
  <2>4. FlagTypes' /\ HeapTypes'
    BY <1>2, Zenon DEF RxInv, FlagTypes, HeapTypes, auth, flash, cfg_reset_rx, BtPairing,
       bt_pairing_bypass, link_onEstablished, link_onTerminated, SendPin, UsbStop, vars
  <2>5. RestType'
    BY <1>2 DEF RxInv, RestType, auth, cfg_reset_rx, BtPairing, bt_pairing_bypass,
       link_onEstablished, link_onTerminated, SendPin, UsbStop, vars
  <2> QED BY <2>1, <2>2, <2>3, <2>4, <2>5 DEF RxInv
<1>3. CASE BleSend
  <2>1. PICK u \in Uploads : BleOutcome(u)
    BY <1>3, BleSends DEF RxInv
  <2>2. UNCHANGED <<corrupt, spoilt>>
    BY <1>3 DEF BleSend
  <2>3. BleInv' /\ SaveInv' /\ result' \in {0, 3, 4, 5}
    BY <2>1, <2>2, BleOutcomeRx DEF RxInv, BleOutcome
  <2>4. UsbInv'
    BY <1>3, UnchangedUsb DEF RxInv, BleSend
  <2>5. FlagTypes' /\ HeapTypes'
    BY <1>3, Zenon DEF RxInv, FlagTypes, HeapTypes, BleSend, auth
  <2> QED BY <1>3, <2>3, <2>4, <2>5 DEF RxInv, RestType, BleSend, auth
<1>4. CASE SaveWrite
  <2>1. /\ StoredWhole' /\ spoilt' \in BOOLEAN
        /\ stored' \in {Erased, Garbage} \/ stored' \in Seq(Chunks)
    BY <1>4, SaveWriteRx
  <2>2. CASE reset_rx
    BY <1>4, <2>1, <2>2, BootedRx DEF SaveWrite
  <2>3. CASE ~reset_rx
    <3>1. BleInv' /\ UsbInv'
      BY <1>4, <2>3, UnchangedBle, UnchangedUsb DEF SaveWrite, RxInv
    <3>2. FlagTypes' /\ HeapTypes'
      BY <1>4, <2>1, <2>3, Zenon DEF SaveWrite, RxInv, FlagTypes, HeapTypes, auth
    <3> QED BY <1>4, <2>1, <2>3, <3>1, <3>2 DEF SaveWrite, RxInv, SaveInv, RestType, auth
  <2> QED BY <2>2, <2>3
<1>5. CASE UsbSend
  <2>1. /\ StoredWhole' /\ spoilt' \in BOOLEAN
        /\ stored' \in {Erased, Garbage} \/ stored' \in Seq(Chunks)
        /\ \/ Booted
           \/ /\ UsbInv' /\ corrupt' \in BOOLEAN /\ (corrupt => corrupt')
              /\ UNCHANGED <<reset_rx, auth, bleRx, saving, connected, bleFile, hostPin,
                             bypassed, result>>
    BY <1>5, UsbSends DEF RxInv, SaveInv
  <2>2. CASE Booted
    BY <2>1, <2>2, BootedRx
  <2>3. CASE /\ UsbInv' /\ corrupt' \in BOOLEAN /\ (corrupt => corrupt')
             /\ UNCHANGED <<reset_rx, auth, bleRx, saving, connected, bleFile, hostPin,
                            bypassed, result>>
    <3>1. BleInv'
      BY <2>3, UnchangedBle DEF RxInv
    <3>2. SaveInv'
      BY <2>1, <2>3 DEF RxInv, SaveInv
    <3>3. FlagTypes' /\ HeapTypes'
      BY <2>1, <2>3, Zenon DEF RxInv, FlagTypes, HeapTypes, auth
    <3> QED BY <2>3, <3>1, <3>2, <3>3 DEF RxInv, RestType, auth
  <2> QED BY <2>1, <2>2, <2>3
<1> QED BY <1>1, <1>2, <1>3, <1>4, <1>5 DEF Next

\* Whatever files the hosts send, how far, and however their packets, the save of
\* the main loop, the interrupt, lost links, failed allocations and power losses
\* interleave: the flash holds one file as its host sent it, or none, unless it
\* was spoilt over USB (legacyctrl.c:80-141 and 155-178).
THEOREM FlashSafeHolds == Spec => []FlashSafe
  BY InitRx, StepRx, RxInvImplies, PTL DEF Spec

\* A file over BLE whose last chunk was answered with success is the one that is
\* saved, whatever came over USB, as long as the heap is whole (legacyctrl.c:127-143).
THEOREM AckedIsSavedHolds == Spec => AckedIsSaved
<1>1. RxInv /\ [Next]_vars =>
        [\A u \in Uploads :
           (bleFile = [up |-> u, next |-> Length[u]] /\ result' = 0 /\ c' > c /\ ~corrupt)
             => saving' = File(u)]_vars
  <2> SUFFICES ASSUME RxInv, Next, NEW u \in Uploads,
                      bleFile = [up |-> u, next |-> Length[u]], result' = 0, c' > c, ~corrupt
               PROVE  saving' = File(u)
    OBVIOUS
  <2>0. c \in Nat
    BY DEF RxInv, BleInv
  <2>1. CASE BleSend
    <3>1. bleFile # NoFile
      BY ValuesAssumption, FileIsSeq
    <3>2. PICK v \in Uploads : BleOutcome(v) /\ BleAt(v)
      BY <2>1, <3>1, BleSends DEF RxInv
    <3>3. v = u /\ c + 1 = Length[u]
      BY <3>2 DEF BleAt
    <3>4. ~BleAt(v)'
      <4>1. CASE bleFile' = NoFile
        BY <4>1, ValuesAssumption DEF BleAt
      <4> QED BY <2>0, <3>3, FileIsSeq DEF BleAt
    <3>5. saving' \in Held(File(u))
      BY <3>2, <3>3, <3>4 DEF BleOutcome
    <3> QED BY <3>5 DEF Held
  <2>2. CASE ~BleSend
    <3>1. c' = c \/ c' = 0
      BY <2>2 DEF Next, PowerLoss, cfg_reset_rx, BtPairing, bt_pairing_bypass, link_onEstablished,
         link_onTerminated, SendPin, SaveWrite, UsbSend, UsbSaveCut, UsbStop, Booted, bleRx
    <3> QED BY <2>0, <3>1
  <2> QED BY <2>1, <2>2
<1> QED BY <1>1, InitRx, StepRx, PTL DEF Spec, AckedIsSaved

-----------------------------------------------------------------------------
(* The PIN.                                                                *)

\* A receiver that takes packets has seen the PIN of this link, or the key.
PinSeen ==
  /\ FlagTypes /\ c \in Nat
  /\ authorized => hostPin \/ bypassed

LEMMA PinPacket ==
  ASSUME PinSeen, BleSend
  PROVE  /\ c' \in Nat
         /\ c' > c => authorized
<1>1. PICK chunk : legacy_ble_rx(chunk)
  BY DEF BleSend
<1>2. CASE ~authorized
  BY <1>1, <1>2 DEF legacy_ble_rx, Refuse, bleRx, PinSeen
<1>3. CASE authorized
  <2>1. PICK place \in {0, c} :
          Refuse(2) \/ c' = place + 1 \/ Accept(chunk, place) \/ NoMemory(place)
    BY <1>1, <1>3 DEF legacy_ble_rx
  <2>2. NoMemory(place) => c' = place
    BY Zenon DEF NoMemory
  <2> QED BY <1>3, <2>1, <2>2 DEF Refuse, Accept, bleRx, PinSeen
<1> QED BY <1>2, <1>3

LEMMA StepPin == PinSeen /\ [Next]_vars => PinSeen'
<1> SUFFICES ASSUME PinSeen, [Next]_vars
             PROVE  PinSeen'
  OBVIOUS
<1>1. c' \in Nat
  <2>1. CASE BleSend
    BY <2>1, PinPacket
  <2>2. CASE ~BleSend
    BY <2>2 DEF PinSeen, Next, PowerLoss, cfg_reset_rx, BtPairing, bt_pairing_bypass,
       link_onEstablished, link_onTerminated, SendPin, SaveWrite, UsbSend, UsbSaveCut, UsbStop,
       Booted, bleRx, vars
  <2> QED BY <2>1, <2>2
<1>2. FlagTypes' /\ (authorized' => hostPin' \/ bypassed')
  <2>1. CASE PowerLoss \/ UsbSaveCut
    BY <2>1, Zenon DEF PowerLoss, UsbSaveCut, Booted, FlagTypes
  <2>2. CASE cfg_reset_rx \/ BtPairing \/ bt_pairing_bypass \/ link_onEstablished
             \/ link_onTerminated \/ SendPin \/ UsbStop \/ UNCHANGED vars
    <3>1. FlagTypes'
      BY <2>2, Zenon DEF PinSeen, FlagTypes, cfg_reset_rx, BtPairing, bt_pairing_bypass,
         link_onEstablished, link_onTerminated, SendPin, UsbStop, auth, vars
    <3>2. authorized' => hostPin' \/ bypassed'
      BY <2>2 DEF PinSeen, cfg_reset_rx, BtPairing, bt_pairing_bypass, link_onEstablished,
         link_onTerminated, SendPin, UsbStop, auth, vars
    <3> QED BY <3>1, <3>2
  <2>3. CASE BleSend
    BY <2>3, Zenon DEF PinSeen, FlagTypes, BleSend, auth
  <2>4. CASE SaveWrite
    BY <2>4, Zenon DEF PinSeen, FlagTypes, SaveWrite, Booted, auth
  <2>5. CASE UsbSend
    <3>1. \/ Booted
          \/ UNCHANGED <<reset_rx, auth, bleRx, saving, connected, bleFile, hostPin,
                         bypassed, result>>
      <4>1. PICK u \in Uploads, got \in Allocates, kept \in Allocates :
              LET i == UsbNext(u)
                  rx == legacy_usb_rx(UsbPacket(u, i), got, kept)
              IN  IF ResetsAfterUsb(rx.saved)
                  THEN Booted
                  ELSE /\ rx_len' = rx.rx_len
                       /\ usb_len' = rx.usb_len
                       /\ usb_data' = rx.usb_data
                       /\ corrupt' = rx.corrupt
                       /\ usbFile' = IF i + UsbWidth > Length[u]
                                     THEN NoFile
                                     ELSE [up |-> u, next |-> i + UsbWidth, fresh |-> Fresh(got, kept)]
                       /\ UNCHANGED <<reset_rx, auth, bleRx, saving, connected, bleFile, hostPin,
                                      bypassed, result>>
        BY <2>5, ZenonT(30) DEF UsbSend
      <4> QED BY <4>1, Zenon
    <3>2. CASE Booted
      BY <3>2, Zenon DEF FlagTypes, Booted
    <3>3. CASE UNCHANGED <<reset_rx, authorized, connected, hostPin, bypassed>>
      BY <3>3, Zenon DEF PinSeen, FlagTypes
    <3> QED BY <3>1, <3>2, <3>3, Zenon DEF auth
  <2> QED BY <2>1, <2>2, <2>3, <2>4, <2>5 DEF Next
<1> QED BY <1>1, <1>2 DEF PinSeen

\* A packet is only taken in from a host that sent the PIN on this link and since
\* the PIN was made, or after the key that skips it, whatever is sent over USB
\* (BLEsecurity.md:26-30 and 52-55; legacyctrl.c:9-21 and 36-70).
THEOREM PacketNeedsPinHolds == Spec => PacketNeedsPin
<1>1. Init => PinSeen
  <2> SUFFICES ASSUME Init PROVE PinSeen
    OBVIOUS
  <2>1. FlagTypes
    BY Zenon DEF Init, FlagTypes
  <2> QED BY <2>1 DEF Init, PinSeen
<1>2. PinSeen /\ [Next]_vars => [c' > c => hostPin \/ bypassed]_vars
  <2> SUFFICES ASSUME PinSeen, Next, c' > c
               PROVE  authorized
    BY DEF PinSeen
  <2>1. CASE BleSend
    BY <2>1, PinPacket
  <2>2. CASE ~BleSend
    <3>1. c' = c \/ c' = 0
      BY <2>2 DEF Next, PowerLoss, cfg_reset_rx, BtPairing, bt_pairing_bypass, link_onEstablished,
         link_onTerminated, SendPin, SaveWrite, UsbSend, UsbSaveCut, UsbStop, Booted, bleRx
    <3> QED BY <3>1 DEF PinSeen
  <2> QED BY <2>1, <2>2
<1> QED BY <1>1, <1>2, StepPin, PTL DEF Spec, PacketNeedsPin

=============================================================================
