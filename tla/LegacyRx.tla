------------------------------ MODULE LegacyRx ------------------------------
(***************************************************************************)
(* Receiving an upload (src/legacyctrl.c): 16-byte packets over BLE behind *)
(* the optional PIN, and 64-byte packets over USB from the interrupt.  The *)
(* two receivers keep their own static state and save to the same flash.   *)
(*                                                                         *)
(* Lengths are counted in chunks of 16 bytes, to which a file is padded,   *)
(* and a buffer is as large as the padded file; four chunks are the        *)
(* header, and the second holds the sizes that give the length.  Hosts     *)
(* follow BadgeBLE.md: they send a file from its first chunk on and stop   *)
(* at the first error.                                                     *)
(***************************************************************************)
EXTENDS Naturals, Sequences

CONSTANTS
  NULL,           \* no buffer
  Freed,          \* a pointer to a buffer that was freed
  Erased,         \* flash without an upload
  Garbage,        \* bytes that are no file: of a buffer never filled, of flash
                  \* written twice, of whatever lies at address 0
  NoFile,         \* the host is not sending
  Uploads,        \* the files hosts send
  Length,         \* chunks of a file
  Codes,          \* PINs
  ble_security,   \* badge_cfg.ble_security
  Allocates,      \* what malloc and realloc may do, to succeed being TRUE
  NullLength,     \* the length that legacy_usb_rx reads where it has no buffer:
                  \* the code at address 0 says it
  MaxRx           \* bound on the chunks received over USB without a reset

ASSUME UploadsAssumption == \A u \in Uploads : Length[u] \in Nat /\ Length[u] > 4
ASSUME CodesAssumption == 0 \in Codes
\* rx_len, of 16 bits, does not come round within MaxRx.
ASSUME ConfigAssumption ==
  /\ ble_security \in BOOLEAN
  /\ Allocates \subseteq BOOLEAN
  /\ NullLength \in Nat \ {0}
  /\ MaxRx \in Nat /\ 16 * MaxRx < 65536

VARIABLES
  reset_rx,                    \* badge_cfg.reset_rx: reset after an upload
  authorized, auth_code,
  c, ble_data, ble_len,        \* the statics of legacy_ble_rx
  rx_len, usb_data, usb_len,   \* the statics of legacy_usb_rx
  corrupt,                     \* legacy_usb_rx wrote where it has no memory: since
                               \* then no buffer holds for sure what was put in it
  saving,                      \* what legacy_ble_rx is about to write
  stored,                      \* the upload in flash
  spoilt,                      \* history: it was saved over USB after a failed
                               \* allocation or behind what an earlier file left,
                               \* from a corrupt heap, or over another one
  connected, bleFile, hostPin, \* the BLE host: its file, its PIN was accepted
  bypassed,                    \* KEY4 was pressed since the last PIN or link
  usbFile,                     \* the USB host's file; fresh: it began in a buffer of
                               \* its own
  result                       \* of the last BLE packet

auth == <<authorized, auth_code>>
bleRx == <<c, ble_data, ble_len>>
usbRx == <<rx_len, usb_data, usb_len>>
flash == <<stored, spoilt>>
vars == <<reset_rx, auth, bleRx, usbRx, corrupt, saving, flash, connected, bleFile, hostPin,
          bypassed, usbFile, result>>

Chunks == [up : Uploads, at : Nat]
File(u) == [i \in 1..Length[u] |-> [up |-> u, at |-> i]]

\* None of the special values is a buffer or the progress of a host.
ASSUME ValuesAssumption ==
  /\ {NULL, Freed, Erased, Garbage} \cap Seq(Chunks) = {}
  /\ NoFile \notin [up : Uploads, next : Nat] \cup [up : Uploads, next : Nat, fresh : BOOLEAN]
  /\ Garbage # NULL

IsWang(chunk) == chunk.at = 1

-----------------------------------------------------------------------------
\* The configuration is read from flash: the last command was saved or not.
Booted ==
  /\ reset_rx' \in BOOLEAN
  /\ authorized' = FALSE /\ auth_code' = 0
  /\ c' = 0 /\ ble_data' = NULL /\ ble_len' = 0
  /\ rx_len' = 0 /\ usb_data' = NULL /\ usb_len' = 0
  /\ corrupt' = FALSE
  /\ saving' = NULL
  /\ connected' = FALSE /\ bleFile' = NoFile /\ hostPin' = FALSE
  /\ bypassed' = FALSE
  /\ usbFile' = NoFile
  /\ result' = 0

Init ==
  /\ reset_rx \in BOOLEAN
  /\ authorized = FALSE /\ auth_code = 0
  /\ c = 0 /\ ble_data = NULL /\ ble_len = 0
  /\ rx_len = 0 /\ usb_data = NULL /\ usb_len = 0
  /\ corrupt = FALSE
  /\ saving = NULL
  /\ stored = Erased /\ spoilt = FALSE
  /\ connected = FALSE /\ bleFile = NoFile /\ hostPin = FALSE
  /\ bypassed = FALSE
  /\ usbFile = NoFile
  /\ result = 0

\* Power is lost, or the badge resets for another reason, as a fault of the
\* processor that writes to address 0 or through a corrupt heap.
PowerLoss == Booted /\ UNCHANGED flash

\* The main loop is not inside data_flatSave.
Idle == saving = NULL

\* The next-generation command that sets reset_rx.
cfg_reset_rx ==
  /\ Idle /\ connected
  /\ reset_rx' \in BOOLEAN
  /\ UNCHANGED <<auth, bleRx, usbRx, corrupt, saving, flash, connected, bleFile, hostPin,
                 bypassed, usbFile, result>>

-----------------------------------------------------------------------------
(* The PIN.                                                                *)

\* The menu enters BT-PAIRING: a new PIN, if PINs are in use.
BtPairing ==
  /\ Idle /\ ble_security
  /\ auth_code' \in Codes
  /\ authorized' = FALSE
  /\ hostPin' = FALSE /\ bypassed' = FALSE
  /\ UNCHANGED <<reset_rx, bleRx, usbRx, corrupt, saving, flash, connected, bleFile, usbFile, result>>

\* The key that skips the PIN, set only while a PIN is shown.
bt_pairing_bypass ==
  /\ Idle /\ ble_security
  /\ authorized' = TRUE
  /\ bypassed' = TRUE
  /\ UNCHANGED <<reset_rx, auth_code, bleRx, usbRx, corrupt, saving, flash, connected, bleFile,
                 hostPin, usbFile, result>>

link_onEstablished ==
  /\ Idle /\ ~connected
  /\ connected' = TRUE
  /\ UNCHANGED <<reset_rx, auth, bleRx, usbRx, corrupt, saving, flash, bleFile, hostPin, bypassed,
                 usbFile, result>>

\* Fault: the authorization outlives the link.
link_onTerminated_KeepsAuth ==
  /\ Idle /\ connected
  /\ connected' = FALSE
  /\ hostPin' = FALSE /\ bypassed' = FALSE /\ bleFile' = NoFile
  /\ UNCHANGED <<reset_rx, auth, bleRx, usbRx, corrupt, saving, flash, usbFile, result>>

\* The link is lost, in the middle of a file or not: legacy_reset_auth.
link_onTerminated ==
  /\ Idle /\ connected
  /\ connected' = FALSE
  /\ authorized' = FALSE
  /\ hostPin' = FALSE /\ bypassed' = FALSE /\ bleFile' = NoFile
  /\ UNCHANGED <<reset_rx, auth_code, bleRx, usbRx, corrupt, saving, flash, usbFile, result>>

\* legacy_ble_rx with a PIN, which a host sends before its file.
SendPin ==
  /\ Idle /\ connected /\ bleFile = NoFile /\ ~hostPin /\ ~authorized
  /\ \E code \in Codes :
       /\ authorized' = (code = auth_code)
       /\ hostPin' = (code = auth_code)
       /\ result' = IF code = auth_code THEN 0 ELSE 5
  /\ UNCHANGED <<reset_rx, auth_code, bleRx, usbRx, corrupt, saving, flash, connected, bleFile,
                 bypassed, usbFile>>

-----------------------------------------------------------------------------
(* BLE packets.                                                            *)

\* Fault: a new header does not start over.
Restarts_Never(chunk) == c = 0

\* A header packet starts over, whatever was received before.
Restarts(chunk) == c = 0 \/ IsWang(chunk)

\* Fault: the packet after the last one is waited for.
Complete_Late(place, len) == place > 2 /\ place >= len

\* place is c of this packet, the first being 0.
Complete(place, len) == place > 2 /\ place + 1 >= len

\* A packet that is turned away leaves the transfer as it is.
Refuse(code) ==
  /\ result' = code
  /\ UNCHANGED <<bleRx, saving, stored>>

\* malloc of the header or realloc to the length fails.
NoMemory(place) ==
  /\ FALSE \in Allocates
  /\ ble_data' = NULL /\ c' = place
  /\ result' = 3
  /\ UNCHANGED <<ble_len, saving, stored>>

\* Fault: a header is added to the buffer of the transfer it breaks off.
Accept_KeepsBuffer(chunk, place) ==
  LET old == IF ble_data = NULL THEN <<>> ELSE ble_data
  IN  /\ c' = place + 1
      /\ ble_data' = Append(old, chunk)
      /\ result' = 0
      /\ UNCHANGED <<ble_len, saving, stored>>

\* What a buffer holds when it is read.
Held(data) == IF corrupt THEN {data, Garbage} ELSE {data}

\* A packet is added; the last one starts the save with the erase.
Accept(chunk, place) ==
  LET old == IF place = 0 THEN <<>> ELSE ble_data
      data == Append(old, chunk)
      len == IF place = 1 THEN Length[data[2].up] ELSE ble_len
  IN  /\ c' = place + 1
      /\ ble_len' = len
      /\ IF Complete(place, len)
         THEN ble_data' = NULL /\ saving' \in Held(data) /\ stored' = Erased
         ELSE ble_data' = data /\ UNCHANGED <<saving, stored>>
      /\ result' = 0

\* legacy_ble_rx with a packet of a file.
legacy_ble_rx(chunk) ==
  LET place == IF Restarts(chunk) THEN 0 ELSE c
  IN  IF ~authorized
      THEN Refuse(IF IsWang(chunk) THEN 4 ELSE 5)
      ELSE IF c = 0 /\ ~IsWang(chunk)
      THEN Refuse(2)
      ELSE IF place > 0 /\ ble_data = NULL   \* the packet and the save go through NULL
      THEN /\ c' = place + 1 /\ stored' = Garbage /\ result' = 0
           /\ UNCHANGED <<ble_data, ble_len, saving>>
      ELSE \/ Accept(chunk, place)
           \/ place <= 1 /\ NoMemory(place)

\* The BLE host sends the next chunk of its file, or the first of another.
BleSend ==
  /\ Idle /\ connected
  /\ \E u \in Uploads :
       LET i == IF bleFile = NoFile THEN 1 ELSE bleFile.next
       IN  /\ bleFile # NoFile => bleFile.up = u
           /\ legacy_ble_rx(File(u)[i])
           /\ bleFile' = IF result' # 0 \/ i = Length[u]
                         THEN NoFile
                         ELSE [up |-> u, next |-> i + 1]
  /\ UNCHANGED <<reset_rx, auth, usbRx, corrupt, spoilt, connected, hostPin, bypassed, usbFile>>

\* Flash after a write: where it was not erased, bits of both are lost.
Programmed(over, data) == IF over \in {Erased, data} THEN data ELSE Garbage

\* The rest of data_flatSave, and handle_after_rx.
SaveWrite ==
  /\ saving # NULL
  /\ \E data \in Held(saving) : stored' = Programmed(stored, data)
  /\ spoilt' = (corrupt \/ stored # Erased)
  /\ IF reset_rx
     THEN Booted
     ELSE /\ saving' = NULL
          /\ UNCHANGED <<reset_rx, auth, bleRx, usbRx, corrupt, connected, bleFile, hostPin,
                         bypassed, usbFile, result>>

-----------------------------------------------------------------------------
(* USB packets, handled in the interrupt: also while saving # NULL.        *)

UsbWidth == 4

\* The packet that starts at chunk i; the last one is as long as is left.
UsbPacket(u, i) ==
  SubSeq(File(u), i, IF i + UsbWidth > Length[u] THEN Length[u] ELSE i + UsbWidth - 1)

\* Pointers to no buffer, or to one that the host's chunks do not fill.
NoBuffer == {NULL, Freed, Garbage}

\* What legacy_usb_rx does with a packet: the statics it leaves, whether it
\* saved, and what.  got and kept are the success of malloc and realloc, which
\* it does not ask: the packet goes to address 0 then, where the code is and
\* nothing changes, and realloc of no buffer may find one with anything in it
\* (Garbage).  The statics are not reset after a save, so that the next packet
\* goes behind the freed buffer, nor by the first packet of another file.
legacy_usb_rx(packet, got, kept) ==
  LET base == IF rx_len # 0 THEN usb_data ELSE IF got THEN <<>> ELSE NULL
      copied == IF base \in NoBuffer THEN base ELSE base \o packet
      total == rx_len + Len(packet)
      len == IF usb_len # 0 THEN usb_len
             ELSE IF copied = NULL THEN NullLength ELSE Length[copied[2].up]
      data == IF usb_len # 0 THEN copied
              ELSE IF ~kept THEN NULL
              ELSE IF copied = NULL THEN Garbage ELSE copied
      full == total > UsbWidth /\ total >= len
  IN  [rx_len |-> total,
       usb_len |-> len,
       usb_data |-> IF full /\ data # NULL THEN Freed ELSE data,
       corrupt |-> corrupt \/ copied = Freed \/ (copied # NULL /\ total > len),
       saved |-> full,
       stored |-> IF ~full THEN stored
                  ELSE IF data \in NoBuffer THEN Garbage
                  ELSE SubSeq(data, 1, len)]

ResetsAfterUsb(saved) == saved /\ reset_rx

UsbNext(u) == IF usbFile = NoFile THEN 1 ELSE usbFile.next

\* A file that begins in a buffer of its own goes on there.
Fresh(got, kept) ==
  IF usbFile = NoFile THEN rx_len = 0 /\ got /\ kept ELSE usbFile.fresh

\* The USB host sends the next packet of its file, or the first of another.
UsbSend ==
  \E u \in Uploads, got \in Allocates, kept \in Allocates :
    LET i == UsbNext(u)
        rx == legacy_usb_rx(UsbPacket(u, i), got, kept)
    IN  /\ rx.rx_len <= MaxRx
        /\ usbFile # NoFile => usbFile.up = u
        /\ stored' = rx.stored
        /\ spoilt' = IF rx.saved THEN ~Fresh(got, kept) ELSE spoilt
        /\ IF ResetsAfterUsb(rx.saved)
           THEN Booted
           ELSE /\ rx_len' = rx.rx_len
                /\ usb_len' = rx.usb_len
                /\ usb_data' = rx.usb_data
                /\ corrupt' = rx.corrupt
                /\ usbFile' = IF i + UsbWidth > Length[u]
                              THEN NoFile
                              ELSE [up |-> u, next |-> i + UsbWidth, fresh |-> Fresh(got, kept)]
                /\ UNCHANGED <<reset_rx, auth, bleRx, saving, connected, bleFile, hostPin,
                               bypassed, result>>

\* Power is lost between the erase and the write of legacy_usb_rx.
UsbSaveCut ==
  /\ \E u \in Uploads, got \in Allocates, kept \in Allocates :
       /\ usbFile # NoFile => usbFile.up = u
       /\ legacy_usb_rx(UsbPacket(u, UsbNext(u)), got, kept).saved
  /\ stored' = Erased /\ spoilt' = FALSE
  /\ Booted

\* The USB host stops in the middle of a file: the cable is pulled.
UsbStop ==
  /\ usbFile # NoFile
  /\ usbFile' = NoFile
  /\ UNCHANGED <<reset_rx, auth, bleRx, usbRx, corrupt, saving, flash, connected, bleFile,
                 hostPin, bypassed, result>>

-----------------------------------------------------------------------------
Next ==
  \/ PowerLoss \/ cfg_reset_rx
  \/ BtPairing \/ bt_pairing_bypass
  \/ link_onEstablished \/ link_onTerminated
  \/ SendPin \/ BleSend \/ SaveWrite
  \/ UsbSend \/ UsbSaveCut \/ UsbStop

Spec == Init /\ [][Next]_vars

-----------------------------------------------------------------------------
BufferType(data) == data \in {NULL, Freed, Garbage} \/ data \in Seq(Chunks)

TypeOK ==
  /\ {reset_rx, authorized} \subseteq BOOLEAN /\ auth_code \in Codes
  /\ {c, ble_len, rx_len, usb_len} \subseteq Nat
  /\ BufferType(ble_data) /\ BufferType(usb_data)
  /\ ble_data \in Seq(Chunks) => Len(ble_data) = c
  /\ usb_data \in Seq(Chunks) => Len(usb_data) = rx_len
  /\ saving \in {NULL, Garbage} \/ saving \in Seq(Chunks)
  /\ stored \in {Erased, Garbage} \/ stored \in Seq(Chunks)
  /\ {connected, hostPin, bypassed, corrupt, spoilt} \subseteq BOOLEAN
  /\ bleFile \in {NoFile} \cup [up : Uploads, next : Nat]
  /\ usbFile \in {NoFile} \cup [up : Uploads, next : Nat, fresh : BOOLEAN]
  /\ result \in {0, 2, 3, 4, 5}

\* The flash holds one file as its host sent it, or none, unless it was saved by
\* legacy_usb_rx without memory or behind an earlier file, from the heap that it
\* corrupted, or over a file that it saved between erase and write (spoilt).  So
\* a file over BLE is whole through lost links, failed allocations and power
\* losses, one over USB whenever it began in a buffer of its own, and the next
\* clean save mends the flash (legacyctrl.c:80-141 and 155-178).
StoredWhole == stored = Erased \/ spoilt \/ \E u \in Uploads : stored = File(u)

\* The flash, and the buffers on the way to it, hold nothing but files.
FlashSafe == TypeOK /\ StoredWhole

\* A file over BLE whose last chunk was answered with success is the one that is
\* saved, whatever came over USB, as long as the heap is whole (legacyctrl.c:127-143).
AckedIsSaved ==
  [][ \A u \in Uploads :
        (bleFile = [up |-> u, next |-> Length[u]] /\ result' = 0 /\ c' > c /\ ~corrupt)
          => saving' = File(u) ]_vars

\* A packet is only taken in from a host that sent the PIN on this link and
\* since the PIN was made, or after the key that skips it (BLEsecurity.md:26-30
\* and 52-55; legacyctrl.c:9-21 and 36-70, peripheral.c:150).
PacketNeedsPin == [][c' > c => hostPin \/ bypassed]_vars

\* "wang" is the "magic number to indicate a new data frame begin"
\* (BadgeBLE.md:37), over USB "just the same" (README.md:98): after the first
\* packet of a file the receiver counts that packet alone.
WangBeginsFrame ==
  [][usbFile = NoFile /\ usbFile' # NoFile => rx_len' = UsbWidth]_vars

\* "When security is disabled (default) ... wang transfers are accepted directly
\* without any PIN" (BLEsecurity.md:33-35).
AcceptedWithoutPin == ~ble_security => result # 4

=============================================================================
