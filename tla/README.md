# A verification development for the LED badge firmware

TLA+ models of the firmware in `src/`, the TLC configurations that check them on
small instances, and proofs that TLAPS checks for every value of the constants.
`PROJECT.json` maps each definition to the lines it models, and lists the runs,
the deliberate faults each property catches, the hazards of the code and the
theorems.

- [Inventory](#inventory): the system and what is hard about it
- [Modules](#modules): state and actions, and the code they stand for
- [Runs](#runs): what is checked, within which bounds
- [Disagreements](#disagreements-between-the-code-and-its-documents)
- [Proofs](#proofs)
- [Not modelled](#not-modelled)
- [Plan](#plan)

To check a run: `tlc -config MCBmList.cfg MCBmList`. To check the proofs of a
module: `tlapm BootOtaProofs.tla`.

## Inventory

The badge is a CH582 with a matrix of 44 x 11 LEDs and two or four keys. It shows
pictures that a host uploads, over BLE or USB, and keeps in data flash. One
processor runs the TMOS event loop (main, the tasks, the BLE stack) and is
interrupted by the USB controller and the timers of the display and the keys. Nothing
is locked.

| Component (source) | State | Operations | Hard behaviour | What makes it correct |
|---|---|---|---|---|
| Boot record and confirmation (`bootloader/BackupUpgrade_JumpIAP/main.c`, `src/main.c` `ota_confirm_boot`, `peripheral.c` `SwitchImageFlag`) | four bytes of data flash, two slots of code flash | the loader's decision at reset, the confirmation by the application, the flag switch at the end of an update | each is erase and then write, and power may fail between; three programs rewrite one record over many boots | a confirmed image boots again, a broken one is left, the badge never loses its last good image, a stuck badge recovers |
| Over-the-air update, device (`ble/peripheral.c`, `ble/profile/OTAprofile.c`) | the erase range and counter, the staged reply, the progress display | the IAP commands, one erase block per task turn, a read of the reply, a lost link | commands and lost links between the turns of an erase; flash failures; a one-entry reply buffer that outlives the link | only the target slot is written, a success reply is true, an erase ends, the screen goes with the link |
| Over-the-air update, session | the tool's place in the documented sequence | connect, erase, program, end, start over | the link and the power may fail anywhere; the device keeps state that the tool cannot see | the flag is switched only to a whole image; a session ends |
| Bitmap list (`bmlist.c`, its users in `main.c`) | a circular doubly linked list with `head`, `tail`, `current` | append, drop, go on, clean and reload from flash, play, pick | nodes are dropped around the one on display; an upload from the interrupt replaces the flash between any two of the three reads of a slot | one intact ring, played in order, every bitmap shown, reloaded as a whole |
| Upload receivers (`legacyctrl.c`, `data.c`) | two sets of statics: buffer, count, length; the PIN | a packet over BLE, a packet over USB, the save | USB preempts BLE and its save; buffers that outlive a file; allocations that fail, unchecked over USB; power loss between erase and write | what is in flash is one file as sent, and what the code spoils is mended by the next file; a file that was acknowledged is saved; no packet without the PIN |
| Screens (`main.c`, `auxbtn.c`) | the handler each key has, the running timers and set events, the frame buffer | about twenty handlers, ten ways out of a screen | uploads, updates, lost links and stale events arrive on any screen, and an upload over USB inside a handler; two builds with different keys | a list answers to its keys, every screen can be left, timers end with their screen |
| Keys (`button.c`, `auxbtn.c`) | the filter and press counters of each pin, the pending flags, the last ADC sample | the interrupt of TMR3, `btn_tick`, `auxbtn_poll` | contacts bounce; presses come before the task is there and while handlers run, and two of a kind share a flag; two keys read one pin; thresholds and shifts | one press calls one handler once; none is forgotten, and none merged by a main loop that keeps up |
| Games (`game.c`, `flappy.c`, `pong.c`) | snake, pipes and bird, ball and paddles; what is drawn | start, tick, keys, end | what is drawn piece by piece must be what is played; left by other ways than their own | a picture that is the game, moves that its rules allow, a clock that ends with it |
| Configuration and high score (`config.c`, `ngctrl.c`, `data.c`) | two overlapping records in data flash | set a field, save, write a high score, boot | flash that only clears bits; one record inside the other; power loss between pages | what was saved is loaded; a high score is real |
| BLE link and services (`ble/`) | the link, advertising | established, terminated | touches PIN, update and display at once | see those components |
| USB device (`usb/`) | the transfer on endpoint 0 and its buffer, the address, toggles and handshakes, the flag `transferred` | control transfers in chunks, the requests of enumeration, the hand-off of IN packets | request and reply share a buffer that every token reads; transfers given up, lost acknowledgements, resets; interrupt against main loop | replies are whole, the address changes with the host's, packets arrive once and in order, enumeration ends |
| Animations and splash (`animation.c`, `xbm.c`, `main.c` `common_tasks`, `play_splash`) | the step of each bitmap, flash and marquee, the statics of three scrolling functions | nine animations, flash, marquee, the scrolling of the splash | modular arithmetic on negative steps; bitmaps of any width; keys in between | every frame is shown whole, an animation ends, nothing is painted outside |
| Display driver (`leddrv.c`, `main.c` `TMR0_IRQHandler`) | the scan, the pins, the brightness | one interrupt per quarter of two columns, a write to the pins | 484 LEDs on 23 pins; `fb` painted during the scan | exactly the picture is lit, for as long as the brightness says |
| Power, checksum, fonts, vendored library, host tools | | | | see [Not modelled](#not-modelled) |

The components meet in these places. *Calls*: the receivers end in
`handle_after_rx` of `main.c`, which stops every screen's timers or resets the
badge; the update device calls `disp_ota_progress` and `disp_ota_cancel`; the end
of a game calls `return_to_menu`. *Shared flash*: the upload, the high score, the
configuration and the boot record lie in one data flash of 256-byte pages, and the
high score lies inside the configuration. *Callbacks*: keys, timers and
characteristics call whatever is registered when they fire. *Interrupts*: the USB
receiver, the filter of the keys and the scan of the LEDs run in the middle of any of
this. *Frame buffer*: every screen paints into `fb`, and finds what the last one left.

`PROJECT.json` lists 40 hazards at their lines, each with the properties that
watch it, or with the reason that none does.

## Modules

| Module | Models |
|---|---|
| `BootPolicy` | what the boot promises, without the record (abstract specification) |
| `BootOta` | the boot record and the three programs that rewrite it |
| `DataFlash` | `BootOta` composed with `ConfigStore`: one data flash, one power supply |
| `OtaDevice` | the device's side of an update, under any commands |
| `OtaUpdate` | `OtaDevice` composed with the documented update tool and another host |
| `BmRing` | what the bitmap list promises to the code that plays it (abstract specification) |
| `BmList` | the linked list, its reload and its play |
| `LegacyRx` | the two receivers of uploads, their PIN and their save, and what they do without memory |
| `Badge` | screens, keys, timers, games and the host's effects on them |
| `ConfigStore` | the configuration and the high score in data flash |
| `UsbControl` | control transfers on endpoint 0, and the host that enumerates |
| `UsbIn` | a data endpoint: main loop, interrupt, host |
| `UsbStack` | the two composed, with bus resets |
| `Keys` | from the level of a pin or a voltage to the call of a handler |
| `FrameBuffer` | drawing and erasing pixels |
| `Snake`, `Flappy`, `Pong` | the play of the games and what each draws |
| `Animation` | the nine animations, flash and marquee |
| `Splash` | the splash screen of a start |
| `Display` | the scan of the LEDs and their pins |
| `Panel` | keys, games, animations, splash and display composed |
| `BootOtaProofs`, `BmListProofs`, `LegacyRxProofs`, `BadgeProofs` | the theorems about the module they are named for |
| `ConfigStoreProofs` | those about `ConfigStore`, and about `DataFlash`, which composes it with `BootOta` |
| `OtaProofs` | those about `OtaDevice` and `OtaUpdate` |
| `UsbProofs` | those about `UsbStack`, which composes `UsbControl` and `UsbIn` |
| `PanelProofs` | those about `Keys`, the games, `Animation`, `Splash` and `Display`, and about `Panel`, which composes them |
| `MCDataFlash`, `MCOtaUpdate`, `MCBmList`, `MCLegacyRx`, `MCBadge`, `MCUsbStack`, `MCPanel` | small instances for TLC |

Operators named `X_Y` with the comment "Fault:" are `X` as a bug would have it;
they are used by no specification. `PROJECT.json` pairs each with the property
that it breaks.

### BootOta and BootPolicy

`nv` is the record in data flash, `info` the copy each program reads into RAM
before the erase, `slot` what the two slots hold, `pc` what the processor is
doing. Each program is two actions, up to the erase and after it: `IapErase` and
`IapWriteAndJump` (`jump_APP` with `ReadImageFlag`), `ConfirmErase` and
`ConfirmWrite` (`ota_confirm_boot`), `EndErase` and `EndWriteAndReset`
(`SwitchImageFlag`, CMD_IAP_END). `Reset` falls anywhere. `WriteTarget` puts any
image, whole or broken, into the other slot. `outcome` is history: how the last
boot ended. An image is good when it reaches `ota_confirm_boot`; that is all the
record can tell about it. The four bytes of the record are one 32-bit
programming operation.

`BootPolicy` says the same without a record: attempts go to `next`; a trial that
does not confirm is followed by one of the other slot; a confirmed boot is
repeated; an update is tried. It names the two concessions that the code makes:
power lost during a rewrite forgets the decision, and before a slot was ever
named the trial of slot A may be repeated. The refinement mapping takes `info` for
the record while the page is erased.

`DataFlash` adds `ConfigStore` to it. The record and the configuration lie on
different pages of one flash (`0x7000`, and the last two pages); what they share is the
reset, which ends whatever either is doing, and the main loop, which runs one handler at
a time, so that the reset at the end of an update never cuts off a save.

### OtaDevice and OtaUpdate

Flash is counted in erase blocks from the start of the target slot. Variables
keep the names of the code. `CmdErase`, `CmdProm`, `CmdVerify`, `CmdEnd` and
`CmdInfo` are the cases of `rec_OTA_IAP_DataDeal`; `OTA_FLASH_ERASE_EVT` is one
turn of `peripheral_task`; `OTAProfile_ReadAttrCB` takes the staged reply;
`link_onEstablished` and `link_onTerminated` are the GAP callbacks; a second link is
turned away (`peripheral.c:128-138`) and changes nothing that is modelled here. A flash call
may fail. A block holds old or new data, is erased, or is garbled: programming
only clears bits.

In `OtaUpdate` a tool connects, erases, programs block by block and ends,
reading a reply after each command. It is not in the repository: it follows
`bootloader/OTA.md`. While it is away `OtherHost` connects, reads, and sends any command
in any order: what it leaves is what the tool then meets. `Patient` tells a tool that first lets an earlier erase
finish and takes its reply from the documented one, which cannot know of it.
Sessions break at any point by `LinkLost` or `PowerLoss`, with the tool or without.

### BmList and BmRing

A node is an address; freed addresses are handed out again. `reload_bmlist`,
`DropNext`, `CleanDone`, `CheckHeader`, `ReadSizes`, `ReadBits`, `AppendBitmap` and `LoadDone`
are the steps of `reload_bmlist` between which the interrupt can come, and
`data_flatSave` is the upload it may bring. A slot is read three times, for its
size, its pixels and its modes, and `content` records which upload each came from.
`ANI_NEXT_STEP` and `bm_transition` play and pick. `BmRing` is a sequence with a
place in it. The mapping numbers the nodes as their links do (`Rings` are the numberings
that `IsRing` allows; in an intact ring there is one), and while a reload is
under way it shows only the bitmap on the display.

### LegacyRx

Lengths are in chunks of 16 bytes: a BLE packet is one, a USB packet four.
`BleSend`, `SendPin` and `UsbSend` are packets of documented hosts, which send a
file from its first chunk on; `UsbStop` is one that stops in the middle of it.
`legacy_usb_rx` is an operator, since a packet is handled in one interrupt. The save over
BLE takes two steps around the erase (the last packet, `SaveWrite`), and USB packets and
power loss fall between them; `UsbSaveCut` is power loss inside the save of the interrupt.
A boot finds `reset_rx` set or not, and `cfg_reset_rx` sets it between files.

`legacy_usb_rx` asks neither `malloc` (`legacyctrl.c:161`) nor `realloc` (`:171`) whether it
got memory, and resets nothing after a file or when one is broken off. So its buffer may be
`NULL`, `Garbage` (a new buffer that nothing was put in) or `Freed`. A packet copied to
address 0 changes nothing: the code lies there, and the length of the file is then whatever
that code says (`NullLength`). A packet copied behind a freed buffer makes the heap
`corrupt`, and from then on what any buffer holds when it is saved is `Held`: itself or
garbage. `spoilt` is history: what was saved last came from one of these, or was written over
a file that the interrupt saved between the erase and the write of BLE (`Programmed`).

### Badge

`onePress` and `longPress` hold the bound handlers, `timers` the events with a
running timer and `pending` those that are set and not handled yet, which
`tmos_stop_task` does not take back. `display` is what the frame buffer shows.
Handlers, tasks and callbacks carry their names from the code; `btn_tick` and
`auxbtn_tick` run whatever is bound. A press is an event here: `Keys` says how one
comes about. What a game computes is a choice between going on and being over; the
modules of the games say which. `hw_key_count` is the build.

A handler is one step, but for uploads over USB: they end in the interrupt, and with
`reset_rx` off `handle_after_rx` then runs between two statements of a handler. Where the
handler goes on to start a timer that it stops, the order tells (`start_normal_animation`,
`start_ble_animation`, `SelectTime`, `sw_startstop` and `ANI_NEXT_STEP`): each of these
has `AfterRx` as a disjunct, which is `handle_after_rx` and the timer that is started over it. In every other handler the
interrupt leaves what it leaves before or after it, or paints a picture that
one of the two orders shows too.

### ConfigStore

A field is the set of its bits that are 1: writing intersects, erasing a page
sets. The record has the part on its first page (`head`), the bytes that lie
under the high score's magic and value (`mark`, `speed`), the rest (`tail`) and
the checksum. `SaveHead` and `SaveRest` are `cfg_writeflash` on either side of the
page boundary; `show_score` with `ErasePage`, and `WriteScore`, are
`data_write_highscore`; `Reboot` is power loss and `cfg_init`. `kept`, `fresh` and
`best` are history: what was saved last, whether to erased flash, and the last
high score. The checksum is taken to tell configurations apart; that two of them
collide is not modelled. Bit 1 of the magic stands for bit 6 of its byte 0x5A
(0xA55A, low byte first), which lies on the height of the splash screen: a
height of at most 44 never has it.

### UsbControl, UsbIn and UsbStack

`dev` is a record of the statics and registers of endpoint 0; the operators on it
carry the names of the functions and are composed as they call each other. One
buffer, `ep0buf`, takes the request and gives the reply, and the interrupt of every
token looks for a request in it again. So `buf` keeps its first two bytes as
numbers, and `Overlaid` says what a chunk of a reply makes of them: the descriptors
are given by the first three bytes of each, and `BytesAt` computes which of them
lie at the start of a chunk (the second chunk of the configuration, 84 bytes long,
begins at byte 64, in the middle of an endpoint descriptor). The controller answers NAK
while an interrupt is pending, so one token and its interrupt are one step. The
host is external: `Setup`, `SetupAgain` (its acknowledgement was lost), `DataIn`,
`StatusIn` and `StatusOut` are its tokens; it may give a transfer up and reset the bus.

`UsbIn` is `cdc_tx_poll` in the steps an interrupt can fall between (`Copied`,
`ArmIn`, `ClearTransferred`, `Sent` or `TimedOut`) and the interrupt of an IN or OUT
token. The endpoint answers with its last packet until a second token is answered by
NAK; the host tells a repetition by its toggle. `hiddev.c` has the same code.
`UsbStack` adds `Reset`, which leaves the statics of both alone.

### Keys

`TMR3_IRQHandler` is one sample of all pins: `Filtered` and `Trigger` are the two
lines of `debounce`, with the shift and the byte they keep, and the rest is `check`. It
sets the pending flags, and the event once `button_task_id` is known. That is in the last of three
phases of `main`: `btn_init` enables the interrupt; `disp_charging` calls `btn_tick` itself,
every half second, while the badge is on the charger; then, until `btn_init_task`, nobody
asks for presses. `btn_task`, `TakeOne` and `TakeLong` are
`btn_tick` key by key, with the interrupt, and the handlers, between them. `Pin` says that
KEY2 and the keys after it read one pin. `auxbtn_poll` classifies a voltage as a key,
as none or as undefined, and counts. `owed`, `waited`, `unheard`, `told`, `since`, `steady` and the `aux`
variables are history: what was found and not answered, for how long, whether it was
found with nobody to hear of it, reports of this press, samples
since the last turn and since the level changed.

A flag holds one press: two short presses of a key that end before `btn_tick` comes to it
are one call. `EveryPressServed` is about calls, and `MergedOnlyLate` says when presses
share one: only when the first has waited for ten samples.

### Snake, Flappy and Pong

Each has the variables of its file; a tick computes the game and draws what changed,
in the order of the code, so `fb` is the picture after every tick, and the
properties relate it to the game. Chance (`rand`) is a choice. `dark` is history:
the cells that the snake's head has eaten in or started from, which stay unlit until
its tail has passed them. A game starts over what other screens left in `fb`.

### Animation, Splash and Display

A column of `Animation` is the set of its lit rows. `animations` gives the picture and
the next step of the bitmap that plays; `ANI_NEXT_STEP`, `ANI_MARQUE` and `ANI_FLASH`
are the events of `common_tasks`, and `bm_transition` and `Resumed` the keys between
them. `ani_picture` alone paints over what it finds. `seen` and `age` are history.

`Splash` is `play_splash` and the three functions of `ani_xbm_scrollup_pad` with the static
that each counts with; the call in which one ends paints the first frame of the next.
`calloc` may fail. `painted` and `frames` are history.

`Display` is the interrupt of TMR0 and the pins: a LED is a pair of pins, one high and
one low. The main loop paints any picture, and sets any brightness, between two
interrupts. `glow` counts how long each LED was lit in a scan.

### Panel

A behaviour of `Panel` is a behaviour of one of its parts, named by `part`, beginning with
any picture in `fb`; the others rest. When a handler is bound is the matter of `Badge`; what
the parts do share is `fb`, and each starts on what another left.

## Runs

Seven runs pass and five find a disagreement. States are distinct states.

| Run | Module, configuration | Shows | Bounds |
|---|---|---|---|
| `data_flash` | `MCDataFlash` | the record behaves as `BootPolicy` through boots, confirmations, updates and resets at every step; one good image always stays, a stuck badge recovers; a boot never runs with a mixture of configurations, the first save survives, a high score is real | two good images and a bad one; 4 configurations that differ in each part, 3 bits a field, 4 scores; 4 resets of a badge that works (power cycles of a stuck one are free); 779 568 states |
| `ota_update` | `MCOtaUpdate` | commands of a tool and of other hosts, in any order and between the turns of the erase: only the target slot is written, success replies are true, the erase ends, the screen does not outlive the link; a patient tool switches the flag only to a whole image and never waits for ever | slots of 3 blocks, whole and partial ranges and count 0, 4 blocks programmed after an erase, 2 sessions of the tool and any number of others; 762 344 states |
| `bm_list` | `MCBmList` | one ring at every step, play as `BmRing` says, a bitmap that comes up starts with its first frame, an undisturbed reload shows exactly what is stored, every bitmap comes round, uploads at any moment | 4 nodes, 3 slots, two uploads that fill complementary slots, 2 frames; 661 324 states |
| `legacy_rx` | `MCLegacyRx` | the flash holds one whole file or none but for what `spoilt` names, an acknowledged file is saved, no packet without the PIN, with both receivers at work | files of 5 and 9 chunks (two and three USB packets), two PINs, allocations of either receiver that fail, uploads that reset the badge and others; counts up to 14 chunks; 1 217 488 states |
| `badge` | `MCBadge` | lists answer to their keys, no screen is a dead end, games go on, animations, clock, stopwatch and the update screen end with their screen, also when an upload ends inside a handler | both builds, one event set and not yet handled at a time, no key while charging at start; 1 166 672 states |
| `usb` | `MCUsbStack` | a reply that the host takes for complete is what it asked for, the badge answers at the host's address, what it takes for sent was received once and in order, enumeration ends, `cdc_tx_poll` returns | an enumeration of seven requests after the address, 6 later ones, 2 addresses, one transfer given up, one lost acknowledgement, one reset; messages of 1 and 2 packets, 3 packets, 1 written; 98 586 states |
| `panel` | `MCPanel` | a press is reported once and answered, two share a call only when the main loop is late, the games draw what they play, every frame is shown whole, animations and splash come to their end, one pin is high and a scan shows the picture | see below; 1 345 801 states |
| `ota_reconnect`, `legacy_second_usb`, `legacy_default_security`, `config_second_save`, `pong_accelerates` | the same modules with a configuration of their own, the last `Pong` alone on 8 x 6 | see the next section | |

Why the bounds are enough. The boot record has no counters: its behaviour
repeats after a trial, a confirmation and a torn write, and four resets fit all
three with one more. Three blocks give an erase a first, a middle and a last
turn to be interrupted in; two sessions give one that is broken and one that meets what it
left, and between them other hosts leave whatever else can be left. Lists of no, one, two and three
bitmaps arise from the uploads that change in the middle of a load, and four
nodes are what a load can hold at once. Five chunks is the shortest file with
data, and nine needs a third USB packet; 14 chunks are one file and the beginning of
another behind it, after which more of the same follows. `MaxPending = 1` in
`badge` lets one event be late, which is what it takes to be handled after the
screen it belongs to; the proofs have any number. One transfer given up, one loss and one
reset in `usb` can each meet every stage of every transfer, and each leaves behind
what it can leave: a request, a chunk, an address.

The bounds of `panel`. *Keys*: two keys on one pin, a press long after 7 samples
(the filter settles within 6), ADC samples on both sides of each threshold. *Snake*: 3 x 3
cells, at most 5 long, so that every shape of each length, a full-grown one and a
board with few free cells occur; the first speed is the lowest, since the tempo
meets nothing else. *Flappy, Pong, Display, Splash*: the real 44 x 11. Flappy has the
lowest and the highest gap (2, 4) and one acceleration (83 to 80 ms), Pong one
acceleration (48 to 40 ms): more steps of the tempo only repeat it. *Animation*: 4 x 3, with 18 bitmaps
narrower than the display, as wide and wider, each animation among them, some with flash
or marquee, and 2 presses. *Display*: 5 pictures, one of them with bits above row 10, and
all brightnesses. *Splash*: 4 pictures of 10 to 22 rows and 7 to 44 columns.

Fairness. `BootOta`, alone and in `DataFlash`: the processor executes the loader and the
application, and a stuck badge is power-cycled at some time; hosts and power failures owe
nothing. `OtaUpdate`: TMOS runs the erase event that is set, the tool
goes on with its session and hangs up after a failure. `BmList`: a call that
loads runs to its end, and the animation task, which restarts its own timer, keeps
being run. `Keys`: TMOS runs `btn_task` when its event is set, and handlers return.
`UsbControl`: the host goes on with its transfer and its enumeration. `UsbIn`: the main
loop runs on, and a host that reads goes on polling. The other modules state no
liveness.

Deadlock is allowed (`CHECK_DEADLOCK FALSE`) where the system stops or a bound
stops it: the device after CMD_IAP_END, which resets it; an empty list with no
upload to read; the bounded receivers and USB hosts; a splash screen that is over.

What the passing runs presuppose, and what happens without it:

- `ota_update` gets ranges inside the slot. With one that asks for a block more
  `OnlyTargetSlotWritten` fails: `peripheral.c:446` compares with `>`.
- `ota_update` has the patient tool (`ota_reconnect` the documented one).
- `legacy_rx`: hosts are as documented and begin a file at its first chunk, though they may
  stop anywhere in it. A receive buffer is as large as its file, which is padded to whole
  packets, and counts do not wrap (`MaxRx`). `malloc`, `realloc` and `free` are
  whole calls: that the interrupt of USB falls into one of the main loop is not modelled,
  nor are two USB interfaces that send at once, nor an upload over USB before
  `ble_setup`.
- `badge`: an interrupt between two statements of a handler is the matter of the timers it
  stops, which `AfterRx` covers; the calls of TMOS are whole, and a painting that the interrupt cuts
  in two is one of its two pictures.
- `badge` has no key pressed on the charger at start: `disp_charging` runs key handlers,
  and `main` then draws the menu without binding its keys again, so that with
  `KeysWhileCharging = TRUE` the properties `ListKeys` and `WayBack` fail.
- `panel`, `EveryPressServed`: a press that was found when no event and no poll was there for it
  (`unheard`) is owed nothing. Such a press, from between the charger and `btn_init_task`, is pending until
  the next press of any key sets the event; `NothingForgotten` says no more of it.
- `usb`, `AddressFirst`: after a reset the host gives the address before it asks for
  anything else. `ctrl.c:69` loads the variable that `handle_busReset` does not clear
  into the register after any token but SETUP, so with FALSE the badge is back at its
  old address and `AddressTogether` fails.
- `usb`, `HostPolls`: a host that reads asks again before `wait_until_sent` gives up.
  Otherwise the next packet is copied over one that is still armed, and
  `ReceivedInOrder` fails.
- `usb`, `Uses`: a host reads or writes the port. With both, the empty packet that
  `data_ep_handler` arms for an OUT token (`cdc-serial.c:119`) lies over the one that
  was armed, and `SentIsReceived` fails.
- `usb`, `ResetWhileOpen`: no bus reset once the port was used. Toggles and `transferred`
  survive a reset, so that the first packet after it may be taken for a repetition.
- `usb`: the host asks for the configuration with its own length. `desc_config`
  (`dev.c:87`) sends as many bytes as are asked for, also past the end of it. And it asks
  for strings that exist: `dev.c:101` compares an index with a size in bytes, and
  string 4, which `setup.c` names, has no entry.
- `panel`, `Splash`: pictures of at most 44 columns and at least 10 rows. `ngctrl.c:106`
  takes up to 48 columns, of which `xbm2fb` paints four behind `fb`, and any height, of
  which rows in front of the bitmap are painted.

Four behaviours are excepted from the `Badge` properties because the code has them,
and they may be meant. `ListKeys` lets KEY1 draw the menu over the pairing screen
while the other keys still pair. `StopwatchTicks` is strict for two keys only, since
with four KEY3 stays bound and starts the stopwatch screen over without stopping
its timer. With two keys Snake can be left by holding KEY2, and its tick goes on
under the menu until the game is over: `GameGoesOn` says that a game whose keys are bound ticks, not
that no other does. And a clock that an upload over USB ended, inside the handler that started it, ticks
until "BLUETOOTH OFF", which that handler also started, ends. `ListKeys` also speaks only of a
display that no outstanding timer or event is about to draw over.

## Disagreements between the code and its documents

Each is the one property of a run that TLC violates.

- `ota_reconnect` (`peripheral.c:249`): an erase goes on after the link is lost and
  stages its reply, which the next session takes for its own; the blocks it programs
  are then erased behind it, and the flag is switched to a slot with holes. The
  boot loader's revert still saves the badge (`NeverBricked`).
- `legacy_second_usb` (`legacyctrl.c:174`): the USB receiver keeps its count and its freed
  buffer after a file. Unless every upload resets the badge, which is off by default
  (`config.c:38`), the first packet of the next file is counted behind the last one,
  copied past the freed buffer, and saved at once. `BadgeBLE.md:37` has the header begin a new
  frame, and `README.md:98` has the USB devices do the same.
- `legacy_default_security` (`legacyctrl.c:35`): with security off, the default,
  the first packet over BLE is refused as unauthorized, where `BLEsecurity.md`
  says it is accepted directly.
- `config_second_save` (`config.c:55`): a second, different configuration is written
  over the first without an erase; its checksum fails and the next boot loads the
  defaults. The same happens after a high score.

- `pong_accelerates` (`pong.c:153`): both paddles count their hits, and only the player's branch
  looks at the count, so the fourth hit, when it is the badge's, changes nothing. `pong.c:19` and
  `:152` have the ball speed up every N paddle hits. As hits alternate, a ball that was
  served to the player never gets faster (`ServedToPlayerNeverFaster`).

Others were met while modelling and have no run of their own:

- `peripheral.c:446`: the range check of an erase compares the start of the last block
  with the loader's address using `>`, and so lets it take the first block of the
  loader. `bootloader/README.md` says only the slots are written. The commands of the run lie in
  the slot, since what is lost with that block is outside the model.
- `pong.c:106` says that the badge can be beaten by a fast ball; its paddle moves with the ball's
  ticks, so it never misses (`BadgeNeverMisses`, for every display at least four columns wider
  than tall). The comment says that something is possible, which no run can refute; the proof does.
- `flappy.c:17` has `GAP_MAX` as 6 in its comment; it is 4.
- Laser on a bitmap narrower than the display: the columns counted are those from the
  left border of the centred bitmap on, so it comes back after it left; `GoneStaysGone`
  speaks of frames as wide as the display.
- The marquee's pattern of the last column lacks a bit, so that its two lowest LEDs
  never light; `EveryFrameShown` looks at what the animation painted before the marquee.

## Proofs

Each holds for every value of the constants that satisfies the named
assumptions of the module; a theorem whose statement names a property of a run
generalises what that run shows.

**BootOtaProofs.** `TypeCorrect`, `ConfirmedBootsAgainHolds`,
`UpdateTakesEffectHolds` and `UnconfirmedIsLeftHolds`, which `BootsRightSlotHolds`
puts together, `NeverBrickedHolds` and `Refinement` (`Spec => ImplementsPolicy`), for every set of images and every bound
on resets, from `ImagesAssumption` and `MaxResetsAssumption`. None of the
properties is inductive: they speak of the moment after a reset, and the record
was written long before. The invariant `IInv` follows the record through a boot:
it is a trial record of the booted slot until the confirmation, a confirmed one
until CMD_IAP_END, and while a page is erased the copy in RAM has that form
(`RunningRecord`); `OffRecord` ties the form of the record after a reset to how the
boot ended. `GoodBoot` says that what executes can confirm, which is why the
slot written by an update is never the last good one.

**OtaProofs.** About `OtaDevice` alone: `TypeCorrect` (with `PercentRange`: the percent shown stays
below 100 however many blocks are programmed), `OnlyTargetSlotWrittenHolds` for
every slot size and every set of commands inside the slot (`CommandsInSlot`), and
`NoScreenWithoutLinkHolds`. The strengthening for the second bounds the running
erase: while the event is set, the next block is in the slot, whether the range was
set by this command or an earlier one (`EraseBlockCnt` restarts with each).

The rest is about `OtaUpdate`, where a tool, other hosts and losses of power come
together. `DeviceSafeHolds` has the three above for it, and `EraseReplyTruthfulHolds` the truth of the
reply, where the tool's own commands are among those of the sets (`ToolCommands`):
`PassedErased` says that no block which the loop has passed holds
what was there before, although commands program blocks while it runs.

`SessionSafeHolds`, for every slot size, number of sessions and commands of other hosts: a
tool that is `Patient` switches the flag only to the whole image it sent. `SessionInv` relates
the tool's place to the device: while it waits for its erase, the range of the loop is
the one it asked for, what the loop has passed is erased and nothing but its end
stages a reply (`ErasingInv`); from then on no erase runs and the blocks that were answered
are in flash (`ProgrammingInv`). Without `Patient` the first of these is what fails, as
`ota_reconnect` shows.

**BmListProofs.** `RingIntactHolds`, `RingSafeHolds`, `LostOnlyToEmptySlotsHolds` and
`FreshStartHolds`, for any number of nodes, slots and uploads. `AppendRing` and `UnlinkRing` show the two operations
that change links to keep a ring of k nodes one of k + 1 or k - 1; the invariant
adds that a load always has a bitmap on the display, which is what
`bmlist_append` and `bmlist_drop` follow without a check.

`ImplementsRingHolds` shows that each step of `BmList` is a step of `BmRing` or a stutter.
That the numbering of the nodes is unique (`ChainIsRing` and the lemmas after it) makes
play the step to the next place; `LoadOrder` says that a load appends behind the bitmap on
the display, so that its last drop leaves what was read, in order. `ReloadShowsStoredHolds`
counts: `ReadSoFar` has as many nodes behind that bitmap as there were filled slots before `slot`,
in ascending order, so when the last slot is read they are all of them; each of them has its
size, its pixels and its modes from the same upload, although they are three reads.

**LegacyRxProofs.** `FlashSafeHolds`, `AckedIsSavedHolds` and `PacketNeedsPinHolds`, for files
of any length, any pattern of failing allocations, and uploads with and without a reset after
each. `RxInv` says of the receiver over BLE that, at any place of a file, its buffer is what its
host has sent of it (`BleAt`), unless the heap is corrupt. Of the receiver over USB it has two cases:
a file that began in a buffer of its own is there as far as it was sent (`UsbAt`), and one
that was counted behind what was left is not (`UsbPast`); only the first can be saved without
setting `spoilt`. Of what waits to be saved it says that it is a file, since the erase
may be followed by a reset. That a header begins a new frame is not provable: `legacy_second_usb`
shows when it does not.

**ConfigStoreProofs.** `TypeCorrect`, `FirstSaveSurvivesHolds`, `HighScoreRealHolds` and
`ScoreSafeHolds`, for every set of configurations with a legal height and every
set of scores. `TypeCorrect` is not only a matter of types: that `badge_cfg` is a
configuration after every boot rests on the checksum rejecting every record
that a cut save or a high score left. The invariant says what each half of a
write finds (`Halves`), that a save to erased flash left the record of that
configuration (`KeptStored`), and that the high score's magic is there only over the
score written last (`ScoreStored`), because a configuration clears a bit of it.

**BadgeProofs.** `KeysMatchScreenHolds` and `TimersMatchScreenHolds`, for both builds, any number of late
events and any bounds, with no key on the charger (`KeysWhileCharging = FALSE`; see *Runs* for what is
otherwise), and `UpdateNeedsLinkHolds` without a hypothesis. The code has no variable for the screen: what
a key does is whatever was bound last, and handlers leave some keys as they were. So `BadgeInv` lists
the screens by what they bind (`OnMenu` to `OnPong`, with the leftovers that each can have, as
`LongFromMenu`), and ties to them the games' and clocks' timers and what is displayed. With two
keys and with four the same screens differ, and the proof of each handler says from which screens
it can be called and to which it leads. A handler into which an upload falls is a case of
its own where its end differs (`AnimationStarts`, `UploadEnds`): what it starts over the upload ticks with
"BLUETOOTH OFF", and `ClocksTick` says that such a clock ends with it.

**UsbProofs.** `PacketsOnceHolds`, for messages of any length, where a reader polls on
(`HostPolls`), no host both reads and writes, and the bus is not reset under an open port. `ReaderInv`
compares the toggles of badge and host at each step of `cdc_tx_poll`: they tell whether what is armed
is a repetition or the packet handed over last.

`RepliesWholeHolds` and `AddressTogetherHolds`, for any number of requests, of transfers given
up, of lost acknowledgements and of resets, with a host like a driver (`DriverHost`): it gives the address first,
asks for descriptors in their whole length and for no more of the configuration than there is. A reply is served from
the buffer that held its request, and every token has it looked at as a request again: `Serves` says
that what lies there meanwhile is never one (`9` is the length of a descriptor of the configuration, and no
recipient), so that the second chunk is the rest of the reply. `CtlAddress` has the one state in which badge and
host differ, between the request that gives the address and its status.

**PanelProofs**, keys. `DebouncedHolds`, `KeysSafeHolds`, `PressReportedOnceHolds` and `MergedOnlyLateHolds`, for any
number of keys, every wiring of them to pins and every `LONGPRESS_THRES`. TLC follows the
filter from the values it can reach; the proof bounds it from any: `FarFromTurning` says how
far from the other threshold it still is n samples after a turn, which is why it
cannot turn again within five, and `FollowsLevel` how far a level has taken it after
n samples, which is why six are enough. `PressCounted` ties `hold` and `is_longpress` to the
reports of a press, and `AuxCounted` the count of `auxbtn_poll` to its samples. `WaitedLong` has a short press
wait at least as long as the filter has taken to turn on after it, five samples, and off again, five
more: no second one is there before.

*Games.* `SnakeSafeHolds`, for every board and greatest length, from
`SnakeAssumption`: the board has more cells than the snake can get, and a step of the
speed is no larger than its least value. The invariant adds that the dark cells are
cells of the snake.

`FlappySafeHolds`, for every display, every distance of the pipes that
leaves the bird room at the start and every set of gaps. The picture is inductive only
because the distance keeps the old second pipe off the new first one: the loop erases
one pipe after it drew the other. `FlappyTempo` keeps the tick on the grid of its steps, so
that it cannot pass its limit.

`PongSafeHolds`, for every display with at least four columns more than
rows (`PongWide`), whatever the player does. That the badge never misses is far from inductive:
`Catches` says that while the ball comes, its paddle is level with it (`Tracked`) or
the ball is at least as many ticks away as it takes to become so (`Needed`), counted
over a bounce off the wall. `HitsAlternate` gives who makes the fourth hit.

*Display.* `PinsSafeHolds` and `ScanShowsPictureHolds`, for matrices of every size that are wired
as this one (four columns to a row, `DisplayAssumption`). `ScanSoFar` has the LEDs that were lit since the scan
began, each for as long as it was its turn; `AsManyLeds` is a bijection between them and the pixels of the picture,
as a column and a row determine the pair of pins.

*Animation and splash.* `AnimationEndsHolds`, `FramesPaintedHolds` and `SplashSlidesHolds`, for any list of
bitmaps of any width and any display. `Period` is the length of each animation and `StepAt` where
it is after a number of steps, forwards or backwards, with the modulus of a negative step. For the frames,
`WholeStep` names the step in which each animation shows a frame whole; `WholeColumns` is why the columns it paints then are
the frame, centred or not, and `SeenInTurn` is inductive. A splash screen is followed through its three parts
by one count of frames.

*Panel.* `PanelSafeHolds`, `PicturesMoveHolds`, `PanelStepsHold` and `PanelPaintsFrames` carry all of this to `Spec` of
`Panel`: the part that plays keeps its invariant beginning with any picture in `fb`, and the others rest
(`PanelSteps`, `RestsStay`).

Only model-checked: liveness (`Recovers`, `EraseEnds`, `SessionEnds`, `EveryBitmapShown`,
`EveryPressServed`, `EnumerationEnds`, `PollReturns`), which rests on fairness and is out of the
prover's reach. The hypotheses named above are about constants, and
the instances that TLC checks in the passing runs meet each of them.

## Not modelled

- *USB*: the registers and tables of handlers that `setup.c` fills before interrupts are
  enabled; requests that no handler answers; what is received, which enters `LegacyRx`.
- *Animations*: the pictures of `ani_xbm_next_frame` (charging and pairing), which paint
  one frame after another over nothing else; `ani_xbm_scrollup_inf`, `xbm2fb_dirty` and
  `led_write2row_raw`, which nothing calls; the drive strength of the pins.
- *Scores*: how they are shown, and of 100 and more; the three seconds for which the end
  of a game holds up the main loop are the time between two steps of `btn_tick`.
- *Heap*: allocations fail, and freed memory is written, in `LegacyRx`; the leak in `bmlist_drop`, which frees the
  node and not its pixels, is a hazard without a model.
- *Parsing* in `ngctrl.c`: a command is a choice of configuration, streamed pictures
  are a picture.
- *Security submenu* of `main.c`: nothing enters it.
- *Services* that only answer reads (`ng.c`, device information, battery), and the
  registration of all of them.
- *Power and battery, checksum, fonts*: arithmetic and data without a protocol. A
  shutdown is a reset.
- *Vendored library and host tools*: TMOS, flash and BLE calls are modelled where
  they are used and marked external. They are three quarters of the lines under `src/`:
  of some 6400 lines of the firmware and its loader the map covers about half.

## Plan

Done, in the order of importance for the owner of a badge: a badge that always
starts (`BootOta`), updates that only write what they should (`OtaDevice`,
`OtaUpdate`), pictures that play (`BmList`), uploads that arrive whole (`LegacyRx`),
screens that can be used and left (`Badge`), settings that last (`ConfigStore`); with
the proofs of each.

Then what the owner touches and sees: presses (`Keys`), games (`Snake`, `Flappy`, `Pong`),
pictures (`Animation`, `Splash`) on the LEDs (`Display`), and the cable (`UsbControl`,
`UsbIn`).

Every safety invariant and action property that a passing run checks, and both refinements, are proved.

Next, the models:

1. `LegacyRx` with two USB interfaces at once, as a composition with `UsbIn`, and with an
   interrupt that falls into the allocator.
2. `Panel` composed with the bindings of `Badge`: which screen's handler a press
   reaches, in one behaviour.
3. `power.c` and the charging screen with their timers.

Then the proofs that these models add: that what two interfaces send is mixed only
where they share the buffer; that a press reaches the handler of the screen that is shown. And of what is
there now, sharper theorems: `PongSafe` for narrower displays, where the badge can miss;
`RepliesWhole` for hosts that ask for parts of a descriptor.
