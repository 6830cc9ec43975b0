------------------------------- MODULE Display -------------------------------
(***************************************************************************)
(* The matrix of LEDs: the interrupt of TMR0 (src/main.c) that shows two   *)
(* columns of fb at a time, and the driver (src/leddrv.c) that lights them *)
(* by making one pin high, some low and the rest floating.  The main loop  *)
(* paints fb and changes the brightness between any two interrupts.        *)
(***************************************************************************)
EXTENDS FrameBuffer, FiniteSets

CONSTANTS
  DisplayCols, DisplayRows,   \* LED_COLS and LED_ROWS
  Pictures                    \* what the main loop paints

ASSUME DisplayAssumption ==
  /\ DisplayRows \in Nat \ {0} /\ DisplayCols = 4 * DisplayRows
  /\ Pictures # {} /\ \A f \in Pictures : f \subseteq (0..DisplayCols - 1) \X (0..15)

VARIABLES
  i,               \* of TMR0_IRQHandler, brought back to 0 when a scan begins
  led_brightness,
  on,              \* the LEDs that are lit, as <<high pin, low pin>>
  glow,            \* for how many interrupts each was lit in this scan
  steady_fb        \* nothing was painted or set in this scan

displayVars == <<i, led_brightness, on, glow, steady_fb>>

LED_PINCOUNT == DisplayCols \div 2 + 1
ScanEnd == 2 * DisplayCols
Nothing == [led \in {} |-> 0]

displayRests ==
  /\ i = 0 /\ led_brightness \in 0..3
  /\ on = {} /\ glow = Nothing /\ steady_fb = FALSE

displayInit == displayRests /\ fb \in Pictures

-----------------------------------------------------------------------------
Rows(f, col) == {p[2] : p \in {q \in f : q[1] = col}}

\* Two columns as one row of bits, the rows of both in turns.
combine_cols(col1, col2) == {2 * r : r \in col1} \cup {2 * r + 1 : r \in col2}

\* The first LEDs of the first two columns are switched.
Switched(dcol, col1, col2) ==
  IF dcol = 0 THEN <<(col1 \ {0}) \cup (col2 \cap {0}), (col2 \ {0}) \cup (col1 \cap {0})>>
  ELSE <<col1, col2>>

\* Fault: the pin that is high is not left out.
PinOf_Plain(dcol, bit) == bit

\* The bits are those of the other pins.
PinOf(dcol, bit) == IF bit < dcol THEN bit ELSE bit + 1

\* Fault: a bit past the last pin is not left out.
led_write2dcol_raw_AllBits(dcol, val) == {<<dcol, PinOf(dcol, bit)>> : bit \in val}

led_write2dcol_raw(dcol, val) ==
  {led \in {<<dcol, PinOf(dcol, bit)>> : bit \in val} : led[2] < LED_PINCOUNT}

led_write2dcol(dcol, col1, col2) ==
  LET cols == Switched(dcol, col1, col2)
  IN led_write2dcol_raw(dcol, combine_cols(cols[1], cols[2]))

\* Fault: the LEDs are released one interrupt late.
Released_Late(state) == state > led_brightness + 1

Released(state) == state > led_brightness

TMR0_IRQHandler ==
  LET next == i + 1
      state == next % 4
      first == next >= ScanEnd       \* state is 0 then
  IN
  /\ i' = IF first THEN 0 ELSE next
  /\ on' = CASE state = 0 -> led_write2dcol(i' \div 4, Rows(fb, i' \div 2), Rows(fb, i' \div 2 + 1))
             [] state # 0 /\ Released(state) -> {}
             [] OTHER -> on
  /\ steady_fb' = (first \/ steady_fb)
  /\ glow' = LET before == IF first \/ ~steady_fb THEN Nothing ELSE glow
                 lit(led) == IF led \in DOMAIN before THEN before[led] ELSE 0
             IN IF ~steady_fb' THEN Nothing
                ELSE [led \in DOMAIN before \cup on' |->
                        lit(led) + (IF led \in on' THEN 1 ELSE 0)]
  /\ UNCHANGED <<fb, led_brightness>>

Paints(f) ==
  /\ f # fb /\ fb' = f
  /\ steady_fb' = FALSE /\ glow' = Nothing
  /\ UNCHANGED <<i, led_brightness, on>>

SetBrightness(b) ==
  /\ b # led_brightness /\ led_brightness' = b
  /\ steady_fb' = FALSE /\ glow' = Nothing
  /\ UNCHANGED <<fb, i, on>>

displayNext ==
  \/ TMR0_IRQHandler
  \/ \E f \in Pictures : Paints(f)
  \/ \E b \in 0..3 : SetBrightness(b)

displaySpec == displayInit /\ [][displayNext]_<<fb, displayVars>>

-----------------------------------------------------------------------------
(* Properties.                                                             *)

\* Type correctness: each pin number is one of the driver's table.
DisplayTypeOK ==
  /\ i \in 0..ScanEnd - 1
  /\ led_brightness \in 0..3
  /\ on \subseteq (0..LED_PINCOUNT - 1) \X (0..LED_PINCOUNT - 1)
  /\ \A led \in DOMAIN glow : glow[led] \in 1..4
  /\ steady_fb \in BOOLEAN

\* No pin is high and low at once, and only one is high: a second one would light the
\* LEDs of its own columns too.
OneHighPin == \A a, b \in on : a[1] = b[1] /\ a[1] # b[2]

(* The pins drive the LEDs of one column at a time.                           *)
PinsSafe == DisplayTypeOK /\ OneHighPin

(* In a scan in which nothing changes each lit pixel of fb lights a LED of    *)
(* its own for as many interrupts as the brightness says, and nothing else is *)
(* lit: not by the bits above the rows of the display that animations leave   *)
(* in fb, and not by what was shown before.                                   *)
ScanShowsPicture ==
  [][steady_fb /\ i # 0 /\ i' = 0 =>
       /\ Cardinality(DOMAIN glow) = Cardinality({p \in fb : p[2] < DisplayRows})
       /\ \A led \in DOMAIN glow : glow[led] = led_brightness + 1]_<<fb, displayVars>>

=============================================================================
