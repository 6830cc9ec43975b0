----------------------------- MODULE PanelProofs -----------------------------
(***************************************************************************)
(* Proofs about the parts of Panel: the keys, for any filter constants and *)
(* any times of the interrupts; the games, the scan of the LEDs, the       *)
(* animations and the splash screen, for displays of any size and whatever *)
(* the display showed before.  Then about Panel: the part that plays keeps *)
(* its invariant, and the others rest.                                     *)
(***************************************************************************)
EXTENDS Panel, FiniteSetTheorems, TLAPS

-----------------------------------------------------------------------------
(* Keys: the filter for every sequence of samples, the presses for every     *)
(* number of keys, every wiring of them to pins and every threshold, and      *)
(* btn_tick for every interleaving with the interrupt.                        *)

\* The types of what only the properties look at.
HistoryTypeOK ==
  /\ level \in [Pins -> {0, 1}]
  /\ steady \in [Pins -> 1..Settling] /\ since \in [Key -> 1..Settling]
  /\ pressed \in [Key -> BOOLEAN] /\ told \in [Key -> 0..2]

\* The filter has come as far as the samples since its last turn allow: this is what
\* keeps it from turning again within five samples.
FarFromTurning ==
  \A k \in Key :
    /\ flag[k] = 1 =>
         /\ since[k] = 1 => y[k] >= 201
         /\ since[k] = 2 => y[k] >= 151
         /\ since[k] = 3 => y[k] >= 114
         /\ since[k] = 4 => y[k] >= 86
    /\ flag[k] = 0 =>
         /\ since[k] = 1 => y[k] <= 54
         /\ since[k] = 2 => y[k] <= 104
         /\ since[k] = 3 => y[k] <= 141
         /\ since[k] = 4 => y[k] <= 169

\* It has come at least as far as the samples of one level have taken it, wherever it
\* was before them.
FilterFollows(v, f, press, n) ==
  /\ press = 1 =>
       /\ n = 1 => v >= 63
       /\ n = 2 => v >= 111
       /\ n = 3 => v >= 147
       /\ n = 4 => v >= 174
       /\ n = 5 => v >= 194
       /\ n = 6 => v >= 201 /\ f = 1
  /\ press = 0 =>
       /\ n = 1 => v <= 192
       /\ n = 2 => v <= 144
       /\ n = 3 => v <= 108
       /\ n = 4 => v <= 81
       /\ n = 5 => v <= 61
       /\ n = 6 => v <= 54 /\ f = 0

FollowsLevel == \A k \in Key : FilterFollows(y[k], flag[k], level[Pin[k]], steady[Pin[k]])

\* How the counters of check and the reports of a press go together.
PressCounted ==
  \A k \in Key :
    /\ flag[k] = 1 =>
         /\ pressed[k] /\ hold[k] >= 1
         /\ is_longpress[k] = (IF hold[k] = LONGPRESS_THRES THEN 1 ELSE 0)
         /\ told[k] = (IF hold[k] = LONGPRESS_THRES THEN 1 ELSE 0)
    /\ flag[k] = 0 =>
         /\ hold[k] = 0 /\ is_longpress[k] = 0
         /\ told[k] = (IF pressed[k] THEN 1 ELSE 0)

\* What auxbtn_poll has kept of the samples.
AuxCounted ==
  /\ auxSample \in {"none", "undefined", "key3", "key4"}
  /\ auxSteady \in 0..(DEBOUNCE_THRES + 1) /\ auxTold \in 0..2
  /\ auxSample = "undefined" => count = 0
  /\ auxSample = "none" => last = "none"
  /\ auxSample \in {"key3", "key4"} => last = auxSample /\ count = auxSteady

KeysInv == KeysTypeOK /\ HistoryTypeOK

-----------------------------------------------------------------------------
(* The operators of the interrupt.                                         *)

LEMMA QuarterBounds ==
  ASSUME NEW v \in 0..255
  PROVE  /\ v \div 4 \in Nat
         /\ 4 * (v \div 4) <= v /\ v < 4 * (v \div 4) + 4
  BY SMT

\* The filter stays within a byte, and how far one sample takes it.
LEMMA FilterSteps ==
  ASSUME NEW v \in 0..255, NEW press \in {0, 1}
  PROVE  /\ Filtered(v, press) \in 0..255
         /\ press = 1 => 4 * Filtered(v, press) >= 3 * v + 252
         /\ press = 0 => 4 * Filtered(v, press) <= 3 * v + 3
         /\ 4 * Filtered(v, press) >= 3 * v
         /\ 4 * Filtered(v, press) <= 3 * v + 255
<1>1. PICK q \in Nat : q = v \div 4 /\ 4 * q <= v /\ v < 4 * q + 4
  BY QuarterBounds
<1>2. Filtered(v, press) = v - q + (IF press = 1 THEN 63 ELSE 0)
  BY <1>1 DEF Filtered
<1> QED BY <1>1, <1>2

LEMMA PinOfKey == \A k \in Key : Pin[k] \in Pins
  BY DEF Pins

\* What one sample makes of a key.
LEMMA OneSample ==
  ASSUME KeysInv, NEW now \in [Pins -> {0, 1}], TMR3_IRQHandler(now), NEW k \in Key
  PROVE  /\ y'[k] = Filtered(y[k], now[Pin[k]]) /\ y'[k] \in 0..255
         /\ flag'[k] = Trigger(y'[k], flag[k]) /\ flag'[k] \in {0, 1}
         /\ level'[Pin[k]] = now[Pin[k]]
         /\ steady'[Pin[k]] = IF now[Pin[k]] = level[Pin[k]]
                              THEN Capped(steady[Pin[k]] + 1, Settling) ELSE 1
         /\ since'[k] = IF flag'[k] = flag[k] THEN Capped(since[k] + 1, Settling) ELSE 1
<1>1. Pin[k] \in Pins /\ now[Pin[k]] \in {0, 1} /\ y[k] \in 0..255 /\ flag[k] \in {0, 1}
  BY PinOfKey DEF KeysInv, KeysTypeOK
<1>2. y'[k] = Filtered(y[k], now[Pin[k]])
  BY DEF TMR3_IRQHandler
<1>3. y'[k] \in 0..255
  BY <1>1, <1>2, FilterSteps
<1>4. flag'[k] = Trigger(y'[k], flag[k])
  BY DEF TMR3_IRQHandler
<1>5. flag'[k] \in {0, 1}
  BY <1>1, <1>3, <1>4 DEF Trigger, DEBOUNCE_HIGH_THRES, DEBOUNCE_LOW_THRES
<1>6. level' = now
  BY DEF TMR3_IRQHandler
<1>7. steady'[Pin[k]] = IF now[Pin[k]] = level[Pin[k]]
                        THEN Capped(steady[Pin[k]] + 1, Settling) ELSE 1
  BY <1>1 DEF TMR3_IRQHandler
<1>8. since'[k] = IF flag'[k] = flag[k] THEN Capped(since[k] + 1, Settling) ELSE 1
  BY DEF TMR3_IRQHandler
<1> QED BY <1>2, <1>3, <1>4, <1>5, <1>6, <1>7, <1>8

\* And of its counters.
LEMMA OnePress ==
  ASSUME KeysInv, NEW now \in [Pins -> {0, 1}], TMR3_IRQHandler(now), NEW k \in Key
  PROVE  LET down == flag'[k] = 1
             short == ~down /\ EndsShort(k)
             long == down /\ TurnsLong(k)
         IN /\ hold'[k] = IF down THEN Capped(hold[k] + 1, LONGPRESS_THRES) ELSE 0
            /\ is_longpress'[k] = IF ~down THEN 0 ELSE IF long THEN 1 ELSE is_longpress[k]
            /\ onePending'[k] = (short \/ onePending[k])
            /\ longPending'[k] = (long \/ longPending[k])
            /\ told'[k] = Capped((IF flag'[k] > flag[k] THEN 0 ELSE told[k])
                                   + (IF short \/ long THEN 1 ELSE 0), 2)
            /\ pressed'[k] = (flag'[k] = 1 \/ pressed[k])
            /\ owed'[k] = owed[k] \cup (IF short THEN {"short"} ELSE {})
                                  \cup (IF long THEN {"long"} ELSE {})
            /\ (short \/ long => event' \/ unheard')
  BY Zenon DEF TMR3_IRQHandler

-----------------------------------------------------------------------------
(* Types.                                                                  *)

LEMMA KeysTypeInit == keysInit => KeysInv
<1> SUFFICES ASSUME keysInit PROVE KeysInv
  OBVIOUS
<1>1. KEY_INDEX \in Nat \ {0} /\ LONGPRESS_THRES \in Nat \ {0}
  BY KeysAssumption
<1>2. KeysTypeOK
  <2>1. at \in Loop
    BY <1>1 DEF keysInit, Key, Loop, Away
  <2>2. y \in [Key -> 0..255] /\ hold \in [Key -> 0..LONGPRESS_THRES]
    BY <1>1 DEF keysInit
  <2>3. count \in 0..(DEBOUNCE_THRES + 1)
    BY DEF keysInit, DEBOUNCE_THRES
  <2>4. owed \in [Key -> SUBSET {"short", "long"}]
    BY DEF keysInit
  <2>6. waited \in [Key -> 0..PressSpan]
    BY DEF keysInit, PressSpan
  <2>5. /\ flag \in [Key -> {0, 1}] /\ is_longpress \in [Key -> {0, 1}]
        /\ onePending \in [Key -> BOOLEAN] /\ longPending \in [Key -> BOOLEAN]
        /\ event \in BOOLEAN /\ last \in {"none", "key3", "key4"} /\ hands \in Hands
        /\ phase \in {"charging", "starting", "loop"} /\ unheard \in BOOLEAN
    BY DEF keysInit
  <2> QED BY <2>1, <2>2, <2>3, <2>4, <2>5, <2>6 DEF KeysTypeOK
<1>3. HistoryTypeOK
  BY DEF keysInit, HistoryTypeOK, Settling
<1> QED BY <1>2, <1>3 DEF KeysInv

LEMMA IrqTypes ==
  ASSUME KeysInv, NEW now \in [Pins -> {0, 1}], TMR3_IRQHandler(now)
  PROVE  KeysInv'
<1> USE DEF KeysInv, KeysTypeOK, HistoryTypeOK
<1>0. LONGPRESS_THRES \in Nat \ {0}
  BY KeysAssumption
<1>1. y' \in [Key -> 0..255]
  <2>1. \A k \in Key : y'[k] \in 0..255
    BY OneSample
  <2> QED BY <2>1 DEF TMR3_IRQHandler
<1>2. flag' \in [Key -> {0, 1}]
  <2>1. \A k \in Key : flag'[k] \in {0, 1}
    BY OneSample
  <2> QED BY <2>1 DEF TMR3_IRQHandler
<1>3. hold' \in [Key -> 0..LONGPRESS_THRES]
  <2>1. \A k \in Key : Capped(hold[k] + 1, LONGPRESS_THRES) \in 0..LONGPRESS_THRES
    BY <1>0 DEF Capped
  <2> QED BY <1>0, <2>1 DEF TMR3_IRQHandler
<1>4. is_longpress' \in [Key -> {0, 1}]
  BY DEF TMR3_IRQHandler
<1>5. onePending' \in [Key -> BOOLEAN] /\ longPending' \in [Key -> BOOLEAN]
  BY DEF TMR3_IRQHandler
<1>6. event' \in BOOLEAN /\ unheard' \in BOOLEAN
  BY DEF TMR3_IRQHandler
<1>7. UNCHANGED <<phase, at, last, count, hands>>
  BY DEF TMR3_IRQHandler, aux
<1>8. owed' \in [Key -> SUBSET {"short", "long"}]
  BY DEF TMR3_IRQHandler
<1>9. level' \in [Pins -> {0, 1}]
  BY DEF TMR3_IRQHandler
<1>10. steady' \in [Pins -> 1..Settling]
  <2>1. \A p \in Pins : Capped(steady[p] + 1, Settling) \in 1..Settling
    BY DEF Capped, Settling
  <2> QED BY <2>1 DEF TMR3_IRQHandler, Settling
<1>11. since' \in [Key -> 1..Settling]
  <2>1. \A k \in Key : Capped(since[k] + 1, Settling) \in 1..Settling
    BY DEF Capped, Settling
  <2> QED BY <2>1 DEF TMR3_IRQHandler, Settling
<1>12. pressed' \in [Key -> BOOLEAN]
  BY DEF TMR3_IRQHandler
<1>13. told' \in [Key -> 0..2]
  <2>1. \A n \in 0..2 : Capped(n, 2) \in 0..2 /\ Capped(n + 1, 2) \in 0..2
                        /\ Capped(n + 0, 2) \in 0..2
    BY DEF Capped
  <2>2. ASSUME NEW k \in Key, NEW b \in {0, 1}, NEW c \in {0, told[k]}
        PROVE  Capped(c + b, 2) \in 0..2
    BY <2>1
  <2> QED BY <2>2 DEF TMR3_IRQHandler
<1>14. waited' \in [Key -> 0..PressSpan]
  <2>1. \A k \in Key : Capped(waited[k] + 1, PressSpan) \in 0..PressSpan
    BY DEF Capped, PressSpan
  <2> QED BY <2>1 DEF TMR3_IRQHandler, PressSpan
<1> QED BY <1>1, <1>2, <1>3, <1>4, <1>5, <1>6, <1>7, <1>8, <1>9, <1>10, <1>11, <1>12, <1>13, <1>14

\* The loop goes on with a key that exists.
LEMMA AfterLongInLoop == KeysInv => AfterLong \in Loop
<1> SUFFICES ASSUME KeysInv PROVE AfterLong \in Loop
  OBVIOUS
<1>1. KEY_INDEX \in Nat \ {0} /\ at.key \in Key
  BY KeysAssumption DEF KeysInv, KeysTypeOK, Loop
<1>2. at.key # KEY_INDEX => at.key + 1 \in Key
  BY <1>1 DEF Key
<1>3. 1 \in Key
  BY <1>1 DEF Key
<1> QED BY <1>2, <1>3 DEF AfterLong, Away, Loop

LEMMA AuxTypes ==
  ASSUME KeysInv, NEW raw \in Raws, auxbtn_task(raw)
  PROVE  last' \in {"none", "key3", "key4"} /\ count' \in 0..(DEBOUNCE_THRES + 1)
<1> DEFINE curr == classify(raw)
<1>1. auxbtn_poll(curr)
  BY DEF auxbtn_task
<1>2. curr \in {"none", "key3", "key4", "undefined"}
  BY DEF classify
<1>3. last \in {"none", "key3", "key4"} /\ count \in 0..6
  BY DEF KeysInv, KeysTypeOK, DEBOUNCE_THRES
<1>4. Capped(count + 1, 6) \in 0..6
  BY <1>3 DEF Capped
<1> HIDE DEF curr
<1>5. last' \in {"none", "key3", "key4"}
  BY <1>1, <1>2, <1>3 DEF auxbtn_poll
<1>6. count' \in {0, 1, Capped(count + 1, 6)}
  BY <1>1 DEF auxbtn_poll, DEBOUNCE_THRES
<1> QED BY <1>4, <1>5, <1>6 DEF DEBOUNCE_THRES

LEMMA KeysTypeStep == KeysInv /\ [keysNext]_keysVars => KeysInv'
<1> SUFFICES ASSUME KeysInv, [keysNext]_keysVars PROVE KeysInv'
  OBVIOUS
<1>0. KEY_INDEX \in Nat \ {0}
  BY KeysAssumption
<1>1. ASSUME NEW now \in [Pins -> {0, 1}], TMR3_IRQHandler(now) PROVE KeysInv'
  BY <1>1, IrqTypes
<1>2. CASE btn_task
  <2>1. at' \in Loop
    BY <1>0, <1>2 DEF btn_task, Entered, Loop, Key
  <2> QED BY <1>2, <2>1 DEF btn_task, KeysInv, KeysTypeOK, HistoryTypeOK, timer, aux, history
<1>3. CASE TakeOne
  <2>1. at' \in Loop
    BY <1>3 DEF TakeOne, Loop, KeysInv, KeysTypeOK
  <2>2. owed' \in [Key -> SUBSET {"short", "long"}]
    BY <1>3 DEF TakeOne, KeysInv, KeysTypeOK
  <2>3. onePending' \in [Key -> BOOLEAN]
    BY <1>3 DEF TakeOne, KeysInv, KeysTypeOK
  <2> QED BY <1>3, <2>1, <2>2, <2>3
          DEF TakeOne, KeysInv, KeysTypeOK, HistoryTypeOK, timer, aux, history
<1>4. CASE TakeLong
  <2>1. at' \in Loop
    BY <1>4, AfterLongInLoop DEF TakeLong
  <2>2. owed' \in [Key -> SUBSET {"short", "long"}]
    BY <1>4 DEF TakeLong, KeysInv, KeysTypeOK
  <2>3. longPending' \in [Key -> BOOLEAN]
    BY <1>4 DEF TakeLong, KeysInv, KeysTypeOK
  <2> QED BY <1>4, <2>1, <2>2, <2>3
          DEF TakeLong, KeysInv, KeysTypeOK, HistoryTypeOK, timer, aux, history
<1>5. ASSUME NEW raw \in Raws, auxbtn_task(raw) PROVE KeysInv'
  BY <1>5, AuxTypes DEF auxbtn_task, KeysInv, KeysTypeOK, HistoryTypeOK, timer, calls, history
<1>6. CASE UNCHANGED keysVars
  BY <1>6 DEF keysVars, KeysInv, KeysTypeOK, HistoryTypeOK, timer, calls, aux, history
<1>7. CASE disp_charging
  <2>0. at' = at \/ Entered
    BY <1>7 DEF disp_charging
  <2>1. at' \in Loop
    <3>1. 1 \in Key /\ at \in Loop
      BY <1>0 DEF Key, KeysInv, KeysTypeOK
    <3>2. Entered => at' \in Loop
      BY <3>1 DEF Entered, Loop
    <3> QED BY <2>0, <3>1, <3>2
  <2>2. phase' \in {"charging", "starting", "loop"} /\ unheard' \in BOOLEAN
    BY <1>7 DEF disp_charging, KeysInv, KeysTypeOK
  <2> QED BY <1>7, <2>1, <2>2
          DEF disp_charging, KeysInv, KeysTypeOK, HistoryTypeOK, timer, aux, history
<1>8. CASE btn_init_task
  BY <1>8 DEF btn_init_task, KeysInv, KeysTypeOK, HistoryTypeOK, timer, calls, aux, history
<1> QED BY <1>1, <1>2, <1>3, <1>4, <1>5, <1>6, <1>7, <1>8 DEF keysNext

-----------------------------------------------------------------------------
(* The filter.                                                             *)

\* What the steps other than the interrupt leave alone.
LEMMA OnlyIrqSamples ==
  ASSUME [keysNext]_keysVars, ~\E now \in [Pins -> {0, 1}] : TMR3_IRQHandler(now)
  PROVE  UNCHANGED <<y, flag, hold, is_longpress, level, steady, since, pressed, told>>
  BY DEF keysNext, keysVars, disp_charging, btn_init_task, btn_task, TakeOne, TakeLong, auxbtn_task,
         timer, history

LEMMA FarStep ==
  ASSUME KeysInv, FarFromTurning, NEW now \in [Pins -> {0, 1}], TMR3_IRQHandler(now)
  PROVE  /\ FarFromTurning'
         /\ \A k \in Key : flag'[k] # flag[k] => since[k] >= 5
<1> SUFFICES ASSUME NEW k \in Key
    PROVE  /\ flag'[k] = 1 =>
              /\ since'[k] = 1 => y'[k] >= 201
              /\ since'[k] = 2 => y'[k] >= 151
              /\ since'[k] = 3 => y'[k] >= 114
              /\ since'[k] = 4 => y'[k] >= 86
           /\ flag'[k] = 0 =>
              /\ since'[k] = 1 => y'[k] <= 54
              /\ since'[k] = 2 => y'[k] <= 104
              /\ since'[k] = 3 => y'[k] <= 141
              /\ since'[k] = 4 => y'[k] <= 169
           /\ flag'[k] # flag[k] => since[k] >= 5
  BY DEF FarFromTurning
<1>1. /\ y[k] \in 0..255 /\ y'[k] \in 0..255 /\ now[Pin[k]] \in {0, 1}
      /\ flag[k] \in {0, 1} /\ flag'[k] \in {0, 1} /\ since[k] \in 1..6
  BY OneSample, PinOfKey DEF KeysInv, KeysTypeOK, HistoryTypeOK, Settling
<1>v. PICK v \in 0..255 : v = y[k]
  BY <1>1
<1>w. PICK w \in 0..255 : w = y'[k]
  BY <1>1
<1>p. PICK p \in {0, 1} : p = now[Pin[k]]
  BY <1>1
<1>f. PICK f \in {0, 1} : f = flag[k]
  BY <1>1
<1>g. PICK g \in {0, 1} : g = flag'[k]
  BY <1>1
<1>n. PICK n \in 1..6 : n = since[k]
  BY <1>1
<1>2. w = Filtered(v, p) /\ g = Trigger(w, f)
      /\ since'[k] = IF g = f THEN Capped(n + 1, 6) ELSE 1
  BY <1>v, <1>w, <1>p, <1>f, <1>g, <1>n, OneSample DEF Settling
<1>3. 4 * w >= 3 * v /\ 4 * w <= 3 * v + 255
  BY <1>2, FilterSteps
<1>4. /\ f = 1 => /\ n = 1 => v >= 201
                  /\ n = 2 => v >= 151
                  /\ n = 3 => v >= 114
                  /\ n = 4 => v >= 86
      /\ f = 0 => /\ n = 1 => v <= 54
                  /\ n = 2 => v <= 104
                  /\ n = 3 => v <= 141
                  /\ n = 4 => v <= 169
  BY <1>v, <1>w, <1>p, <1>f, <1>g, <1>n DEF FarFromTurning
<1>5. g = IF f = 0 /\ w > 200 THEN 1 ELSE IF f = 1 /\ w < 55 THEN 0 ELSE f
  BY <1>2 DEF Trigger, DEBOUNCE_HIGH_THRES, DEBOUNCE_LOW_THRES
<1>6. since'[k] = IF g = f THEN (IF n + 1 < 6 THEN n + 1 ELSE 6) ELSE 1
  BY <1>2 DEF Capped
<1> HIDE DEF FarFromTurning
<1> QED BY <1>v, <1>w, <1>p, <1>f, <1>g, <1>n, <1>3, <1>4, <1>5, <1>6

LEMMA FollowStep ==
  ASSUME KeysInv, FollowsLevel, NEW now \in [Pins -> {0, 1}], TMR3_IRQHandler(now)
  PROVE  FollowsLevel'
<1> SUFFICES ASSUME NEW k \in Key
    PROVE  FilterFollows(y'[k], flag'[k], level'[Pin[k]], steady'[Pin[k]])
  BY DEF FollowsLevel
<1>1. /\ y[k] \in 0..255 /\ y'[k] \in 0..255 /\ now[Pin[k]] \in {0, 1}
      /\ level[Pin[k]] \in {0, 1} /\ flag[k] \in {0, 1} /\ flag'[k] \in {0, 1}
      /\ steady[Pin[k]] \in 1..6
  BY OneSample, PinOfKey DEF KeysInv, KeysTypeOK, HistoryTypeOK, Settling
<1>v. PICK v \in 0..255 : v = y[k]
  BY <1>1
<1>w. PICK w \in 0..255 : w = y'[k]
  BY <1>1
<1>p. PICK p \in {0, 1} : p = now[Pin[k]]
  BY <1>1
<1>q. PICK q \in {0, 1} : q = level[Pin[k]]
  BY <1>1
<1>f. PICK f \in {0, 1} : f = flag[k]
  BY <1>1
<1>g. PICK g \in {0, 1} : g = flag'[k]
  BY <1>1
<1>n. PICK n \in 1..6 : n = steady[Pin[k]]
  BY <1>1
<1>2. /\ w = Filtered(v, p) /\ g = Trigger(w, f) /\ level'[Pin[k]] = p
      /\ steady'[Pin[k]] = IF p = q THEN Capped(n + 1, 6) ELSE 1
  BY <1>v, <1>w, <1>p, <1>q, <1>f, <1>g, <1>n, OneSample DEF Settling
<1>3. /\ p = 1 => 4 * w >= 3 * v + 252
      /\ p = 0 => 4 * w <= 3 * v + 3
  BY <1>2, FilterSteps
<1>4. g = IF f = 0 /\ w > 200 THEN 1 ELSE IF f = 1 /\ w < 55 THEN 0 ELSE f
  BY <1>2 DEF Trigger, DEBOUNCE_HIGH_THRES, DEBOUNCE_LOW_THRES
<1>5. steady'[Pin[k]] = IF p = q THEN (IF n + 1 < 6 THEN n + 1 ELSE 6) ELSE 1
  BY <1>2 DEF Capped
<1>6. FilterFollows(v, f, q, n)
  BY <1>v, <1>w, <1>p, <1>q, <1>f, <1>g, <1>n DEF FollowsLevel
<1>7. FilterFollows(w, g, p, IF p = q THEN (IF n + 1 < 6 THEN n + 1 ELSE 6) ELSE 1)
  <2>1. CASE p = 1
    BY <1>3, <1>4, <1>6, <2>1 DEF FilterFollows
  <2>2. CASE p = 0
    BY <1>3, <1>4, <1>6, <2>2 DEF FilterFollows
  <2> QED BY <2>1, <2>2
<1> QED BY <1>v, <1>w, <1>p, <1>q, <1>f, <1>g, <1>n, <1>2, <1>5, <1>7

FilterInv == KeysInv /\ FarFromTurning /\ FollowsLevel

LEMMA FilterInit == keysInit => FilterInv
<1> SUFFICES ASSUME keysInit PROVE FilterInv
  OBVIOUS
<1>1. FarFromTurning
  BY DEF keysInit, FarFromTurning, Settling
<1>2. FollowsLevel
  BY PinOfKey DEF keysInit, FollowsLevel, FilterFollows, Settling
<1> QED BY <1>1, <1>2, KeysTypeInit DEF FilterInv

LEMMA FilterStep == FilterInv /\ [keysNext]_keysVars => FilterInv'
<1> SUFFICES ASSUME FilterInv, [keysNext]_keysVars PROVE FilterInv'
  OBVIOUS
<1>1. KeysInv'
  BY KeysTypeStep DEF FilterInv
<1>2. CASE \E now \in [Pins -> {0, 1}] : TMR3_IRQHandler(now)
  BY <1>1, <1>2, FarStep, FollowStep DEF FilterInv
<1>3. CASE ~\E now \in [Pins -> {0, 1}] : TMR3_IRQHandler(now)
  BY <1>1, <1>3, OnlyIrqSamples DEF FilterInv, FarFromTurning, FollowsLevel
<1> QED BY <1>2, <1>3

LEMMA FilterShows ==
  ASSUME FilterInv, FilterInv', [keysNext]_keysVars, NEW k \in Key
  PROVE  /\ flag'[k] # flag[k] => since[k] >= 5
         /\ steady'[Pin[k]] = Settling => flag'[k] = level'[Pin[k]]
<1>1. flag'[k] # flag[k] => since[k] >= 5
  <2>1. CASE \E now \in [Pins -> {0, 1}] : TMR3_IRQHandler(now)
    BY <2>1, FarStep DEF FilterInv
  <2>2. CASE ~\E now \in [Pins -> {0, 1}] : TMR3_IRQHandler(now)
    BY <2>2, OnlyIrqSamples
  <2> QED BY <2>1, <2>2
<1>2. FilterFollows(y'[k], flag'[k], level'[Pin[k]], steady'[Pin[k]])
      /\ level'[Pin[k]] \in {0, 1}
  BY PinOfKey DEF FilterInv, FollowsLevel, KeysInv, HistoryTypeOK
<1>3. steady'[Pin[k]] = Settling => flag'[k] = level'[Pin[k]]
  BY <1>2 DEF FilterFollows, Settling
<1> QED BY <1>1, <1>3

\* The filter gives way to no bouncing contact and follows every level that lasts,
\* from whatever its value was (button.c:83-99).
THEOREM DebouncedHolds == keysSpec => Debounced
<1>1. FilterInv /\ FilterInv' /\ [keysNext]_keysVars =>
        [\A k \in Key :
           /\ flag'[k] # flag[k] => since[k] >= 5
           /\ steady'[Pin[k]] = Settling => flag'[k] = level'[Pin[k]]]_keysVars
  BY FilterShows
<1> QED BY <1>1, FilterInit, FilterStep, PTL DEF keysSpec, Debounced

-----------------------------------------------------------------------------
(* btn_tick and the interrupt.                                             *)

LEMMA ForgetStep ==
  ASSUME KeysInv, NothingForgotten, [keysNext]_keysVars
  PROVE  NothingForgotten'
<1> SUFFICES ASSUME NEW k \in Key
    PROVE  /\ "short" \in owed'[k] => onePending'[k] /\ (unheard' \/ Ahead(k, "short")')
           /\ "long" \in owed'[k] => longPending'[k] /\ (unheard' \/ Ahead(k, "long")')
  BY DEF NothingForgotten
<1>0. /\ "short" \in owed[k] => onePending[k] /\ (unheard \/ Ahead(k, "short"))
      /\ "long" \in owed[k] => longPending[k] /\ (unheard \/ Ahead(k, "long"))
      /\ at \in Loop /\ k \in Key /\ KEY_INDEX \in Nat \ {0}
      /\ onePending \in [Key -> BOOLEAN] /\ longPending \in [Key -> BOOLEAN]
      /\ owed \in [Key -> SUBSET {"short", "long"}]
  BY KeysAssumption DEF NothingForgotten, KeysInv, KeysTypeOK
<1>1. ASSUME NEW now \in [Pins -> {0, 1}], TMR3_IRQHandler(now)
      PROVE  /\ "short" \in owed'[k] => onePending'[k] /\ (unheard' \/ Ahead(k, "short")')
             /\ "long" \in owed'[k] => longPending'[k] /\ (unheard' \/ Ahead(k, "long")')
  <2> DEFINE short == flag'[k] # 1 /\ EndsShort(k)
             long == flag'[k] = 1 /\ TurnsLong(k)
  <2>1. /\ onePending'[k] = (short \/ onePending[k])
        /\ longPending'[k] = (long \/ longPending[k])
        /\ owed'[k] = owed[k] \cup (IF short THEN {"short"} ELSE {})
                              \cup (IF long THEN {"long"} ELSE {})
        /\ (short \/ long => event' \/ unheard')
    BY <1>1, OnePress, Zenon
  <2>2. at' = at /\ (event => event') /\ (unheard => unheard' \/ event')
    BY <1>1, Zenon DEF TMR3_IRQHandler
  <2> HIDE DEF short, long
  <2>3. "short" \in owed'[k] => "short" \in owed[k] \/ short
    BY <2>1
  <2>4. "long" \in owed'[k] => "long" \in owed[k] \/ long
    BY <2>1
  <2>5. Ahead(k, "short") => Ahead(k, "short")'
    BY <2>2 DEF Ahead
  <2>6. Ahead(k, "long") => Ahead(k, "long")'
    BY <2>2 DEF Ahead
  <2>7. event' => Ahead(k, "short")' /\ Ahead(k, "long")'
    BY DEF Ahead
  <2>8. "short" \in owed'[k] => onePending'[k] /\ (unheard' \/ Ahead(k, "short")')
    BY <1>0, <2>1, <2>2, <2>3, <2>5, <2>7, Zenon
  <2>9. "long" \in owed'[k] => longPending'[k] /\ (unheard' \/ Ahead(k, "long")')
    BY <1>0, <2>1, <2>2, <2>4, <2>6, <2>7, Zenon
  <2> QED BY <2>8, <2>9
<1>2. CASE btn_task
  <2>1. owed' = owed /\ onePending' = onePending /\ longPending' = longPending
    BY <1>2 DEF btn_task
  <2>2. Ahead(k, "short")' /\ Ahead(k, "long")'
    BY <1>0, <1>2 DEF btn_task, Entered, Ahead, Key
  <2> QED BY <1>0, <2>1, <2>2
<1>3. CASE TakeOne
  <2>1. /\ at.in /\ at.after = "one" /\ at'.in /\ at'.key = at.key /\ at'.after = "long"
        /\ event' = event /\ unheard' = unheard /\ longPending' = longPending
    BY <1>0, <1>3 DEF TakeOne, Loop
  <2>2. CASE k = at.key
    <3>1. "short" \notin owed'[k] /\ ("long" \in owed'[k] => "long" \in owed[k])
      BY <1>0, <1>3, <2>2 DEF TakeOne
    <3> QED BY <1>0, <2>1, <2>2, <3>1 DEF Ahead
  <2>3. CASE k # at.key
    <3>1. owed'[k] = owed[k] /\ onePending'[k] = onePending[k]
      BY <1>0, <1>3, <2>3 DEF TakeOne
    <3> QED BY <1>0, <2>1, <2>3, <3>1 DEF Ahead
  <2> QED BY <2>2, <2>3
<1>4. CASE TakeLong
  <2>1. /\ at.in /\ at.after = "long" /\ event' = event /\ unheard' = unheard /\ onePending' = onePending
        /\ at.key # KEY_INDEX => at'.in /\ at'.key = at.key + 1 /\ at'.after = "one"
    BY <1>0, <1>4 DEF TakeLong, Loop, AfterLong
  <2>2. at.key \in 1..KEY_INDEX /\ k \in 1..KEY_INDEX
    BY <1>0 DEF Loop, Key
  <2>3. CASE k = at.key
    <3>1. "long" \notin owed'[k] /\ ("short" \in owed'[k] => "short" \in owed[k])
      BY <1>0, <1>4, <2>3 DEF TakeLong
    <3> QED BY <1>0, <2>1, <2>2, <2>3, <3>1 DEF Ahead
  <2>4. CASE k # at.key
    <3>1. owed'[k] = owed[k] /\ longPending'[k] = longPending[k]
      BY <1>0, <1>4, <2>4 DEF TakeLong
    <3> QED BY <1>0, <2>1, <2>2, <2>4, <3>1 DEF Ahead
  <2> QED BY <2>3, <2>4
<1>5. CASE UNCHANGED <<onePending, longPending, calls>>
  BY <1>0, <1>5 DEF calls, Ahead
<1>6. CASE disp_charging
  <2>1. CASE Entered
    <3>1. owed' = owed /\ onePending' = onePending /\ longPending' = longPending
      BY <1>6 DEF disp_charging
    <3>2. Ahead(k, "short")' /\ Ahead(k, "long")'
      BY <1>0, <2>1 DEF Entered, Ahead, Key
    <3> QED BY <1>0, <3>1, <3>2
  <2>2. CASE ~Entered
    BY <1>5, <1>6, <2>2 DEF disp_charging, calls
  <2> QED BY <2>1, <2>2
<1>7. CASE btn_init_task
  BY <1>5, <1>7 DEF btn_init_task
<1> QED BY <1>1, <1>2, <1>3, <1>4, <1>5, <1>6, <1>7 DEF keysNext, keysVars, auxbtn_task

\* The interrupt, btn_tick and what they share keep their types, and a press that was
\* found is pending until btn_tick comes to it: its event is set or the loop has its key
\* ahead, or it was found before btn_init_task (button.c:47-144).
THEOREM KeysSafeHolds == keysSpec => []KeysSafe
<1>1. keysInit => KeysInv /\ NothingForgotten
  <2>1. keysInit => NothingForgotten
    BY DEF keysInit, NothingForgotten
  <2> QED BY <2>1, KeysTypeInit
<1>2. KeysInv /\ NothingForgotten /\ [keysNext]_keysVars => (KeysInv /\ NothingForgotten)'
  BY KeysTypeStep, ForgetStep
<1>3. KeysInv /\ NothingForgotten => KeysSafe
  BY DEF KeysInv, KeysSafe
<1> QED BY <1>1, <1>2, <1>3, PTL DEF keysSpec

-----------------------------------------------------------------------------
(* One press, one report.                                                  *)

\* What one sample does to the counters of a key, as numbers.
LEMMA PressStep ==
  ASSUME KeysInv, PressCounted, NEW now \in [Pins -> {0, 1}], TMR3_IRQHandler(now)
  PROVE  PressCounted'
<1> SUFFICES ASSUME NEW k \in Key
    PROVE  /\ flag'[k] = 1 =>
              /\ pressed'[k] /\ hold'[k] >= 1
              /\ is_longpress'[k] = (IF hold'[k] = LONGPRESS_THRES THEN 1 ELSE 0)
              /\ told'[k] = (IF hold'[k] = LONGPRESS_THRES THEN 1 ELSE 0)
           /\ flag'[k] = 0 =>
              /\ hold'[k] = 0 /\ is_longpress'[k] = 0
              /\ told'[k] = (IF pressed'[k] THEN 1 ELSE 0)
  BY DEF PressCounted
<1>0. /\ LONGPRESS_THRES \in Nat /\ LONGPRESS_THRES >= 1
      /\ hold[k] \in 0..LONGPRESS_THRES /\ is_longpress[k] \in {0, 1}
      /\ flag[k] \in {0, 1} /\ flag'[k] \in {0, 1} /\ told[k] \in 0..2
      /\ pressed[k] \in BOOLEAN
  <2>1. KeysTypeOK /\ HistoryTypeOK
    BY DEF KeysInv
  <2>2. flag'[k] \in {0, 1}
    BY OneSample
  <2>3. /\ hold[k] \in 0..LONGPRESS_THRES /\ is_longpress[k] \in {0, 1}
        /\ flag[k] \in {0, 1}
    BY <2>1 DEF KeysTypeOK
  <2>4. told[k] \in 0..2 /\ pressed[k] \in BOOLEAN
    BY <2>1 DEF HistoryTypeOK
  <2> QED BY <2>2, <2>3, <2>4, KeysAssumption
<1>1. /\ flag[k] = 1 =>
         /\ pressed[k] /\ hold[k] >= 1
         /\ is_longpress[k] = (IF hold[k] = LONGPRESS_THRES THEN 1 ELSE 0)
         /\ told[k] = (IF hold[k] = LONGPRESS_THRES THEN 1 ELSE 0)
      /\ flag[k] = 0 =>
         /\ hold[k] = 0 /\ is_longpress[k] = 0
         /\ told[k] = (IF pressed[k] THEN 1 ELSE 0)
  BY DEF PressCounted
<1>2. CASE flag'[k] = 1
  <2>1. /\ hold'[k] = Capped(hold[k] + 1, LONGPRESS_THRES)
        /\ is_longpress'[k] = IF TurnsLong(k) THEN 1 ELSE is_longpress[k]
        /\ told'[k] = Capped((IF flag[k] = 0 THEN 0 ELSE told[k])
                               + (IF TurnsLong(k) THEN 1 ELSE 0), 2)
        /\ pressed'[k]
    <3>1. flag'[k] > flag[k] <=> flag[k] = 0
      BY <1>0, <1>2
    <3> QED BY <1>2, <3>1, OnePress
  <2>2. hold'[k] = IF hold[k] + 1 < LONGPRESS_THRES THEN hold[k] + 1 ELSE LONGPRESS_THRES
    BY <2>1 DEF Capped
  <2>3. CASE TurnsLong(k)
    <3>1. hold[k] + 1 >= LONGPRESS_THRES /\ is_longpress[k] = 0
      BY <2>3 DEF TurnsLong
    <3>2. hold'[k] = LONGPRESS_THRES /\ is_longpress'[k] = 1
      BY <1>0, <2>1, <2>2, <2>3, <3>1
    <3>3. flag[k] = 1 => told[k] = 0
      BY <1>0, <1>1, <3>1
    <3>4. told'[k] = Capped(0 + 1, 2)
      BY <1>0, <2>1, <2>3, <3>3
    <3> QED BY <1>0, <1>2, <2>1, <3>2, <3>4 DEF Capped
  <2>4. CASE ~TurnsLong(k)
    <3>1. hold[k] + 1 < LONGPRESS_THRES \/ is_longpress[k] = 1
      BY <1>0, <2>4 DEF TurnsLong
    <3>2. told'[k] = Capped((IF flag[k] = 0 THEN 0 ELSE told[k]) + 0, 2)
      BY <2>1, <2>4
    <3>3. is_longpress'[k] = is_longpress[k]
      BY <2>1, <2>4
    <3> QED BY <1>0, <1>1, <1>2, <2>1, <2>2, <3>1, <3>2, <3>3 DEF Capped
  <2> QED BY <2>3, <2>4
<1>3. CASE flag'[k] = 0
  <2>1. /\ hold'[k] = 0 /\ is_longpress'[k] = 0 /\ pressed'[k] = pressed[k]
        /\ told'[k] = Capped(told[k] + (IF EndsShort(k) THEN 1 ELSE 0), 2)
    <3>1. ~(flag'[k] > flag[k]) /\ flag'[k] # 1
      BY <1>0, <1>3
    <3> QED BY <1>0, <3>1, OnePress
  <2>2. EndsShort(k) <=> hold[k] > 0 /\ hold[k] < LONGPRESS_THRES
    BY DEF EndsShort
  <2>3. CASE flag[k] = 1
    <3>1. told[k] + (IF EndsShort(k) THEN 1 ELSE 0) = 1
      BY <1>0, <1>1, <2>2, <2>3
    <3> QED BY <1>1, <1>3, <2>1, <2>3, <3>1 DEF Capped
  <2>4. CASE flag[k] = 0
    <3>1. told[k] + (IF EndsShort(k) THEN 1 ELSE 0) = told[k]
      BY <1>0, <1>1, <2>2, <2>4
    <3> QED BY <1>0, <1>1, <1>3, <2>1, <2>4, <3>1 DEF Capped
  <2> QED BY <1>0, <2>3, <2>4
<1> QED BY <1>0, <1>2, <1>3

LEMMA AuxStep ==
  ASSUME KeysInv, AuxCounted, HeldReportedOnce, NEW raw \in Raws, auxbtn_task(raw)
  PROVE  AuxCounted' /\ HeldReportedOnce'
<1>1. PICK curr \in {"none", "key3", "key4", "undefined"} : curr = classify(raw)
  BY DEF classify
<1>2. /\ auxbtn_poll(curr) /\ auxSample' = curr
      /\ auxSteady' = IF curr = auxSample THEN Capped(auxSteady + 1, 6) ELSE 1
      /\ auxTold' = Capped((IF curr = auxSample THEN auxTold ELSE 0)
                             + (IF Reports(curr) THEN 1 ELSE 0), 2)
  BY <1>1 DEF auxbtn_task, DEBOUNCE_THRES
<1>3. /\ auxSteady \in 0..6 /\ auxTold \in 0..2 /\ count \in 0..6
  BY DEF AuxCounted, KeysInv, KeysTypeOK, DEBOUNCE_THRES
<1>4. Reports(curr) <=> curr \in {"key3", "key4"} /\ curr = last /\ count + 1 = 5
  BY DEF Reports, DEBOUNCE_THRES
<1>5. auxSteady' \in 0..6 /\ auxTold' \in 0..2
  BY <1>2, <1>3 DEF Capped
<1>6. CASE curr = "undefined"
  BY <1>2, <1>5, <1>6 DEF auxbtn_poll, AuxCounted, HeldReportedOnce, DEBOUNCE_THRES
<1>7. CASE curr = "none"
  BY <1>2, <1>5, <1>7 DEF auxbtn_poll, AuxCounted, HeldReportedOnce, DEBOUNCE_THRES
<1>8. CASE curr \in {"key3", "key4"} /\ curr = auxSample
  <2>1. last = curr /\ count = auxSteady /\ auxTold = IF auxSteady >= 5 THEN 1 ELSE 0
    BY <1>8 DEF AuxCounted, HeldReportedOnce, DEBOUNCE_THRES
  <2>2. last' = curr /\ count' = Capped(count + 1, 6)
    BY <1>2, <1>8, <2>1 DEF auxbtn_poll, DEBOUNCE_THRES
  <2>3. auxSteady' = Capped(auxSteady + 1, 6)
    BY <1>2, <1>8
  <2>4. auxTold' = Capped(auxTold + (IF auxSteady + 1 = 5 THEN 1 ELSE 0), 2)
    BY <1>2, <1>4, <1>8, <2>1
  <2>5. auxTold' = IF auxSteady' >= 5 THEN 1 ELSE 0
    BY <1>3, <2>1, <2>3, <2>4 DEF Capped
  <2> QED BY <1>2, <1>5, <1>8, <2>1, <2>2, <2>3, <2>5
          DEF AuxCounted, HeldReportedOnce, DEBOUNCE_THRES
<1>9. CASE curr \in {"key3", "key4"} /\ curr # auxSample
  <2>1. last # curr \/ count = 0
    BY <1>9 DEF AuxCounted
  <2>2. ~Reports(curr)
    BY <1>4, <2>1
  <2>3. auxTold' = 0 /\ auxSteady' = 1
    BY <1>2, <1>9, <2>2 DEF Capped
  <2>4. last' = curr /\ count' = 1
    BY <1>2, <1>9, <2>1 DEF auxbtn_poll, Capped, DEBOUNCE_THRES
  <2> QED BY <1>2, <1>5, <1>9, <2>3, <2>4 DEF AuxCounted, HeldReportedOnce, DEBOUNCE_THRES
<1> QED BY <1>6, <1>7, <1>8, <1>9

PressInv == KeysInv /\ PressCounted /\ AuxCounted /\ HeldReportedOnce

LEMMA PressInvInit == keysInit => PressInv
<1> SUFFICES ASSUME keysInit PROVE PressInv
  OBVIOUS
<1>1. LONGPRESS_THRES \in Nat /\ LONGPRESS_THRES >= 1
  BY KeysAssumption
<1>2. PressCounted
  BY <1>1 DEF keysInit, PressCounted
<1>3. AuxCounted /\ HeldReportedOnce
  BY DEF keysInit, AuxCounted, HeldReportedOnce, DEBOUNCE_THRES
<1> QED BY <1>2, <1>3, KeysTypeInit DEF PressInv

LEMMA PressInvStep == PressInv /\ [keysNext]_keysVars => PressInv'
<1> SUFFICES ASSUME PressInv, [keysNext]_keysVars PROVE PressInv'
  OBVIOUS
<1>1. KeysInv'
  BY KeysTypeStep DEF PressInv
<1>2. PressCounted'
  <2>1. CASE \E now \in [Pins -> {0, 1}] : TMR3_IRQHandler(now)
    BY <2>1, PressStep DEF PressInv
  <2>2. CASE ~\E now \in [Pins -> {0, 1}] : TMR3_IRQHandler(now)
    BY <2>2, OnlyIrqSamples DEF PressInv, PressCounted
  <2> QED BY <2>1, <2>2
<1>3. AuxCounted' /\ HeldReportedOnce'
  <2>1. CASE \E raw \in Raws : auxbtn_task(raw)
    BY <2>1, AuxStep DEF PressInv
  <2>2. CASE ~\E raw \in Raws : auxbtn_task(raw)
    <3>1. UNCHANGED aux
      BY <2>2 DEF keysNext, keysVars, TMR3_IRQHandler, disp_charging, btn_init_task, btn_task,
                  TakeOne, TakeLong
    <3> QED BY <3>1 DEF aux, PressInv, AuxCounted, HeldReportedOnce
  <2> QED BY <2>1, <2>2
<1> QED BY <1>1, <1>2, <1>3 DEF PressInv

LEMMA PressInvImplies == PressInv => PressReportedOnce
<1> SUFFICES ASSUME PressInv, NEW k \in Key
    PROVE  /\ told[k] <= 1
           /\ flag[k] = 0 /\ pressed[k] => told[k] = 1
           /\ flag[k] = 1 => (told[k] = 1) = (hold[k] = LONGPRESS_THRES)
  BY DEF PressInv, PressReportedOnce, ReportedOnce
<1>1. /\ flag[k] = 1 => told[k] = (IF hold[k] = LONGPRESS_THRES THEN 1 ELSE 0)
      /\ flag[k] = 0 => told[k] = (IF pressed[k] THEN 1 ELSE 0)
      /\ flag[k] \in {0, 1}
  BY DEF PressInv, PressCounted, KeysInv, KeysTypeOK
<1> QED BY <1>1

\* A press is reported once, as long or as short, and a voltage that stays in the range
\* of a key once (button.c:102-126, auxbtn.c:58-101).
THEOREM PressReportedOnceHolds == keysSpec => []PressReportedOnce
BY PressInvInit, PressInvStep, PressInvImplies, PTL DEF keysSpec

-----------------------------------------------------------------------------
(* Two presses, one call.                                                  *)

\* A short press waits at least as long as the filter took to turn on after it, and to
\* stay on.
WaitedLong ==
  \A k \in Key :
    "short" \in owed[k] => waited[k] >= Capped(since[k] + 5 * flag[k], PressSpan)

MergeInv == FilterInv /\ PressInv /\ WaitedLong

LEMMA WaitedStep ==
  ASSUME MergeInv, NEW now \in [Pins -> {0, 1}], TMR3_IRQHandler(now), NEW k \in Key
  PROVE  "short" \in owed'[k] => waited'[k] >= Capped(since'[k] + 5 * flag'[k], PressSpan)
<1>1. KeysInv /\ FarFromTurning /\ PressCounted
  BY DEF MergeInv, FilterInv, PressInv
<1>2. /\ flag[k] \in {0, 1} /\ flag'[k] \in {0, 1} /\ since[k] \in 1..6
      /\ waited[k] \in 0..10 /\ hold[k] \in Nat
      /\ since'[k] = IF flag'[k] = flag[k] THEN Capped(since[k] + 1, 6) ELSE 1
  BY <1>1, OneSample, KeysAssumption DEF KeysInv, KeysTypeOK, HistoryTypeOK, Settling, PressSpan
<1>3. waited'[k] = IF "short" \in owed[k] THEN Capped(waited[k] + 1, 10) ELSE 1
  BY DEF TMR3_IRQHandler, PressSpan
<1>4. flag'[k] # flag[k] => since[k] >= 5
  BY <1>1, FarStep
<1>5. CASE "short" \in owed[k]
  <2>1. waited[k] >= Capped(since[k] + 5 * flag[k], 10)
    BY <1>5 DEF MergeInv, WaitedLong, PressSpan
  <2>2. CASE flag[k] = 0
    BY <1>2, <1>3, <1>4, <1>5, <2>1, <2>2 DEF Capped, PressSpan
  <2>3. CASE flag[k] = 1
    BY <1>2, <1>3, <1>4, <1>5, <2>1, <2>3 DEF Capped, PressSpan
  <2> QED BY <1>2, <2>2, <2>3
<1>6. CASE "short" \notin owed[k]
  <2>1. "short" \in owed'[k] => flag'[k] # 1 /\ EndsShort(k)
    BY <1>1, <1>6, OnePress
  <2>2. EndsShort(k) => flag[k] = 1
    BY <1>1, <1>2 DEF EndsShort, PressCounted
  <2> QED BY <1>2, <1>3, <1>6, <2>1, <2>2 DEF Capped, PressSpan
<1> QED BY <1>5, <1>6

\* What the steps other than the interrupt do to a press that waits.
LEMMA OnlyIrqWaits ==
  ASSUME [keysNext]_keysVars, ~\E now \in [Pins -> {0, 1}] : TMR3_IRQHandler(now),
         KeysInv, NEW k \in Key
  PROVE  waited' = waited /\ ("short" \in owed'[k] => "short" \in owed[k])
<1>1. waited' = waited
  BY DEF keysNext, keysVars, disp_charging, btn_init_task, btn_task, TakeOne, TakeLong, auxbtn_task
<1>2. owed \in [Key -> SUBSET {"short", "long"}] /\ at.key \in Key
  BY DEF KeysInv, KeysTypeOK, Loop
<1>3. CASE TakeOne
  BY <1>2, <1>3 DEF TakeOne
<1>4. CASE TakeLong
  BY <1>2, <1>4 DEF TakeLong
<1>5. CASE ~TakeOne /\ ~TakeLong
  <2>1. \/ disp_charging \/ btn_init_task \/ btn_task \/ UNCHANGED keysVars
        \/ \E raw \in Raws : auxbtn_task(raw)
    BY <1>5 DEF keysNext
  <2>2. disp_charging \/ btn_task => owed' = owed
    BY Zenon DEF disp_charging, btn_task
  <2>3. UNCHANGED keysVars \/ btn_init_task => owed' = owed
    BY DEF keysVars, calls, btn_init_task
  <2>4. ASSUME NEW raw \in Raws, auxbtn_task(raw) PROVE owed' = owed
    <3>1. UNCHANGED calls
      BY <2>4, Zenon DEF auxbtn_task
    <3> QED BY <3>1 DEF calls
  <2>5. owed' = owed
    BY <2>1, <2>2, <2>3, <2>4
  <2> QED BY <1>1, <2>5
<1> QED BY <1>1, <1>3, <1>4, <1>5

LEMMA MergeInit == keysInit => MergeInv
<1>1. keysInit => WaitedLong
  BY DEF keysInit, WaitedLong
<1> QED BY <1>1, FilterInit, PressInvInit DEF MergeInv

LEMMA MergeStep == MergeInv /\ [keysNext]_keysVars => MergeInv'
<1> SUFFICES ASSUME MergeInv, [keysNext]_keysVars PROVE MergeInv'
  OBVIOUS
<1>1. FilterInv' /\ PressInv'
  BY FilterStep, PressInvStep DEF MergeInv
<1>2. WaitedLong'
  <2>1. CASE \E now \in [Pins -> {0, 1}] : TMR3_IRQHandler(now)
    BY <2>1, WaitedStep DEF WaitedLong
  <2>2. CASE ~\E now \in [Pins -> {0, 1}] : TMR3_IRQHandler(now)
    BY <2>2, OnlyIrqSamples, OnlyIrqWaits DEF MergeInv, PressInv, WaitedLong
  <2> QED BY <2>1, <2>2
<1> QED BY <1>1, <1>2 DEF MergeInv

LEMMA MergeShows ==
  ASSUME MergeInv, [keysNext]_keysVars, NEW k \in Key
  PROVE  flag[k] = 1 /\ flag'[k] = 0 /\ EndsShort(k) /\ "short" \in owed[k] => waited[k] = PressSpan
<1>1. SUFFICES ASSUME flag[k] = 1, flag'[k] = 0, "short" \in owed[k] PROVE waited[k] = PressSpan
  OBVIOUS
<1>2. PICK now \in [Pins -> {0, 1}] : TMR3_IRQHandler(now)
  BY <1>1, OnlyIrqSamples
<1>3. since[k] >= 5
  BY <1>1, <1>2, FarStep DEF MergeInv, FilterInv
<1>4. since[k] \in 1..6 /\ waited[k] \in 0..10
  BY DEF MergeInv, PressInv, KeysInv, KeysTypeOK, HistoryTypeOK, Settling, PressSpan
<1>5. waited[k] >= Capped(since[k] + 5, 10)
  BY <1>1, <1>4 DEF MergeInv, WaitedLong, PressSpan
<1> QED BY <1>3, <1>4, <1>5 DEF Capped, PressSpan

\* Two short presses share one call only when the first has waited for ten samples
\* (button.c:83-125).
THEOREM MergedOnlyLateHolds == keysSpec => MergedOnlyLate
<1>1. MergeInv /\ [keysNext]_keysVars =>
        [\A k \in Key :
           flag[k] = 1 /\ flag'[k] = 0 /\ EndsShort(k) /\ "short" \in owed[k]
             => waited[k] = PressSpan]_keysVars
  BY MergeShows
<1> QED BY <1>1, MergeInit, MergeStep, PTL DEF keysSpec, MergedOnlyLate

-----------------------------------------------------------------------------
(* Snake, for every board, every greatest length and whatever the display     *)
(* showed before.                                                             *)

SnakeInv == SnakeSafe /\ dark \subseteq Body

LEMMA SnakeSizes ==
  /\ SnakeCols \in Nat /\ SnakeCols >= 1 /\ SnakeRows \in Nat /\ SnakeRows >= 1
  /\ SNAKE_MAX_LEN \in Nat /\ SNAKE_MAX_LEN >= 1
  /\ Start \in SnakeBoard
  /\ SPEED_INITIAL_MS \in Nat /\ SPEED_MIN_MS \in Nat /\ SPEED_STEP_MS \in Nat
  /\ SPEED_STEP_MS <= SPEED_MIN_MS
<1>1. SnakeCols \in Nat /\ SnakeCols >= 1 /\ SnakeRows \in Nat /\ SnakeRows >= 1
  BY SnakeAssumption
<1>2. SnakeCols \div 2 \in 0..SnakeCols - 1 /\ SnakeRows \div 2 \in 0..SnakeRows - 1
  BY <1>1
<1>3. Start \in SnakeBoard
  BY <1>2 DEF Start, SnakeBoard, Box
<1> QED BY <1>1, <1>3, SnakeAssumption

LEMMA Directions ==
  ASSUME SnakeTypeOK
  PROVE  Committed \in Direction /\ (cur_dir + 3) % 4 \in Direction
         /\ (cur_dir + 1) % 4 \in Direction
  BY DEF SnakeTypeOK, Committed, Direction

\* The cell ahead is next to the head, and so is not the head.
LEMMA CellAhead ==
  ASSUME SnakeTypeOK, Playing
  PROVE  /\ Len(snake) \in Nat /\ Len(snake) >= 1 /\ DOMAIN snake = 1..Len(snake)
         /\ \A s \in 1..Len(snake) : snake[s] \in SnakeBoard
         /\ Neighbours(NewHead, snake[1]) /\ NewHead # snake[1]
<1>1. /\ Len(snake) \in Nat /\ Len(snake) >= 1 /\ DOMAIN snake = 1..Len(snake)
      /\ \A s \in 1..Len(snake) : snake[s] \in SnakeBoard
  BY DEF SnakeTypeOK, Playing
<1>2. PICK x \in Int, at_y \in Int : snake[1] = <<x, at_y>>
  BY <1>1, SnakeSizes DEF SnakeBoard, Box
<1>3. NewHead \in {<<x, at_y - 1>>, <<x, at_y + 1>>, <<x - 1, at_y>>, <<x + 1, at_y>>}
  BY <1>2 DEF NewHead
<1>4. Neighbours(NewHead, snake[1]) /\ NewHead # snake[1]
  BY <1>2, <1>3 DEF Neighbours
<1> QED BY <1>1, <1>4

\* The cell ahead is free when nothing is hit.
LEMMA FreeAhead ==
  ASSUME SnakeTypeOK, Playing, ~check_collision(snake, NewHead)
  PROVE  NewHead \in SnakeBoard /\ NewHead \notin Body
  BY CellAhead DEF check_collision, Body

\* The snake one cell on, and one cell longer.
LEMMA OneCellOn ==
  ASSUME SnakeTypeOK, Playing, NewHead \in SnakeBoard
  PROVE  /\ Shifted \in Seq(SnakeBoard) /\ Len(Shifted) = Len(snake)
         /\ Shifted[1] = NewHead
         /\ \A s \in 2..Len(snake) : Shifted[s] = snake[s - 1]
         /\ Grown \in Seq(SnakeBoard) /\ Len(Grown) = Len(snake) + 1
         /\ Grown[1] = NewHead
         /\ \A s \in 2..Len(snake) + 1 : Grown[s] = snake[s - 1]
<1>1. /\ Len(snake) \in Nat /\ Len(snake) >= 1
      /\ \A s \in 1..Len(snake) : snake[s] \in SnakeBoard
  BY CellAhead
<1>2. Shifted \in [1..Len(snake) -> SnakeBoard]
  BY <1>1 DEF Shifted
<1>3. Shifted \in Seq(SnakeBoard) /\ Len(Shifted) = Len(snake)
  BY <1>1, <1>2
<1>4. Shifted[1] = NewHead /\ \A s \in 2..Len(snake) : Shifted[s] = snake[s - 1]
  BY <1>1 DEF Shifted
<1>5. OldTail \in SnakeBoard
  BY <1>1 DEF OldTail
<1>6. /\ Grown \in Seq(SnakeBoard) /\ Len(Grown) = Len(snake) + 1
      /\ \A s \in 1..Len(snake) : Grown[s] = Shifted[s]
      /\ Grown[Len(snake) + 1] = OldTail
  BY <1>1, <1>3, <1>5 DEF Grown
<1>7. \A s \in 2..Len(snake) + 1 : Grown[s] = snake[s - 1]
  BY <1>1, <1>4, <1>6 DEF OldTail
<1> QED BY <1>1, <1>3, <1>4, <1>6, <1>7

\* What a move makes of the cells: the head gains one, and the tail loses one unless
\* the snake grows.
LEMMA MovedCells ==
  ASSUME SnakeTypeOK, SnakeIntact, Playing, ~check_collision(snake, NewHead)
  PROVE  /\ Moved \in Seq(SnakeBoard) /\ Len(Moved) \in 1..SNAKE_MAX_LEN
         /\ \A s, j \in 1..Len(Moved) : s # j => Moved[s] # Moved[j]
         /\ \A s \in 1..Len(Moved) - 1 : Neighbours(Moved[s], Moved[s + 1])
         /\ DOMAIN Moved = 1..Len(Moved)
         /\ Len(Moved) \in {Len(snake), Len(snake) + 1}
         /\ Ate /\ Len(Moved) < SNAKE_MAX_LEN =>
              {Moved[s] : s \in DOMAIN Moved} = Body \cup {NewHead}
         /\ ~Ate => {Moved[s] : s \in DOMAIN Moved} = (Body \ {OldTail}) \cup {NewHead}
<1>1. PICK n \in Nat : n = Len(snake) /\ n >= 1
  BY CellAhead
<1>2. PICK m \in Seq(SnakeBoard) : m = Moved
  BY FreeAhead, OneCellOn DEF Moved
<1>3. PICK k \in {n, n + 1} : k = Len(m)
  BY <1>1, <1>2, FreeAhead, OneCellOn DEF Moved
<1>4. k <= SNAKE_MAX_LEN
  <2>1. CASE Ate /\ Len(snake) < SNAKE_MAX_LEN
    BY <1>1, <1>3, <2>1, SnakeSizes
  <2>2. CASE ~(Ate /\ Len(snake) < SNAKE_MAX_LEN)
    <3>1. m = Shifted
      BY <1>2, <2>2 DEF Moved
    <3> QED BY <1>1, <1>3, <3>1, FreeAhead, OneCellOn DEF SnakeTypeOK
  <2> QED BY <2>1, <2>2
<1>5. m[1] = NewHead /\ \A s \in 2..k : m[s] = snake[s - 1]
  BY <1>1, <1>2, <1>3, FreeAhead, OneCellOn DEF Moved
<1>6. /\ \A s \in 1..n : snake[s] # NewHead
      /\ \A s, j \in 1..n : s # j => snake[s] # snake[j]
      /\ \A s \in 1..n - 1 : Neighbours(snake[s], snake[s + 1])
      /\ Neighbours(NewHead, snake[1])
      /\ DOMAIN snake = 1..n
  BY <1>1, CellAhead, FreeAhead DEF SnakeIntact, Body
<1>7. \A s, j \in 1..k : s # j => m[s] # m[j]
  <2> SUFFICES ASSUME NEW s \in 1..k, NEW j \in 1..k, s # j PROVE m[s] # m[j]
    OBVIOUS
  <2>1. CASE s = 1
    <3>1. j - 1 \in 1..n /\ m[j] = snake[j - 1]
      BY <1>1, <1>3, <1>5, <2>1
    <3> QED BY <1>5, <1>6, <2>1, <3>1
  <2>2. CASE j = 1
    <3>1. s - 1 \in 1..n /\ m[s] = snake[s - 1]
      BY <1>1, <1>3, <1>5, <2>2
    <3> QED BY <1>5, <1>6, <2>2, <3>1
  <2>3. CASE s # 1 /\ j # 1
    <3>1. /\ s - 1 \in 1..n /\ m[s] = snake[s - 1]
          /\ j - 1 \in 1..n /\ m[j] = snake[j - 1] /\ s - 1 # j - 1
      BY <1>1, <1>3, <1>5, <2>3
    <3> QED BY <1>6, <3>1
  <2> QED BY <2>1, <2>2, <2>3
<1>8. \A s \in 1..k - 1 : Neighbours(m[s], m[s + 1])
  <2> SUFFICES ASSUME NEW s \in 1..k - 1 PROVE Neighbours(m[s], m[s + 1])
    OBVIOUS
  <2>1. CASE s = 1
    <3>1. m[2] = snake[1]
      BY <1>1, <1>3, <1>5, <2>1
    <3> QED BY <1>5, <1>6, <2>1, <3>1
  <2>2. CASE s # 1
    <3>1. s - 1 \in 1..n - 1 /\ m[s] = snake[s - 1] /\ m[s + 1] = snake[s - 1 + 1]
      BY <1>1, <1>3, <1>5, <2>2
    <3> QED BY <1>6, <3>1
  <2> QED BY <2>1, <2>2
<1>9. DOMAIN m = 1..k
  BY <1>2, <1>3
<1>10. ASSUME Ate, Len(m) < SNAKE_MAX_LEN
       PROVE  {m[s] : s \in DOMAIN m} = Body \cup {NewHead}
  <2>1. k = n + 1
    <3>1. n < SNAKE_MAX_LEN
      BY <1>1, <1>3, <1>10, SnakeSizes
    <3> QED BY <1>1, <1>2, <1>3, <1>10, <3>1, FreeAhead, OneCellOn DEF Moved
  <2>2. \A s \in 1..n : s + 1 \in 2..k /\ m[s + 1] = snake[s]
    BY <1>1, <1>5, <2>1
  <2>3. \A s \in 2..k : s - 1 \in 1..n /\ m[s] = snake[s - 1]
    BY <1>1, <1>5, <2>1
  <2>4. \A s \in 1..k : s = 1 \/ s \in 2..k
    BY <1>1, <1>3
  <2>5. 1 \in 1..k /\ 2..k \subseteq 1..k
    BY <1>1, <1>3
  <2>6. {m[s] : s \in 1..k} \subseteq {snake[s] : s \in 1..n} \cup {NewHead}
    BY <1>5, <2>3, <2>4
  <2>7. {snake[s] : s \in 1..n} \cup {NewHead} \subseteq {m[s] : s \in 1..k}
    BY <1>5, <2>2, <2>5
  <2> QED BY <1>6, <1>9, <2>6, <2>7 DEF Body
<1>11. ASSUME ~Ate
       PROVE  {m[s] : s \in DOMAIN m} = (Body \ {OldTail}) \cup {NewHead}
  <2>1. k = n
    BY <1>1, <1>2, <1>3, <1>11, FreeAhead, OneCellOn DEF Moved
  <2>2. OldTail = snake[n]
    BY <1>1 DEF OldTail
  <2>3. \A s \in 1..n : snake[s] # OldTail => s + 1 \in 2..k /\ m[s + 1] = snake[s]
    BY <1>1, <1>5, <2>1, <2>2
  <2>4. \A s \in 2..k : s - 1 \in 1..n /\ m[s] = snake[s - 1] /\ snake[s - 1] # OldTail
    <3> SUFFICES ASSUME NEW s \in 2..k
        PROVE  s - 1 \in 1..n /\ m[s] = snake[s - 1] /\ snake[s - 1] # OldTail
      OBVIOUS
    <3>1. s - 1 \in 1..n /\ n \in 1..n /\ s - 1 # n /\ m[s] = snake[s - 1]
      BY <1>1, <1>5, <2>1
    <3> QED BY <1>6, <2>2, <3>1
  <2>5. \A s \in 1..k : s = 1 \/ s \in 2..k
    BY <1>1, <1>3
  <2>6. 1 \in 1..k /\ 2..k \subseteq 1..k
    BY <1>1, <1>3
  <2>7. {m[s] : s \in 1..k} \subseteq ({snake[s] : s \in 1..n} \ {OldTail}) \cup {NewHead}
    BY <1>5, <2>4, <2>5
  <2>8. ({snake[s] : s \in 1..n} \ {OldTail}) \cup {NewHead} \subseteq {m[s] : s \in 1..k}
    BY <1>5, <2>3, <2>6
  <2> QED BY <1>6, <1>9, <2>7, <2>8 DEF Body
<1>12. k \in 1..SNAKE_MAX_LEN
  BY <1>1, <1>3, <1>4, SnakeSizes
<1>13. /\ Moved \in Seq(SnakeBoard) /\ Len(Moved) \in 1..SNAKE_MAX_LEN
       /\ DOMAIN Moved = 1..Len(Moved) /\ Len(Moved) \in {Len(snake), Len(snake) + 1}
  BY <1>1, <1>2, <1>3, <1>9, <1>12
<1>14. /\ \A s, j \in 1..Len(Moved) : s # j => Moved[s] # Moved[j]
       /\ \A s \in 1..Len(Moved) - 1 : Neighbours(Moved[s], Moved[s + 1])
  BY <1>2, <1>3, <1>7, <1>8
<1>15. Ate /\ Len(Moved) < SNAKE_MAX_LEN =>
         {Moved[s] : s \in DOMAIN Moved} = Body \cup {NewHead}
  BY <1>2, <1>10
<1>16. ~Ate => {Moved[s] : s \in DOMAIN Moved} = (Body \ {OldTail}) \cup {NewHead}
  BY <1>2, <1>11
<1> QED BY <1>13, <1>14, <1>15, <1>16

-----------------------------------------------------------------------------
LEMMA SpeedTypes ==
  ASSUME SnakeTypeOK, Playing, SnakeMoves
  PROVE  speed_ms' \in Nat /\ odd' \in BOOLEAN /\ food' \in SnakeBoard
<1>1. speed_ms \in Nat
  BY DEF SnakeTypeOK
<1>2. speed_ms' = speed_ms \/ (speed_ms > SPEED_MIN_MS /\ speed_ms' = speed_ms - SPEED_STEP_MS)
  BY DEF SnakeMoves
<1>3. speed_ms' \in Nat
  BY <1>1, <1>2, SnakeSizes
<1>4. odd' \in BOOLEAN
  BY DEF SnakeMoves
<1>5. food' \in SnakeBoard
  BY DEF SnakeMoves, FoodFor, SnakeTypeOK
<1> QED BY <1>3, <1>4, <1>5

\* The pixels that a move draws and erases.
LEMMA MovePaints ==
  ASSUME SnakeInv, Playing, ~check_collision(snake, NewHead), SnakeMoves,
         Len(Moved) < SNAKE_MAX_LEN
  PROVE  fb' = ({Moved[s] : s \in DOMAIN Moved} \ dark') \cup {food'}
<1>0. SnakeTypeOK /\ SnakeIntact /\ SnakePicture /\ dark \subseteq Body
  BY DEF SnakeInv, SnakeSafe
<1>1. PICK body, head, tail, old, box :
        /\ body = Body /\ head = NewHead /\ tail = OldTail /\ old = dark /\ box = SnakeBoard
  OBVIOUS
<1>2. head \in box /\ head \notin body /\ old \subseteq body
  BY <1>0, <1>1, FreeAhead
<1>3. fb = (body \ old) \cup {food}
  <2>1. Len(snake) < SNAKE_MAX_LEN
    <3>1. Len(snake) \in Nat /\ Len(Moved) \in {Len(snake), Len(snake) + 1}
      BY <1>0, CellAhead, MovedCells
    <3> QED BY <3>1, SnakeSizes
  <2> QED BY <1>0, <1>1, <2>1 DEF SnakePicture
<1>4. food' \in box
  BY <1>0, <1>1, SpeedTypes DEF SnakeTypeOK
<1>5. CASE Ate
  <2>1. {Moved[s] : s \in DOMAIN Moved} = body \cup {head}
    BY <1>0, <1>1, <1>5, MovedCells
  <2>2. dark' = (old \cup {head}) \cap (body \cup {head})
    BY <1>1, <1>5, <2>1 DEF SnakeMoves
  <2>3. food = head
    BY <1>1, <1>5 DEF Ate
  <2>4. fb' = ((fb \cup ({head} \cap box)) \ {food}) \cup ({food'} \cap box)
    BY <1>1, <1>5 DEF SnakeMoves, Redrawn, TailErased, Drawn, Erased
  <2> QED BY <1>2, <1>3, <1>4, <2>1, <2>2, <2>3, <2>4
<1>6. CASE ~Ate
  <2>1. {Moved[s] : s \in DOMAIN Moved} = (body \ {tail}) \cup {head}
    BY <1>0, <1>1, <1>6, MovedCells
  <2>2. dark' = old \ {tail}
    BY <1>1, <1>6 DEF SnakeMoves
  <2>3. food' = food
    BY <1>6 DEF SnakeMoves
  <2>4. fb' = ((fb \ {tail}) \cup ({head} \cap box)) \cup ({food'} \cap box)
    BY <1>1, <1>6 DEF SnakeMoves, Redrawn, TailErased, Drawn, Erased
  <2> QED BY <1>2, <1>3, <1>4, <2>1, <2>2, <2>3, <2>4
<1> QED BY <1>5, <1>6

LEMMA MoveStep ==
  ASSUME SnakeInv, Playing, ~check_collision(snake, NewHead), SnakeMoves
  PROVE  SnakeInv'
<1>0. SnakeTypeOK /\ SnakeIntact /\ dark \subseteq Body
  BY DEF SnakeInv, SnakeSafe
<1>1. /\ Moved \in Seq(SnakeBoard) /\ Len(Moved) \in 1..SNAKE_MAX_LEN
      /\ DOMAIN Moved = 1..Len(Moved)
      /\ \A s, j \in 1..Len(Moved) : s # j => Moved[s] # Moved[j]
      /\ \A s \in 1..Len(Moved) - 1 : Neighbours(Moved[s], Moved[s + 1])
  BY <1>0, MovedCells
<1>2. snake' = Moved /\ cur_dir' = Committed /\ next_dir' = next_dir
  BY DEF SnakeMoves
<1>3. dark' \subseteq {Moved[s] : s \in DOMAIN Moved}
  <2>1. CASE Ate
    BY <2>1 DEF SnakeMoves
  <2>2. CASE ~Ate
    <3>1. dark' = dark \ {OldTail}
      BY <2>2 DEF SnakeMoves
    <3>2. {Moved[s] : s \in DOMAIN Moved} = (Body \ {OldTail}) \cup {NewHead}
      BY <1>0, <2>2, MovedCells
    <3> QED BY <1>0, <3>1, <3>2
  <2> QED BY <2>1, <2>2
<1>4. Body' = {Moved[s] : s \in DOMAIN Moved}
  BY <1>2 DEF Body
<1>5. dark' \subseteq SnakeBoard
  BY <1>1, <1>3
<1>6. SnakeTypeOK'
  <2>1. snake' \in Seq(SnakeBoard) /\ Len(snake') <= SNAKE_MAX_LEN
    BY <1>1, <1>2, SnakeSizes
  <2>2. cur_dir' \in Direction /\ next_dir' \in Direction
    BY <1>0, <1>2, Directions DEF SnakeTypeOK
  <2> QED BY <1>0, <1>5, <2>1, <2>2, SpeedTypes DEF SnakeTypeOK
<1>7. SnakeIntact'
  BY <1>1, <1>2 DEF SnakeIntact
<1>8. SnakePicture'
  BY <1>2, <1>4, MovePaints DEF SnakePicture
<1> QED BY <1>3, <1>4, <1>6, <1>7, <1>8 DEF SnakeInv, SnakeSafe

LEMMA AtRest ==
  ASSUME snakeRests
  PROVE  SnakeInv
<1>1. /\ snake = <<>> /\ food = Start /\ cur_dir = 1 /\ next_dir = 1
      /\ speed_ms = SPEED_INITIAL_MS /\ odd = FALSE /\ dark = {}
  BY DEF snakeRests, DIR_RIGHT
<1>2. snake \in Seq(SnakeBoard) /\ Len(snake) = 0 /\ DOMAIN snake = {}
  <2>1. <<>> \in Seq(SnakeBoard) /\ Len(<<>>) = 0
    OBVIOUS
  <2>2. DOMAIN <<>> = 1..0 /\ 1..0 = {}
    OBVIOUS
  <2> QED BY <1>1, <2>1, <2>2
<1>3. SnakeTypeOK
  <2>1. odd \in BOOLEAN /\ dark \subseteq SnakeBoard
    BY <1>1
  <2>2. Len(snake) <= SNAKE_MAX_LEN /\ cur_dir \in Direction /\ next_dir \in Direction
    BY <1>1, <1>2, SnakeSizes DEF Direction
  <2>3. speed_ms \in Nat /\ food \in SnakeBoard
    BY <1>1, SnakeSizes
  <2> QED BY <1>2, <2>1, <2>2, <2>3 DEF SnakeTypeOK
<1>4. SnakeIntact
  BY <1>2 DEF SnakeIntact
<1> QED BY <1>1, <1>3, <1>4 DEF SnakeInv, SnakeSafe, SnakePicture, Playing

LEMMA StartStep ==
  ASSUME game_start
  PROVE  SnakeInv'
<1>1. /\ snake' = <<Start>> /\ cur_dir' = 1 /\ next_dir' = 1 /\ dark' = {Start}
      /\ speed_ms' = SPEED_INITIAL_MS /\ odd' = FALSE /\ food' \in SnakeBoard
      /\ fb' = Drawn({}, {food'}, SnakeBoard)
  BY DEF game_start, DIR_RIGHT, FoodFor
<1>2. /\ snake' \in Seq(SnakeBoard) /\ Len(snake') = 1 /\ DOMAIN snake' = 1..1
      /\ snake'[1] = Start
  <2>1. Start \in SnakeBoard
    BY SnakeSizes
  <2>2. <<Start>> \in Seq(SnakeBoard)
    BY <2>1
  <2>3. Len(<<Start>>) = 1 /\ <<Start>>[1] = Start
    OBVIOUS
  <2>4. DOMAIN <<Start>> = 1..1
    OBVIOUS
  <2> QED BY <1>1, <2>2, <2>3, <2>4
<1>3. SnakeTypeOK'
  <2>1. odd' \in BOOLEAN
    BY <1>1
  <2>2. dark' \subseteq SnakeBoard
    BY <1>1, SnakeSizes
  <2>3. Len(snake') <= SNAKE_MAX_LEN /\ cur_dir' \in Direction /\ next_dir' \in Direction
    BY <1>1, <1>2, SnakeSizes DEF Direction
  <2>4. speed_ms' \in Nat /\ food' \in SnakeBoard
    BY <1>1, SnakeSizes
  <2> QED BY <1>2, <2>1, <2>2, <2>3, <2>4 DEF SnakeTypeOK
<1>4. SnakeIntact'
  BY <1>2 DEF SnakeIntact
<1>5. Body' = {Start}
  BY <1>2 DEF Body
<1>6. SnakePicture'
  BY <1>1, <1>5 DEF SnakePicture, Drawn
<1> QED BY <1>1, <1>3, <1>4, <1>5, <1>6 DEF SnakeInv, SnakeSafe

LEMMA SnakeInvStep == SnakeInv /\ [snakeNext]_<<fb, snakeVars>> => SnakeInv'
<1> SUFFICES ASSUME SnakeInv, [snakeNext]_<<fb, snakeVars>> PROVE SnakeInv'
  OBVIOUS
<1>1. CASE game_start
  BY <1>1, StartStep
<1>2. CASE on_turn_left \/ on_turn_right
  <2>1. next_dir' \in Direction
    BY <1>2, Directions DEF SnakeInv, SnakeSafe, on_turn_left, on_turn_right
  <2>2. UNCHANGED <<fb, snake, food, cur_dir, speed_ms, odd, dark>>
    BY <1>2 DEF on_turn_left, on_turn_right, pace
  <2> QED BY <2>1, <2>2 DEF SnakeInv, SnakeSafe, SnakeTypeOK, SnakeIntact, SnakePicture,
                            Playing, Body
<1>3. CASE game_task
  <2>1. CASE check_collision(snake, NewHead)
    <3>1. game_exit
      BY <1>3, <2>1 DEF game_task
    <3>2. snakeRests'
      BY <3>1 DEF game_exit, snakeRests, Start, DIR_RIGHT
    <3> QED BY <3>2, AtRest, PTL
  <2>2. CASE ~check_collision(snake, NewHead)
    BY <1>3, <2>2, MoveStep DEF game_task
  <2> QED BY <2>1, <2>2
<1>4. CASE UNCHANGED <<fb, snakeVars>>
  BY <1>4 DEF snakeVars, heading, pace, SnakeInv, SnakeSafe, SnakeTypeOK, SnakeIntact,
              SnakePicture, Playing, Body
<1> QED BY <1>1, <1>2, <1>3, <1>4 DEF snakeNext

\* The snake never leaves the board or its array, stays one line that does not cross
\* itself, and is drawn as it is but for the cells it ate in (game.c:71-246).
THEOREM SnakeSafeHolds == snakeSpec => []SnakeSafe
<1>1. snakeInit => SnakeInv
  BY AtRest DEF snakeInit
<1>2. SnakeInv => SnakeSafe
  BY DEF SnakeInv
<1> QED BY <1>1, <1>2, SnakeInvStep, PTL DEF snakeSpec

-----------------------------------------------------------------------------
(* Flappy, for every size of the display and every distance of the pipes: a   *)
(* bird that flies on is clear of them, they stay apart, and the display      *)
(* shows exactly the two of them and the bird.                                *)

PipeSet == [x : 1 - PIPE_WIDTH..FlappyCols - 1, gap_top : GAP_MIN..GAP_MAX]

\* Steps of the accelerations that are left.
FlappyTempo == \E k \in Nat : tick_ms = TICK_MIN_MS + TICK_ACCEL_MS * k

FlappyInv == FlappySafe /\ FlappyTempo /\ Len(pipes) = 2

-----------------------------------------------------------------------------
(* The constants, and one pipe.                                            *)

LEMMA Board ==
  /\ FlappyRows \in Nat /\ FlappyRows >= 9 /\ FlappyCols \in Nat /\ FlappyCols >= 10
  /\ PIPE_SPACING \in 3..FlappyCols - 7 /\ GAP_MAX = FlappyRows - 7
  /\ Gaps \subseteq GAP_MIN..GAP_MAX /\ GAP_MIN = 2
  /\ TICK_MIN_MS \in Nat /\ TICK_INIT_MS \in Nat /\ TICK_MIN_MS <= TICK_INIT_MS
  BY FlappyAssumption DEF GAP_MIN, GAP_MAX, GAP_SIZE, PIPE_WIDTH, BIRD_COL

\* A pipe one column on keeps its gap; one that has left the board comes back.
LEMMA OnePipe ==
  ASSUME NEW p \in PipeSet, NEW q \in PipeSteps(p)
  PROVE  /\ q \in PipeSet
         /\ \/ p.x \in 0..FlappyCols - 1 /\ q.x = p.x - 1 /\ q.gap_top = p.gap_top
            \/ p.x = -1 /\ q.x = FlappyCols - 1
         /\ Scores(p) <=> p.x = -1
<1> DEFINE next == [p EXCEPT !.x = @ - 1]
<1>1. /\ p.x \in -1..FlappyCols - 1 /\ p.gap_top \in GAP_MIN..GAP_MAX
      /\ next.x = p.x - 1 /\ next.gap_top = p.gap_top
  BY DEF PipeSet, PIPE_WIDTH
<1>2. PassedLeft(next) <=> p.x = -1
  BY <1>1, Board DEF PassedLeft, PIPE_WIDTH
<1>3. Scores(p) <=> p.x = -1
  BY <1>2 DEF Scores
<1>4. CASE p.x = -1
  <2>1. PICK g \in Gaps : q = [x |-> FlappyCols - 1, gap_top |-> g]
    BY <1>2, <1>4 DEF PipeSteps
  <2>2. q \in PipeSet
    BY <2>1, Board DEF PipeSet, PIPE_WIDTH
  <2> QED BY <1>3, <1>4, <2>1, <2>2
<1>5. CASE p.x # -1
  <2>1. q = next
    BY <1>2, <1>5 DEF PipeSteps
  <2>2. p.x \in 0..FlappyCols - 1
    BY <1>1, <1>5, Board
  <2>3. next \in PipeSet
    <3>1. next = [x |-> p.x - 1, gap_top |-> p.gap_top]
      BY DEF PipeSet
    <3> QED BY <1>1, <2>2, <3>1, Board DEF PipeSet, PIPE_WIDTH
  <2> QED BY <1>1, <1>3, <1>5, <2>1, <2>2, <2>3
<1> QED BY <1>4, <1>5

\* What one pipe covers, pixel by pixel.
LEMMA PipeCovers ==
  ASSUME NEW p \in PipeSet, NEW a \in Int, NEW r \in 0..FlappyRows - 1
  PROVE  <<a, r>> \in PipePixels(p)
           <=> a \in {p.x, p.x + 1} /\ ~(r >= p.gap_top /\ r < p.gap_top + 5)
<1>1. p.x \in Int /\ p.gap_top \in Int
  BY Board DEF PipeSet
<1>2. a \in Columns(p) <=> a \in {p.x, p.x + 1}
  BY <1>1 DEF Columns, PIPE_WIDTH
<1> QED BY <1>1, <1>2 DEF PipePixels, InGap, GAP_SIZE

\* The two pipes.
LEMMA TwoPipes ==
  ASSUME FlappyTypeOK, Len(pipes) = 2
  PROVE  pipes[1] \in PipeSet /\ pipes[2] \in PipeSet
<1>1. pipes \in Seq(PipeSet)
  BY DEF FlappyTypeOK, PipeSet
<1> QED BY <1>1

-----------------------------------------------------------------------------
(* A tick that the bird survives.                                          *)

Survives(at_y, vel, p, q) ==
  /\ flying /\ bird_y' = at_y /\ bird_vel' = vel
  /\ pipes' = <<p, q>>
  /\ tick_ms' = Faster(Faster(tick_ms, Scores(pipes[1])), Scores(pipes[2]))
  /\ fb' = Repainted(Repainted(BirdMoved(at_y), pipes[1], p), pipes[2], q)
  /\ UNCHANGED flying
  /\ ~Hits(BirdRow(at_y), p) /\ ~Hits(BirdRow(at_y), q)

LEMMA FlappyTickCases ==
  ASSUME flappy_tick
  PROVE  \/ Grounded
         \/ LET vel == bird_vel + 1
                at_y == bird_y + vel
            IN /\ BirdRow(at_y) \in 0..FlappyRows - 1
               /\ \E p \in PipeSteps(pipes[1]), q \in PipeSteps(pipes[2]) : Survives(at_y, vel, p, q)
  BY DEF flappy_tick, BirdFlies, SecondSteps, Survives

LEMMA FlappyTempos ==
  ASSUME FlappyTempo, NEW s \in BOOLEAN, NEW t \in BOOLEAN,
         tick_ms' = Faster(Faster(tick_ms, s), t), tick_ms <= TICK_INIT_MS
  PROVE  FlappyTempo' /\ tick_ms' \in TICK_MIN_MS..TICK_INIT_MS
<1>1. \A ms : (\E k \in Nat : ms = TICK_MIN_MS + 3 * k) /\ ms <= TICK_INIT_MS =>
        \A b \in BOOLEAN : (\E k \in Nat : Faster(ms, b) = TICK_MIN_MS + 3 * k)
                           /\ Faster(ms, b) <= TICK_INIT_MS
  <2> TAKE ms
  <2> HAVE (\E k \in Nat : ms = TICK_MIN_MS + 3 * k) /\ ms <= TICK_INIT_MS
  <2> TAKE b \in BOOLEAN
  <2>1. PICK k \in Nat : ms = TICK_MIN_MS + 3 * k
    OBVIOUS
  <2>2. CASE b /\ ms > TICK_MIN_MS
    <3>1. Faster(ms, b) = ms - 3
      BY <2>2 DEF Faster, TICK_ACCEL_MS
    <3>2. k - 1 \in Nat /\ ms - 3 = TICK_MIN_MS + 3 * (k - 1)
      BY <2>1, <2>2, Board
    <3>3. \E n \in Nat : Faster(ms, b) = TICK_MIN_MS + 3 * n
      BY <3>1, <3>2
    <3>4. Faster(ms, b) <= TICK_INIT_MS
      BY <2>1, <3>1, Board
    <3> QED BY <3>3, <3>4
  <2>3. CASE ~(b /\ ms > TICK_MIN_MS)
    BY <2>1, <2>3 DEF Faster
  <2> QED BY <2>2, <2>3
<1>2. \E k \in Nat : tick_ms = TICK_MIN_MS + 3 * k
  BY DEF FlappyTempo, TICK_ACCEL_MS
<1>3. (\E k \in Nat : Faster(tick_ms, s) = TICK_MIN_MS + 3 * k) /\ Faster(tick_ms, s) <= TICK_INIT_MS
  BY <1>1, <1>2
<1>4. (\E k \in Nat : tick_ms' = TICK_MIN_MS + 3 * k) /\ tick_ms' <= TICK_INIT_MS
  BY <1>1, <1>3
<1> QED BY <1>4, Board DEF FlappyTempo, TICK_ACCEL_MS

\* The bird that flies on: where it is, and where the pipes are.
LEMMA SurviveTypes ==
  ASSUME FlappyInv, flying, NEW p \in PipeSteps(pipes[1]), NEW q \in PipeSteps(pipes[2]),
         Survives(bird_y + (bird_vel + 1), bird_vel + 1, p, q),
         BirdRow(bird_y + (bird_vel + 1)) \in 0..FlappyRows - 1
  PROVE  /\ FlappyTypeOK' /\ FlappyTempo' /\ Len(pipes') = 2 /\ flying'
         /\ pipes'[1] = p /\ pipes'[2] = q /\ p \in PipeSet /\ q \in PipeSet
         /\ AliveIsClear' /\ PipesApart'
<1>0. /\ FlappyTypeOK /\ FlappyTempo /\ PipesApart /\ pipes[1] \in PipeSet /\ pipes[2] \in PipeSet
  BY TwoPipes DEF FlappyInv, FlappySafe
<1>1. /\ p \in PipeSet /\ q \in PipeSet
      /\ \/ pipes[1].x \in 0..FlappyCols - 1 /\ p.x = pipes[1].x - 1
         \/ pipes[1].x = -1 /\ p.x = FlappyCols - 1
      /\ \/ pipes[2].x \in 0..FlappyCols - 1 /\ q.x = pipes[2].x - 1
         \/ pipes[2].x = -1 /\ q.x = FlappyCols - 1
  BY <1>0, OnePipe
<1>2. pipes' = <<p, q>> /\ pipes' \in Seq(PipeSet) /\ Len(pipes') = 2
      /\ pipes'[1] = p /\ pipes'[2] = q /\ flying'
  BY <1>1 DEF Survives
<1>3. bird_y' \in 0..4 * FlappyRows - 1 /\ bird_vel' \in -FLAP_STRENGTH..4 * FlappyRows
  <2>1. bird_y \in 0..4 * FlappyRows - 1 /\ bird_vel \in -6..4 * FlappyRows
    BY <1>0 DEF FlappyTypeOK, FLAP_STRENGTH
  <2>2. bird_y + (bird_vel + 1) \in 0..4 * FlappyRows - 1
    BY <2>1, Board DEF BirdRow
  <2>3. bird_vel + 1 \in -6..4 * FlappyRows
    BY <2>1, <2>2, Board
  <2> QED BY <2>2, <2>3 DEF Survives, FLAP_STRENGTH
<1>4. FlappyTempo' /\ tick_ms' \in TICK_MIN_MS..TICK_INIT_MS
  <2>1. Scores(pipes[1]) \in BOOLEAN /\ Scores(pipes[2]) \in BOOLEAN
    BY DEF Scores, PassedLeft
  <2>2. tick_ms <= TICK_INIT_MS
    BY <1>0, Board DEF FlappyTypeOK
  <2>3. tick_ms' = Faster(Faster(tick_ms, Scores(pipes[1])), Scores(pipes[2]))
    BY DEF Survives
  <2> QED BY <1>0, <2>1, <2>2, <2>3, FlappyTempos
<1>5. flying' \in BOOLEAN
  BY <1>0 DEF Survives, FlappyTypeOK
<1>6. FlappyTypeOK'
  BY <1>2, <1>3, <1>4, <1>5 DEF FlappyTypeOK, PipeSet
<1>7. AliveIsClear'
  <2>1. BIRD_COL \in Columns(p) => InGap(BirdRow(bird_y'), p)
    BY DEF Survives, Hits
  <2>2. BIRD_COL \in Columns(q) => InGap(BirdRow(bird_y'), q)
    BY DEF Survives, Hits
  <2> QED BY <1>2, <2>1, <2>2 DEF AliveIsClear
<1>8. PipesApart'
  <2>1. p.x - q.x \in {PIPE_SPACING, PIPE_SPACING - (FlappyCols + 1)}
    <3>1. pipes[1].x - pipes[2].x \in {PIPE_SPACING, PIPE_SPACING - (FlappyCols + 1)}
      BY <1>0 DEF PipesApart
    <3>2. PICK x \in Int : x = pipes[1].x
      BY <1>1, Board
    <3>3. PICK z \in Int : z = pipes[2].x
      BY <1>1, Board
    <3> QED BY <1>1, <3>1, <3>2, <3>3, Board
  <2> QED BY <1>2, <2>1 DEF PipesApart
<1> QED BY <1>1, <1>2, <1>4, <1>6, <1>7, <1>8

-----------------------------------------------------------------------------
(* What is to be seen.                                                     *)

\* Erasing and drawing one pipe after the other leaves the new ones, when the old
\* second pipe does not cover the new first one.
LEMMA SurvivePaints ==
  ASSUME FlappyInv, flying, NEW p \in PipeSteps(pipes[1]), NEW q \in PipeSteps(pipes[2]),
         Survives(bird_y + (bird_vel + 1), bird_vel + 1, p, q),
         BirdRow(bird_y + (bird_vel + 1)) \in 0..FlappyRows - 1
  PROVE  FlappyPicture'
<1>0. /\ FlappyTypeOK /\ PipesApart /\ FlappyPicture
      /\ pipes[1] \in PipeSet /\ pipes[2] \in PipeSet
  BY TwoPipes DEF FlappyInv, FlappySafe
<1>1. PICK u \in PipeSet : u = pipes[1]
  BY <1>0
<1>2. PICK v \in PipeSet : v = pipes[2]
  BY <1>0
<1>3. PICK r \in 0..FlappyRows - 1 : r = BirdRow(bird_y + (bird_vel + 1))
  OBVIOUS
<1>4. /\ p \in PipeSet /\ q \in PipeSet
      /\ \/ u.x \in 0..FlappyCols - 1 /\ p.x = u.x - 1 /\ p.gap_top = u.gap_top
         \/ u.x = -1 /\ p.x = FlappyCols - 1
      /\ \/ v.x \in 0..FlappyCols - 1 /\ q.x = v.x - 1 /\ q.gap_top = v.gap_top
         \/ v.x = -1 /\ q.x = FlappyCols - 1
  BY <1>1, <1>2, OnePipe
<1>5. /\ u.x \in -1..FlappyCols - 1 /\ v.x \in -1..FlappyCols - 1
      /\ p.x \in -1..FlappyCols - 1 /\ q.x \in -1..FlappyCols - 1
      /\ u.gap_top \in Int /\ v.gap_top \in Int /\ p.gap_top \in Int /\ q.gap_top \in Int
  BY <1>4, Board DEF PipeSet, PIPE_WIDTH
<1>6. u.x - v.x \in {PIPE_SPACING, PIPE_SPACING - (FlappyCols + 1)}
  BY <1>0, <1>1, <1>2 DEF PipesApart
<1>7. PipePixels(p) \cap PipePixels(v) \cap FlappyBoard = {}
  <2> SUFFICES ASSUME NEW a \in 0..FlappyCols - 1, NEW s \in 0..FlappyRows - 1,
                      <<a, s>> \in PipePixels(p), <<a, s>> \in PipePixels(v)
               PROVE  FALSE
    BY DEF FlappyBoard, Box
  <2>1. a \in {p.x, p.x + 1} /\ a \in {v.x, v.x + 1}
    BY <1>4, PipeCovers, Board
  <2>2. PICK x \in -1..FlappyCols - 1 : x = u.x
    BY <1>5
  <2>3. PICK z \in -1..FlappyCols - 1 : z = v.x
    BY <1>5
  <2>4. PICK w \in -1..FlappyCols - 1 : w = p.x
    BY <1>5
  <2>5. w = x - 1 \/ (x = -1 /\ w = FlappyCols - 1)
    BY <1>4, <2>2, <2>4
  <2>6. x - z = PIPE_SPACING \/ x - z = PIPE_SPACING - (FlappyCols + 1)
    BY <1>6, <2>2, <2>3
  <2>7. a \in {w, w + 1} /\ a \in {z, z + 1}
    BY <2>1, <2>3, <2>4
  <2> QED BY <2>5, <2>6, <2>7, Board
<1>8. ~Hits(r, p) /\ ~Hits(r, q)
  BY <1>3 DEF Survives
<1>9. /\ 5 \in {p.x, p.x + 1} => r >= p.gap_top /\ r < p.gap_top + 5
      /\ 5 \in {q.x, q.x + 1} => r >= q.gap_top /\ r < q.gap_top + 5
  <2>1. \A w \in PipeSet : Columns(w) = {w.x, w.x + 1}
    BY Board DEF Columns, PipeSet, PIPE_WIDTH
  <2> QED BY <1>4, <1>8, <2>1 DEF Hits, InGap, BIRD_COL, GAP_SIZE
<1>10. PICK erased \in BOOLEAN :
         erased <=> \/ p.x = 3 /\ ~(r >= p.gap_top /\ r < p.gap_top + 5)
                    \/ q.x = 3 /\ ~(r >= q.gap_top /\ r < q.gap_top + 5)
  OBVIOUS
<1>11. /\ <<5, r>> \in PipePixels(u)
            <=> 5 \in {u.x, u.x + 1} /\ ~(r >= u.gap_top /\ r < u.gap_top + 5)
       /\ <<5, r>> \in PipePixels(v)
            <=> 5 \in {v.x, v.x + 1} /\ ~(r >= v.gap_top /\ r < v.gap_top + 5)
  BY PipeCovers
<1>12. erased => <<5, r>> \in PipePixels(u) \cup PipePixels(v)
  BY <1>4, <1>5, <1>10, <1>11, Board
<1>13. ~erased => <<5, r>> \notin PipePixels(u) /\ <<5, r>> \notin PipePixels(v)
  BY <1>4, <1>5, <1>9, <1>10, <1>11, Board
<1>14. <<5, r>> \in FlappyBoard
  BY Board DEF FlappyBoard, Box
<1>15. PICK was \in BOOLEAN : was <=> BirdErased
  BY DEF BirdErased
<1>16. fb = (PipePixels(u) \cup PipePixels(v) \cup (IF was THEN {} ELSE {Bird(bird_y)}))
              \cap FlappyBoard
  BY <1>0, <1>1, <1>2, <1>15 DEF FlappyPicture, Drawn
<1>17. fb' = (PipePixels(p) \cup PipePixels(q) \cup (IF erased THEN {} ELSE {<<5, r>>}))
               \cap FlappyBoard
  <2>1. fb' = Repainted(Repainted(BirdMoved(bird_y + (bird_vel + 1)), u, p), v, q)
    BY <1>1, <1>2 DEF Survives
  <2>2. Bird(bird_y + (bird_vel + 1)) = <<5, r>>
    BY <1>3 DEF Bird, BIRD_COL
  <2>3. PICK new : new = <<5, r>>
    OBVIOUS
  <2>4. PICK old : old = Bird(bird_y)
    OBVIOUS
  <2>5. fb' = Drawn(Erased(Drawn(Erased(Drawn(Erased(fb, {old}), {new}, FlappyBoard),
                PipePixels(u)), PipePixels(p), FlappyBoard), PipePixels(v)),
                PipePixels(q), FlappyBoard)
    BY <2>1, <2>2, <2>3, <2>4 DEF Repainted, BirdMoved
  <2>6. PICK P : P = PipePixels(u)
    OBVIOUS
  <2>7. PICK Q : Q = PipePixels(v)
    OBVIOUS
  <2>8. PICK newP : newP = PipePixels(p)
    OBVIOUS
  <2>9. PICK newQ : newQ = PipePixels(q)
    OBVIOUS
  <2>10. PICK box : box = FlappyBoard
    OBVIOUS
  <2>11. fb = (P \cup Q \cup (IF was THEN {} ELSE {old})) \cap box
    BY <1>16, <2>4, <2>6, <2>7, <2>10
  <2>12. fb' = Drawn(Erased(Drawn(Erased(Drawn(Erased(fb, {old}), {new}, box), P), newP, box), Q),
                     newQ, box)
    BY <2>5, <2>6, <2>7, <2>8, <2>9, <2>10
  <2>13. new \in box /\ newP \cap Q \cap box = {}
    BY <1>7, <1>14, <2>3, <2>7, <2>8, <2>10
  <2>14. /\ erased => new \in P \cup Q
         /\ ~erased => (new \notin P \/ new \in newP) /\ (new \notin Q \/ new \in newQ)
    BY <1>12, <1>13, <2>3, <2>6, <2>7
  <2>15. fb' = (newP \cup newQ \cup (IF erased THEN {} ELSE {new})) \cap box
    <3>1. CASE erased
      BY <2>11, <2>12, <2>13, <2>14, <3>1 DEF Drawn, Erased
    <3>2. CASE ~erased
      BY <2>11, <2>12, <2>13, <2>14, <3>2 DEF Drawn, Erased
    <3> QED BY <3>1, <3>2
  <2> QED BY <2>3, <2>8, <2>9, <2>10, <2>15
<1>18. pipes'[1] = p /\ pipes'[2] = q /\ Bird(bird_y') = <<5, r>> /\ BirdRow(bird_y') = r
  BY <1>3 DEF Survives, Bird, BIRD_COL
<1>19. BirdErased' <=> erased
  BY <1>10, <1>18 DEF BirdErased, InGap, GAP_SIZE, BIRD_COL, PIPE_WIDTH
<1> QED BY <1>17, <1>18, <1>19 DEF FlappyPicture, Drawn

-----------------------------------------------------------------------------
(* The invariant.                                                          *)

LEMMA Resting == \E k \in Nat : TICK_INIT_MS = TICK_MIN_MS + TICK_ACCEL_MS * k
<1> DEFINE d == TICK_INIT_MS - TICK_MIN_MS
<1>1. d \in Nat /\ d % 3 = 0
  BY FlappyAssumption DEF TICK_ACCEL_MS
<1>2. d \div 3 \in Nat /\ d = 3 * (d \div 3)
  BY <1>1
<1>3. TICK_INIT_MS = TICK_MIN_MS + 3 * (d \div 3)
  BY <1>2, Board
<1> QED BY <1>2, <1>3 DEF TICK_ACCEL_MS

LEMMA Grounds ==
  ASSUME flappyRests
  PROVE  FlappyInv
<1>1. /\ bird_y = 0 /\ bird_vel = 0 /\ tick_ms = TICK_INIT_MS
      /\ pipes = <<Gone, Gone>> /\ flying = FALSE
  BY DEF flappyRests
<1>2. Gone \in PipeSet
  BY Board DEF Gone, PipeSet, PIPE_WIDTH
<1>3. pipes \in Seq(PipeSet) /\ Len(pipes) = 2
  BY <1>1, <1>2
<1>4. bird_y \in 0..4 * FlappyRows - 1 /\ bird_vel \in -FLAP_STRENGTH..4 * FlappyRows
      /\ tick_ms \in TICK_MIN_MS..TICK_INIT_MS
  BY <1>1, Board DEF FLAP_STRENGTH
<1>5. flying \in BOOLEAN /\ ~flying
  BY <1>1
<1>6. FlappyTypeOK
  BY <1>3, <1>4, <1>5 DEF FlappyTypeOK, PipeSet
<1>7. FlappyTempo
  BY <1>1, Resting DEF FlappyTempo
<1> QED BY <1>3, <1>5, <1>6, <1>7 DEF FlappyInv, FlappySafe, AliveIsClear, PipesApart, FlappyPicture

LEMMA FlappyStarts ==
  ASSUME FlappyInv, flappy_start
  PROVE  FlappyInv'
<1>1. PICK g \in Gaps, h \in Gaps :
        pipes' = <<[x |-> FlappyCols - 1, gap_top |-> g],
                   [x |-> FlappyCols - 1 - PIPE_SPACING, gap_top |-> h]>>
  BY DEF flappy_start
<1>2. PICK u : u = [x |-> FlappyCols - 1, gap_top |-> g]
  OBVIOUS
<1>3. PICK v : v = [x |-> FlappyCols - 1 - PIPE_SPACING, gap_top |-> h]
  OBVIOUS
<1>4. u \in PipeSet /\ v \in PipeSet /\ u.x = FlappyCols - 1 /\ v.x = FlappyCols - 1 - PIPE_SPACING
  BY <1>2, <1>3, Board DEF PipeSet, PIPE_WIDTH
<1>5. /\ pipes' = <<u, v>> /\ pipes' \in Seq(PipeSet) /\ Len(pipes') = 2
      /\ pipes'[1] = u /\ pipes'[2] = v
  BY <1>1, <1>2, <1>3, <1>4
<1>6. /\ bird_y' \in 0..4 * FlappyRows - 1 /\ bird_vel' \in -FLAP_STRENGTH..4 * FlappyRows
      /\ tick_ms' = TICK_INIT_MS /\ tick_ms' \in TICK_MIN_MS..TICK_INIT_MS
  BY Board DEF flappy_start, FLAP_STRENGTH
<1>7. flying' \in BOOLEAN
  BY DEF flappy_start
<1>8. FlappyTypeOK'
  BY <1>5, <1>6, <1>7 DEF FlappyTypeOK, PipeSet
<1>9. FlappyTempo'
  BY <1>6, Resting DEF FlappyTempo
<1>10. PipesApart'
  BY <1>4, <1>5, Board DEF PipesApart
<1>11. 5 \notin Columns(u) /\ 5 \notin Columns(v) /\ u.x # 3 /\ v.x # 3
  BY <1>4, Board DEF Columns, PIPE_WIDTH
<1>12. AliveIsClear'
  BY <1>5, <1>11 DEF AliveIsClear, BIRD_COL
<1>13. ~BirdErased'
  BY <1>5, <1>11 DEF BirdErased, BIRD_COL, PIPE_WIDTH
<1>14. FlappyPicture'
  <2>1. fb' = Drawn({}, {Bird(bird_y')} \cup PipePixels(u) \cup PipePixels(v), FlappyBoard)
    BY <1>5 DEF flappy_start
  <2> QED BY <1>5, <1>13, <2>1 DEF FlappyPicture, Drawn
<1> QED BY <1>5, <1>8, <1>9, <1>10, <1>12, <1>14 DEF FlappyInv, FlappySafe

LEMMA Flaps ==
  ASSUME FlappyInv, on_flap
  PROVE  FlappyInv'
<1>1. UNCHANGED <<fb, bird_y, tick_ms, pipes, flying>>
  BY DEF on_flap
<1>2. bird_vel' \in -FLAP_STRENGTH..4 * FlappyRows
  BY Board DEF on_flap, FLAP_STRENGTH
<1>3. FlappyTypeOK'
  BY <1>1, <1>2 DEF FlappyInv, FlappySafe, FlappyTypeOK
<1>4. AliveIsClear' /\ PipesApart' /\ FlappyPicture'
  BY <1>1 DEF FlappyInv, FlappySafe, AliveIsClear, PipesApart, FlappyPicture, BirdErased
<1> QED BY <1>1, <1>3, <1>4 DEF FlappyInv, FlappySafe, FlappyTempo

LEMMA Ticks ==
  ASSUME FlappyInv, flappy_tick
  PROVE  FlappyInv'
<1>1. CASE Grounded
  <2>1. flappyRests'
    BY <1>1 DEF Grounded, flappyRests, Gone
  <2> QED BY <2>1, Grounds, PTL
<1>2. CASE /\ BirdRow(bird_y + (bird_vel + 1)) \in 0..FlappyRows - 1
           /\ \E p \in PipeSteps(pipes[1]), q \in PipeSteps(pipes[2]) :
                Survives(bird_y + (bird_vel + 1), bird_vel + 1, p, q)
  <2>1. PICK p \in PipeSteps(pipes[1]), q \in PipeSteps(pipes[2]) :
          Survives(bird_y + (bird_vel + 1), bird_vel + 1, p, q)
    BY <1>2
  <2>2. flying
    BY <2>1 DEF Survives
  <2> QED BY <1>2, <2>1, <2>2, SurviveTypes, SurvivePaints DEF FlappyInv, FlappySafe
<1> QED BY <1>1, <1>2, FlappyTickCases

LEMMA FlappyInvStep == FlappyInv /\ [flappyNext]_<<fb, flappyVars>> => FlappyInv'
<1> SUFFICES ASSUME FlappyInv, [flappyNext]_<<fb, flappyVars>> PROVE FlappyInv'
  OBVIOUS
<1>1. CASE UNCHANGED <<fb, flappyVars>>
  BY <1>1 DEF flappyVars, FlappyInv, FlappySafe, FlappyTypeOK, FlappyTempo, AliveIsClear, PipesApart,
              FlappyPicture, BirdErased
<1> QED BY <1>1, FlappyStarts, Flaps, Ticks DEF flappyNext

\* A bird that is still flying is in no pipe, the pipes stay as far apart as they
\* started, and what is to be seen is the pipes and the bird, except in the tick in
\* which a pipe that leaves its column takes it along (flappy.c:77-207).
THEOREM FlappySafeHolds == flappySpec => []FlappySafe
<1>1. flappyInit => FlappyInv
  BY Grounds DEF flappyInit
<1>2. FlappyInv => FlappySafe
  BY DEF FlappyInv
<1> QED BY <1>1, <1>2, FlappyInvStep, PTL DEF flappySpec

-----------------------------------------------------------------------------
(* Pong, for every size of the display: what is drawn is the rally, and on a  *)
(* display wider than tall the badge cannot lose.                             *)

PongWide == PongCols >= PongRows + 4

\* Steps of the accelerations that are left.
PongTempo == \E k \in Nat : ball_ms = BALL_TICK_MIN_MS + BALL_ACCEL_STEP_MS * k

\* The hits alternate from the serve on.
HitsAlternate ==
  served = 1 => \/ ball_dx = 1 /\ hit_count \in {0, 2}
                \/ ball_dx = -1 /\ hit_count \in {1, 3}

\* The middle of a paddle keeps level with a ball that comes, or is as near as the
\* wall lets it.
Tracked(at_y, dy, c) ==
  \/ at_y = c
  \/ at_y = c - 1 /\ dy = 1
  \/ at_y = c + 1 /\ dy = -1
  \/ at_y = 0 /\ c = 1
  \/ at_y = PongRows - 1 /\ c = PongRows - 2

\* Ticks after which it does: a ball that flies away from it must come back first.
Needed(at_y, dy, c) ==
  IF at_y < c THEN (IF dy = 1 THEN c - at_y ELSE c + 1)
  ELSE (IF dy = 1 THEN PongRows - c ELSE at_y - c)

Catches ==
  rally /\ ball_dx = -1 =>
    \/ Tracked(ball_y, ball_dy, cpu_y + 1)
    \/ ball_x >= Needed(ball_y, ball_dy, cpu_y + 1) + 1

PongTypes == PongTypeOK /\ PongTempo

-----------------------------------------------------------------------------
(* Arithmetic of the walls and of the badge's paddle.                      *)

LEMMA PongSizes ==
  /\ PongCols \in Nat /\ PongCols >= 4 /\ PongRows \in Nat /\ PongRows >= 3
  /\ COL_BALL_SPAWN \in 2..PongCols - 2 /\ PongRows \div 2 \in 0..PongRows - 1
  /\ Middle \in 0..PongRows - 3
  /\ PongCols \in {2 * COL_BALL_SPAWN, 2 * COL_BALL_SPAWN + 1}
  /\ PongRows \div 2 \in {Middle + 1, Middle + 2}
  /\ 2 * (PongRows \div 2) <= PongRows
  /\ PongRows \div 2 = Middle + 2 => PongRows = 2 * (PongRows \div 2)
  BY PongAssumption DEF PADDLE_LEN, COL_BALL_SPAWN, Middle

\* The ball stays on the rows of the board.
LEMMA BounceTypes ==
  ASSUME PongTypes
  PROVE  /\ BouncedY(ball_y + ball_dy) \in 0..PongRows - 1
         /\ BouncedDy(ball_y + ball_dy) \in {1, -1}
  BY PongSizes DEF PongTypes, PongTypeOK, BouncedY, BouncedDy

LEMMA CpuTypes ==
  ASSUME PongTypes, NEW row \in 0..PongRows - 1, NEW dx \in {1, -1}
  PROVE  cpu_move(row, dx) \in 0..PongRows - PADDLE_LEN
  BY PongSizes DEF PongTypes, PongTypeOK, cpu_move, PADDLE_LEN

\* What a tick of the ball comes to.
LEMMA PongTickCases ==
  ASSUME PongTypes, ball_tick
  PROVE  LET at_y == BouncedY(ball_y + ball_dy) IN
         /\ rally
         /\ \/ /\ ball_x + ball_dx \in 1..PongCols - 2
               /\ BallAt(ball_x + ball_dx, at_y, ball_dx) /\ UNCHANGED tempo
            \/ ball_dx = 1 /\ ball_x = PongCols - 2 /\ Returned("player", at_y)
            \/ ball_dx = -1 /\ ball_x = 1 /\ Returned("badge", at_y)
            \/ ball_dx = 1 /\ pong_exit("badge")
            \/ ball_dx = -1 /\ ball_x = 1 /\ ~Meets(at_y, cpu_y) /\ pong_exit("player")
<1> DEFINE x == ball_x + ball_dx
           at_y == BouncedY(ball_y + ball_dy)
<1>1. /\ ball_x \in 1..PongCols - 2 /\ ball_dx \in {1, -1}
      /\ COL_CPU_PADDLE = 0 /\ COL_PLAYER_PADDLE = PongCols - 1
      /\ PongCols \in Nat /\ PongCols >= 4
  BY PongSizes DEF PongTypes, PongTypeOK, COL_CPU_PADDLE, COL_PLAYER_PADDLE
<1>2. CASE COL_CPU_PADDLE < x /\ x < COL_PLAYER_PADDLE
  <2>1. BallAt(x, at_y, ball_dx) /\ UNCHANGED tempo
    BY <1>2 DEF ball_tick
  <2>2. x \in 1..PongCols - 2
    BY <1>1, <1>2
  <2> QED BY <2>1, <2>2 DEF ball_tick
<1>3. CASE x >= COL_PLAYER_PADDLE
  <2>1. ball_dx = 1 /\ ball_x = PongCols - 2
    BY <1>1, <1>3
  <2>2. IF Meets(at_y, player_y) THEN Returned("player", at_y) ELSE pong_exit("badge")
    <3>1. ~(COL_CPU_PADDLE < x /\ x < COL_PLAYER_PADDLE)
      BY <1>1, <1>3
    <3> QED BY <1>3, <3>1 DEF ball_tick
  <2> QED BY <2>1, <2>2 DEF ball_tick
<1>4. CASE x <= COL_CPU_PADDLE
  <2>1. ball_dx = -1 /\ ball_x = 1 /\ ~(x >= COL_PLAYER_PADDLE)
    BY <1>1, <1>4
  <2>2. IF Meets(at_y, cpu_y) THEN Returned("badge", at_y) ELSE pong_exit("player")
    <3>1. ~(COL_CPU_PADDLE < x /\ x < COL_PLAYER_PADDLE)
      BY <1>1, <1>4
    <3> QED BY <2>1, <3>1 DEF ball_tick
  <2> QED BY <2>1, <2>2 DEF ball_tick
<1> QED BY <1>1, <1>2, <1>3, <1>4

-----------------------------------------------------------------------------
(* Types.                                                                  *)

LEMMA PongTempoAtRest == \E k \in Nat : BALL_TICK_INIT_MS = BALL_TICK_MIN_MS + BALL_ACCEL_STEP_MS * k
<1> DEFINE d == BALL_TICK_INIT_MS - BALL_TICK_MIN_MS
<1>1. d \in Nat /\ d % 8 = 0
  BY PongAssumption DEF BALL_ACCEL_STEP_MS
<1>2. d \div 8 \in Nat /\ d = 8 * (d \div 8)
  BY <1>1
<1>3. BALL_TICK_INIT_MS = BALL_TICK_MIN_MS + 8 * (d \div 8)
  BY <1>2, PongAssumption
<1> QED BY <1>2, <1>3 DEF BALL_ACCEL_STEP_MS

\* Where the ball starts and rests.
LEMMA StartTypes ==
  /\ COL_BALL_SPAWN \in COL_CPU_PADDLE + 1..COL_PLAYER_PADDLE - 1
  /\ PongRows \div 2 \in 0..PongRows - 1
  /\ Middle \in 0..PongRows - PADDLE_LEN
  /\ BALL_TICK_INIT_MS \in BALL_TICK_MIN_MS..BALL_TICK_INIT_MS
  /\ 0 \in 0..BALL_ACCEL_HITS - 1
  BY PongSizes, PongAssumption DEF COL_CPU_PADDLE, COL_PLAYER_PADDLE, PADDLE_LEN, BALL_ACCEL_HITS

\* The ball moves on: every part of it but its clock.
LEMMA BallTypes ==
  ASSUME PongTypes, NEW x \in 1..PongCols - 2, NEW row \in 0..PongRows - 1, NEW dx \in {1, -1},
         BallAt(x, row, dx)
  PROVE  /\ ball_x' \in COL_CPU_PADDLE + 1..COL_PLAYER_PADDLE - 1 /\ ball_y' \in 0..PongRows - 1
         /\ ball_dx' \in {1, -1} /\ ball_dy' \in {1, -1}
         /\ player_y' \in 0..PongRows - PADDLE_LEN /\ cpu_y' \in 0..PongRows - PADDLE_LEN
         /\ rally' \in BOOLEAN /\ served' \in {1, -1} /\ winner' \in {"nobody", "badge", "player"}
<1>1. cpu_y' = cpu_move(row, dx)
  BY DEF BallAt
<1>2. cpu_y' \in 0..PongRows - PADDLE_LEN
  BY <1>1, CpuTypes
<1>3. ball_dy' \in {1, -1}
  BY BounceTypes DEF BallAt
<1> QED BY <1>2, <1>3, PongSizes DEF BallAt, PongTypes, PongTypeOK, COL_CPU_PADDLE, COL_PLAYER_PADDLE

\* A hit: the clock goes down by whole steps and not below its least.
LEMMA HitTypes ==
  ASSUME PongTypes, NEW by \in {"player", "badge"}, NEW row, Returned(by, row)
  PROVE  /\ ball_ms' \in BALL_TICK_MIN_MS..BALL_TICK_INIT_MS
         /\ hit_count' \in 0..BALL_ACCEL_HITS - 1
         /\ PongTempo'
<1>1. PICK k \in Nat : ball_ms = BALL_TICK_MIN_MS + 8 * k
  BY DEF PongTypes, PongTempo, BALL_ACCEL_STEP_MS
<1>2. BALL_TICK_MIN_MS \in Nat /\ BALL_TICK_INIT_MS \in Nat /\ ball_ms <= BALL_TICK_INIT_MS
  BY PongAssumption DEF PongTypes, PongTypeOK
<1>3. hit_count' \in 0..BALL_ACCEL_HITS - 1
  BY DEF Returned, PongTypes, PongTypeOK, BALL_ACCEL_HITS
<1>4. ball_ms' = ball_ms \/ (ball_ms > BALL_TICK_MIN_MS /\ ball_ms' = ball_ms - 8)
  BY DEF Returned, BALL_ACCEL_STEP_MS
<1>5. CASE ball_ms' = ball_ms
  BY <1>1, <1>2, <1>3, <1>5 DEF PongTempo, BALL_ACCEL_STEP_MS
<1>6. CASE ball_ms > BALL_TICK_MIN_MS /\ ball_ms' = ball_ms - 8
  <2>1. k - 1 \in Nat /\ ball_ms' = BALL_TICK_MIN_MS + 8 * (k - 1)
    BY <1>1, <1>2, <1>6
  <2>2. PongTempo'
    BY <2>1 DEF PongTempo, BALL_ACCEL_STEP_MS
  <2>3. ball_ms' \in BALL_TICK_MIN_MS..BALL_TICK_INIT_MS
    BY <1>1, <1>2, <1>6, <2>1
  <2> QED BY <1>3, <2>2, <2>3
<1> QED BY <1>4, <1>5, <1>6

LEMMA PongTypeInit == pongRests => PongTypes
<1> SUFFICES ASSUME pongRests PROVE PongTypes
  OBVIOUS
<1>1. PongTypeOK
  BY StartTypes DEF pongRests, PongTypeOK
<1>2. PongTempo
  BY PongTempoAtRest DEF pongRests, PongTempo
<1> QED BY <1>1, <1>2 DEF PongTypes

LEMMA PongTypeStep == PongTypes /\ [pongNext]_<<fb, pongVars>> => PongTypes'
<1> SUFFICES ASSUME PongTypes, [pongNext]_<<fb, pongVars>> PROVE PongTypes'
  OBVIOUS
<1>1. CASE pong_start
  <2>1. PongTypeOK'
    BY <1>1, StartTypes DEF pong_start, PongTypeOK, PongTypes
  <2>2. PongTempo'
    BY <1>1, PongTempoAtRest DEF pong_start, PongTempo
  <2> QED BY <2>1, <2>2 DEF PongTypes
<1>2. CASE move_paddle_up \/ move_paddle_down
  <2>1. player_y' \in 0..PongRows - PADDLE_LEN
    BY <1>2, PongSizes DEF move_paddle_up, move_paddle_down, PlayerMoves, PongTypes, PongTypeOK, PADDLE_LEN
  <2>2. UNCHANGED <<ball, tempo, cpu_y, rally, served, winner>>
    BY <1>2 DEF move_paddle_up, move_paddle_down, PlayerMoves
  <2> QED BY <2>1, <2>2 DEF PongTypes, PongTypeOK, PongTempo, ball, tempo
<1>3. CASE ball_tick
  <2> DEFINE at_y == BouncedY(ball_y + ball_dy)
  <2>1. PICK row \in 0..PongRows - 1 : row = at_y
    BY BounceTypes
  <2>2. CASE ball_x + ball_dx \in 1..PongCols - 2 /\ BallAt(ball_x + ball_dx, at_y, ball_dx)
             /\ UNCHANGED tempo
    <3>1. PICK x \in 1..PongCols - 2, dx \in {1, -1} : x = ball_x + ball_dx /\ dx = ball_dx
      BY <2>2 DEF PongTypes, PongTypeOK
    <3>2. BallAt(x, row, dx)
      BY <2>1, <2>2, <3>1
    <3>3. UNCHANGED <<ball_ms, hit_count>>
      BY <2>2 DEF tempo
    <3> QED BY <3>2, <3>3, BallTypes DEF PongTypes, PongTypeOK, PongTempo
  <2>3. CASE Returned("player", at_y)
    <3>1. Returned("player", row) /\ BallAt(PongCols - 2, row, -1)
      BY <2>1, <2>3, PongSizes DEF Returned, COL_PLAYER_PADDLE
    <3>2. PongCols - 2 \in 1..PongCols - 2
      BY PongSizes
    <3> QED BY <3>1, <3>2, BallTypes, HitTypes DEF PongTypes, PongTypeOK
  <2>4. CASE Returned("badge", at_y)
    <3>1. Returned("badge", row) /\ BallAt(1, row, 1)
      BY <2>1, <2>4 DEF Returned, COL_CPU_PADDLE
    <3>2. 1 \in 1..PongCols - 2
      BY PongSizes
    <3> QED BY <3>1, <3>2, BallTypes, HitTypes DEF PongTypes, PongTypeOK
  <2>5. ASSUME NEW won \in {"badge", "player"}, pong_exit(won) PROVE PongTypes'
    <3>1. PongTypeOK'
      BY <2>5, StartTypes DEF pong_exit, PongTypeOK
    <3>2. PongTempo'
      BY <2>5, PongTempoAtRest DEF pong_exit, PongTempo
    <3> QED BY <3>1, <3>2 DEF PongTypes
  <2> QED BY <1>3, <2>2, <2>3, <2>4, <2>5, PongTickCases
<1>4. CASE UNCHANGED <<fb, pongVars>>
  BY <1>4 DEF pongVars, ball, tempo, paddles, PongTypes, PongTypeOK, PongTempo
<1> QED BY <1>1, <1>2, <1>3, <1>4 DEF pongNext

-----------------------------------------------------------------------------
(* The badge's paddle and the ball.                                        *)

\* A tick brings the paddle level with the ball, or a tick nearer to being so.
LEMMA Tracking ==
  ASSUME PongTypes,
         NEW row \in 0..PongRows - 1, row = BouncedY(ball_y + ball_dy),
         NEW dy \in {1, -1}, dy = BouncedDy(ball_y + ball_dy),
         NEW c \in 1..PongRows - 2, c = cpu_move(row, -1) + 1
  PROVE  /\ Tracked(ball_y, ball_dy, cpu_y + 1) => Meets(row, cpu_y) /\ Tracked(row, dy, c)
         /\ ~Tracked(ball_y, ball_dy, cpu_y + 1) =>
              /\ Needed(ball_y, ball_dy, cpu_y + 1) >= 1
              /\ \/ Tracked(row, dy, c)
                 \/ Needed(row, dy, c) <= Needed(ball_y, ball_dy, cpu_y + 1) - 1
<1>1. PICK r \in Nat : r = PongRows /\ r >= 3
  BY PongSizes
<1>2. PICK v \in 0..r - 1 : v = ball_y
  BY <1>1 DEF PongTypes, PongTypeOK
<1>3. PICK d \in {1, -1} : d = ball_dy
  BY DEF PongTypes, PongTypeOK
<1>4. PICK b \in 1..r - 2 : b = cpu_y + 1
  BY <1>1 DEF PongTypes, PongTypeOK, PADDLE_LEN
<1>5. row = IF v + d < 0 THEN 0 ELSE IF v + d >= r THEN r - 1 ELSE v + d
  BY <1>1, <1>2, <1>3 DEF BouncedY
<1>6. dy = IF v + d < 0 THEN 1 ELSE IF v + d >= r THEN -1 ELSE d
  BY <1>1, <1>2, <1>3 DEF BouncedDy
<1>7. c = IF row < b /\ b > 1 THEN b - 1 ELSE IF row > b /\ b < r - 2 THEN b + 1 ELSE b
  <2>1. PADDLE_LEN \div 2 = 1
    BY DEF PADDLE_LEN
  <2>2. cpu_y \in Int /\ cpu_y = b - 1
    BY <1>4 DEF PongTypes, PongTypeOK
  <2>3. cpu_move(row, -1) =
          CASE -1 < 0 /\ row < b /\ cpu_y > 0 -> cpu_y - 1
            [] -1 < 0 /\ row > b /\ cpu_y + 3 < r -> cpu_y + 1
            [] OTHER -> cpu_y
    BY <1>1, <1>4, <2>1 DEF cpu_move, PADDLE_LEN
  <2>4. CASE row < b
    BY <1>1, <2>2, <2>3, <2>4
  <2>5. CASE row > b
    BY <1>1, <2>2, <2>3, <2>5
  <2>6. CASE row = b
    BY <1>1, <2>2, <2>3, <2>6
  <2> QED BY <1>1, <2>4, <2>5, <2>6
<1>8. Meets(row, cpu_y) <=> row >= b - 1 /\ row <= b + 1
  <2>1. cpu_y \in Int /\ cpu_y = b - 1
    BY <1>4 DEF PongTypes, PongTypeOK
  <2> QED BY <1>1, <2>1 DEF Meets, PADDLE_LEN
<1>9. CASE Tracked(v, d, b)
  <2>1. /\ \/ v = b
           \/ v = b - 1 /\ d = 1
           \/ v = b + 1 /\ d = -1
           \/ v = 0 /\ b = 1
           \/ v = r - 1 /\ b = r - 2
    BY <1>1, <1>9 DEF Tracked
  <2>2. row >= b - 1 /\ row <= b + 1
    BY <1>1, <1>5, <2>1
  <2>3. /\ \/ row = c
           \/ row = c - 1 /\ dy = 1
           \/ row = c + 1 /\ dy = -1
           \/ row = 0 /\ c = 1
           \/ row = r - 1 /\ c = r - 2
    BY <1>1, <1>5, <1>6, <1>7, <2>1
  <2> QED BY <1>1, <1>2, <1>3, <1>4, <1>8, <1>9, <2>2, <2>3 DEF Tracked
<1>10. CASE ~Tracked(v, d, b)
  <2> DEFINE n == Needed(v, d, b)
             m == Needed(row, dy, c)
  <2>1. /\ v # b
        /\ ~(v = b - 1 /\ d = 1) /\ ~(v = b + 1 /\ d = -1)
        /\ ~(v = 0 /\ b = 1) /\ ~(v = r - 1 /\ b = r - 2)
    BY <1>1, <1>10 DEF Tracked
  <2>2. n = IF v < b THEN (IF d = 1 THEN b - v ELSE b + 1)
            ELSE (IF d = 1 THEN r - b ELSE v - b)
    BY <1>1 DEF Needed
  <2>3. m = IF row < c THEN (IF dy = 1 THEN c - row ELSE c + 1)
            ELSE (IF dy = 1 THEN r - c ELSE row - c)
    BY <1>1 DEF Needed
  <2>4. n >= 1
    BY <1>1, <2>1, <2>2
  <2>5. row = c \/ m <= n - 1
    <3>1. CASE v < b
      BY <1>1, <1>5, <1>6, <1>7, <2>1, <2>2, <2>3, <3>1
    <3>2. CASE v > b
      BY <1>1, <1>5, <1>6, <1>7, <2>1, <2>2, <2>3, <3>2
    <3> QED BY <1>1, <2>1, <3>1, <3>2
  <2>6. row = c => Tracked(row, dy, c)
    BY DEF Tracked
  <2> QED BY <1>2, <1>3, <1>4, <1>10, <2>4, <2>5, <2>6
<1> QED BY <1>2, <1>3, <1>4, <1>9, <1>10

\* Nothing needs more ticks than the display has rows.
LEMMA NeededBounded ==
  ASSUME NEW row \in 0..PongRows - 1, NEW dy \in {1, -1}, NEW c \in 1..PongRows - 2
  PROVE  Needed(row, dy, c) <= PongRows - 1
  BY PongSizes DEF Needed

\* The ball that comes: Tracking carries Catches from one tick to the next.
LEMMA CatchesFlight ==
  ASSUME PongTypes, Catches, rally, ball_dx = -1,
         NEW row \in 0..PongRows - 1, row = BouncedY(ball_y + ball_dy)
  PROVE  /\ ball_x = 1 => Meets(row, cpu_y)
         /\ BallAt(ball_x - 1, row, -1) => Catches'
<1>1. PICK dy \in {1, -1} : dy = BouncedDy(ball_y + ball_dy)
  BY BounceTypes
<1>2. PICK c \in 1..PongRows - 2 : c = cpu_move(row, -1) + 1
  <2>1. cpu_move(row, -1) \in 0..PongRows - PADDLE_LEN
    BY CpuTypes
  <2> QED BY <2>1, PongSizes DEF PADDLE_LEN
<1>3. PICK n : n = Needed(ball_y, ball_dy, cpu_y + 1)
  OBVIOUS
<1>4. n \in Int /\ ball_x \in Nat
  BY <1>3, PongSizes DEF Needed, PongTypes, PongTypeOK, PADDLE_LEN, COL_CPU_PADDLE
<1>5. Tracked(ball_y, ball_dy, cpu_y + 1) \/ ball_x >= n + 1
  BY <1>3 DEF Catches
<1>6. /\ Tracked(ball_y, ball_dy, cpu_y + 1) => Meets(row, cpu_y) /\ Tracked(row, dy, c)
      /\ ~Tracked(ball_y, ball_dy, cpu_y + 1) =>
           n >= 1 /\ (Tracked(row, dy, c) \/ Needed(row, dy, c) <= n - 1)
  BY <1>1, <1>2, <1>3, Tracking
<1>7. ball_x = 1 => Meets(row, cpu_y)
  BY <1>4, <1>5, <1>6
<1>8. ASSUME BallAt(ball_x - 1, row, -1) PROVE Catches'
  <2>1. /\ ball_x' = ball_x - 1 /\ ball_y' = row /\ ball_dx' = -1 /\ ball_dy' = dy
        /\ cpu_y' = cpu_move(row, -1)
    BY <1>1, <1>8 DEF BallAt
  <2>2. cpu_y' + 1 = c
    BY <1>2, <2>1
  <2>3. Needed(row, dy, c) \in Int
    BY PongSizes DEF Needed
  <2>4. Tracked(row, dy, c) \/ ball_x - 1 >= Needed(row, dy, c) + 1
    BY <1>4, <1>5, <1>6, <2>3
  <2> QED BY <2>1, <2>2, <2>4 DEF Catches
<1> QED BY <1>7, <1>8

LEMMA CatchesStep ==
  ASSUME PongWide, PongTypes, Catches, [pongNext]_<<fb, pongVars>>
  PROVE  Catches' /\ (winner' = "player" => winner = "player")
<1>1. CASE pong_start
  <2>1. /\ ball_x' = COL_BALL_SPAWN /\ ball_y' = PongRows \div 2 /\ cpu_y' = Middle
        /\ ball_dy' \in {1, -1} /\ winner' = winner
    BY <1>1 DEF pong_start
  <2>2. PICK dy \in {1, -1} : dy = ball_dy'
    BY <2>1
  <2>3. PICK h \in Nat, m \in Nat, r \in Nat, x \in Nat :
          h = PongRows \div 2 /\ m = Middle + 1 /\ r = PongRows /\ x = COL_BALL_SPAWN
    BY PongSizes
  <2>4. h \in {m, m + 1} /\ 2 * h <= r /\ 2 * x >= r + 3 /\ r >= 3 /\ m >= 1
    BY <2>3, PongSizes DEF PongWide
  <2>5. Tracked(h, dy, m) \/ x >= Needed(h, dy, m) + 1
    <3>1. Needed(h, dy, m) = IF h < m THEN (IF dy = 1 THEN m - h ELSE m + 1)
                             ELSE (IF dy = 1 THEN r - m ELSE h - m)
      BY <2>3 DEF Needed
    <3>2. h = m \/ h = m + 1
      BY <2>4
    <3>3. CASE h = m
      BY <3>3 DEF Tracked
    <3>4. CASE h = m + 1 /\ dy = -1
      BY <3>4 DEF Tracked
    <3>5. CASE h = m + 1 /\ dy = 1
      <4>1. r = 2 * h
        BY <2>3, <3>5, PongSizes
      <4> QED BY <2>4, <3>1, <3>5, <4>1
    <3> QED BY <3>2, <3>3, <3>4, <3>5
  <2> QED BY <2>1, <2>2, <2>3, <2>5 DEF Catches
<1>2. CASE move_paddle_up \/ move_paddle_down
  BY <1>2 DEF move_paddle_up, move_paddle_down, PlayerMoves, Catches, ball
<1>3. CASE ball_tick
  <2>1. PICK row \in 0..PongRows - 1 : row = BouncedY(ball_y + ball_dy)
    BY BounceTypes
  <2>2. rally /\ ball_dx \in {1, -1}
    BY <1>3, PongTickCases DEF PongTypes, PongTypeOK
  <2>3. CASE BallAt(ball_x + ball_dx, row, ball_dx)
    <3>1. ball_dx' = ball_dx /\ winner' = winner
      BY <2>3 DEF BallAt
    <3>2. CASE ball_dx = 1
      BY <3>1, <3>2 DEF Catches
    <3>3. CASE ball_dx = -1
      <4>1. BallAt(ball_x - 1, row, -1)
        <5>1. ball_x + ball_dx = ball_x - 1
          BY <3>3 DEF PongTypes, PongTypeOK
        <5> QED BY <2>3, <3>3, <5>1
      <4> QED BY <2>1, <2>2, <3>1, <3>3, <4>1, CatchesFlight
    <3> QED BY <2>2, <3>2, <3>3
  <2>4. CASE Returned("player", row)
    <3>1. BallAt(PongCols - 2, row, -1)
      BY <2>4, PongSizes DEF Returned, COL_PLAYER_PADDLE
    <3>2. PICK dy \in {1, -1} : dy = BouncedDy(ball_y + ball_dy)
      BY BounceTypes
    <3>3. PICK c \in 1..PongRows - 2 : c = cpu_move(row, -1) + 1
      <4>1. cpu_move(row, -1) \in 0..PongRows - PADDLE_LEN
        BY CpuTypes
      <4> QED BY <4>1, PongSizes DEF PADDLE_LEN
    <3>4. /\ ball_x' = PongCols - 2 /\ ball_y' = row /\ ball_dy' = dy
          /\ cpu_y' + 1 = c /\ winner' = winner
      BY <3>1, <3>2, <3>3 DEF BallAt
    <3>5. Needed(row, dy, c) <= PongRows - 1 /\ Needed(row, dy, c) \in Int
      BY PongSizes, NeededBounded DEF Needed
    <3>6. PongCols - 2 >= Needed(row, dy, c) + 1
      BY <3>5, PongSizes DEF PongWide
    <3> QED BY <3>4, <3>6 DEF Catches
  <2>5. CASE Returned("badge", row)
    BY <2>5 DEF Returned, BallAt, Catches
  <2>6. CASE pong_exit("badge")
    BY <2>6 DEF pong_exit, Catches
  <2>7. CASE ball_dx = -1 /\ ball_x = 1 /\ ~Meets(row, cpu_y)
    BY <2>1, <2>2, <2>7, CatchesFlight
  <2> QED BY <1>3, <2>1, <2>3, <2>4, <2>5, <2>6, <2>7, PongTickCases
<1>4. CASE UNCHANGED <<fb, pongVars>>
  BY <1>4 DEF pongVars, ball, paddles, Catches
<1> QED BY <1>1, <1>2, <1>3, <1>4 DEF pongNext

-----------------------------------------------------------------------------
(* The hits.                                                               *)

HitInv == HitsAlternate /\ ServedToPlayerNeverFaster

LEMMA HitStep ==
  ASSUME PongTypes, HitInv, [pongNext]_<<fb, pongVars>>
  PROVE  HitInv'
<1>1. CASE pong_start
  BY <1>1 DEF pong_start, HitInv, HitsAlternate, ServedToPlayerNeverFaster
<1>2. CASE move_paddle_up \/ move_paddle_down
  BY <1>2 DEF move_paddle_up, move_paddle_down, PlayerMoves, ball, tempo, HitInv,
              HitsAlternate, ServedToPlayerNeverFaster
<1>3. CASE ball_tick
  <2> DEFINE at_y == BouncedY(ball_y + ball_dy)
  <2>1. CASE BallAt(ball_x + ball_dx, at_y, ball_dx) /\ UNCHANGED tempo
    BY <2>1 DEF BallAt, tempo, HitInv, HitsAlternate, ServedToPlayerNeverFaster
  <2>2. CASE ball_dx = 1 /\ Returned("player", at_y)
    <3>1. ball_dx' = -1 /\ served' = served /\ hit_count' = (hit_count + 1) % 4
      BY <2>2 DEF Returned, BallAt, BALL_ACCEL_HITS
    <3>2. served = 1 => hit_count \in {0, 2}
      BY <2>2 DEF HitInv, HitsAlternate
    <3>3. served = 1 => hit_count' \in {1, 3} /\ ~Accelerates("player")
      BY <3>1, <3>2 DEF Accelerates, BALL_ACCEL_HITS
    <3>4. ~Accelerates("player") => ball_ms' = ball_ms
      BY <2>2 DEF Returned
    <3> QED BY <3>1, <3>3, <3>4 DEF HitInv, HitsAlternate, ServedToPlayerNeverFaster
  <2>3. CASE ball_dx = -1 /\ Returned("badge", at_y)
    <3>1. ball_dx' = 1 /\ served' = served /\ hit_count' = (hit_count + 1) % 4
      BY <2>3 DEF Returned, BallAt, BALL_ACCEL_HITS
    <3>2. served = 1 => hit_count \in {1, 3}
      BY <2>3 DEF HitInv, HitsAlternate
    <3>3. served = 1 => hit_count' \in {0, 2}
      BY <3>1, <3>2
    <3>4. ball_ms' = ball_ms
      BY <2>3 DEF Returned, Accelerates
    <3> QED BY <3>1, <3>3, <3>4 DEF HitInv, HitsAlternate, ServedToPlayerNeverFaster
  <2>4. CASE \E won \in {"badge", "player"} : pong_exit(won)
    BY <2>4 DEF pong_exit, HitInv, HitsAlternate, ServedToPlayerNeverFaster
  <2> QED BY <1>3, <2>1, <2>2, <2>3, <2>4, PongTickCases
<1>4. CASE UNCHANGED <<fb, pongVars>>
  BY <1>4 DEF pongVars, ball, tempo, HitInv, HitsAlternate, ServedToPlayerNeverFaster
<1> QED BY <1>1, <1>2, <1>3, <1>4 DEF pongNext

-----------------------------------------------------------------------------
(* What is drawn.                                                          *)

\* The two paddles are on the board, apart from each other and from the ball.
LEMMA Apart ==
  ASSUME NEW top \in 0..PongRows - 3, NEW other \in 0..PongRows - 3,
         NEW x \in 1..PongCols - 2, NEW row \in 0..PongRows - 1
  PROVE  /\ Paddle(COL_CPU_PADDLE, top) \subseteq PongBoard
         /\ Paddle(COL_PLAYER_PADDLE, top) \subseteq PongBoard
         /\ <<x, row>> \in PongBoard
         /\ Paddle(COL_CPU_PADDLE, top) \cap Paddle(COL_PLAYER_PADDLE, other) = {}
         /\ <<x, row>> \notin Paddle(COL_CPU_PADDLE, top)
         /\ <<x, row>> \notin Paddle(COL_PLAYER_PADDLE, top)
  BY PongSizes DEF Paddle, PongBoard, Box, COL_CPU_PADDLE, COL_PLAYER_PADDLE, PADDLE_LEN

LEMMA PictureStep ==
  ASSUME PongTypes, PongTypes', PongPicture, [pongNext]_<<fb, pongVars>>
  PROVE  PongPicture'
<1>0. /\ ball_x \in 1..PongCols - 2 /\ ball_y \in 0..PongRows - 1
      /\ cpu_y \in 0..PongRows - 3 /\ player_y \in 0..PongRows - 3
      /\ ball_x' \in 1..PongCols - 2 /\ ball_y' \in 0..PongRows - 1
      /\ cpu_y' \in 0..PongRows - 3 /\ player_y' \in 0..PongRows - 3
  BY PongSizes DEF PongTypes, PongTypeOK, COL_CPU_PADDLE, COL_PLAYER_PADDLE, PADDLE_LEN
<1>1. PICK cpu, player, spot, cpu2, player2, spot2 :
        /\ cpu = Paddle(COL_CPU_PADDLE, cpu_y) /\ player = Paddle(COL_PLAYER_PADDLE, player_y)
        /\ spot = <<ball_x, ball_y>>
        /\ cpu2 = Paddle(COL_CPU_PADDLE, cpu_y') /\ player2 = Paddle(COL_PLAYER_PADDLE, player_y')
        /\ spot2 = <<ball_x', ball_y'>>
  OBVIOUS
<1>2. /\ cpu \in SUBSET PongBoard /\ player \in SUBSET PongBoard /\ spot \in PongBoard
      /\ cpu \cap player = {} /\ spot \notin cpu /\ spot \notin player
  BY <1>0, <1>1, Apart
<1>3. /\ cpu2 \in SUBSET PongBoard /\ player2 \in SUBSET PongBoard /\ spot2 \in PongBoard
      /\ cpu2 \cap player2 = {} /\ spot2 \notin cpu2 /\ spot2 \notin player2
  BY <1>0, <1>1, Apart
<1>4. rally => fb = cpu \cup player \cup {spot}
  BY <1>1 DEF PongPicture
<1>5. PongPicture' <=> (rally' => fb' = cpu2 \cup player2 \cup {spot2})
  BY <1>1 DEF PongPicture, COL_CPU_PADDLE, COL_PLAYER_PADDLE, Paddle
<1>6. CASE pong_start
  <2>1. fb' = Drawn({}, cpu2 \cup player2 \cup {spot2}, PongBoard)
    BY <1>1, <1>6 DEF pong_start
  <2>2. Drawn({}, cpu2 \cup player2 \cup {spot2}, PongBoard) = cpu2 \cup player2 \cup {spot2}
    BY <1>3 DEF Drawn
  <2> QED BY <1>5, <2>1, <2>2
<1>7. CASE move_paddle_up \/ move_paddle_down
  <2>1. rally /\ cpu2 = cpu /\ spot2 = spot
    BY <1>1, <1>7 DEF move_paddle_up, move_paddle_down, PlayerMoves, ball
  <2>2. fb' = Drawn(Erased(fb, player), player2, PongBoard)
    BY <1>1, <1>7 DEF move_paddle_up, move_paddle_down, PlayerMoves
  <2>3. PICK f : f = fb
    OBVIOUS
  <2>4. Drawn(Erased(f, player), player2, PongBoard) = cpu \cup player2 \cup {spot}
    <3>1. f = cpu \cup player \cup {spot}
      BY <1>4, <2>1, <2>3
    <3> QED BY <1>2, <1>3, <3>1 DEF Drawn, Erased
  <2> QED BY <1>5, <2>1, <2>2, <2>3, <2>4
<1>8. CASE ball_tick
  <2>1. ASSUME NEW x, NEW row, NEW dx, BallAt(x, row, dx) PROVE PongPicture'
    <3>1. player2 = player /\ spot2 = <<x, row>>
      BY <1>1, <2>1 DEF BallAt
    <3>2. fb' = Drawn(Drawn(Erased(Erased(fb, {spot}), cpu), cpu2, PongBoard),
                      {spot2}, PongBoard)
      BY <1>1, <2>1, <3>1 DEF BallAt
    <3>3. PICK f : f = fb
      OBVIOUS
    <3>4. rally
      BY <1>8, PongTickCases
    <3>5. Drawn(Drawn(Erased(Erased(f, {spot}), cpu), cpu2, PongBoard), {spot2}, PongBoard)
            = cpu2 \cup player \cup {spot2}
      <4>1. f = cpu \cup player \cup {spot}
        BY <1>4, <3>3, <3>4
      <4> QED BY <1>2, <1>3, <4>1 DEF Drawn, Erased
    <3> QED BY <1>5, <3>1, <3>2, <3>3, <3>5
  <2>2. CASE \E by \in {"player", "badge"} : Returned(by, BouncedY(ball_y + ball_dy))
    BY <2>1, <2>2 DEF Returned
  <2>3. CASE \E won \in {"player", "badge"} : pong_exit(won)
    BY <1>5, <2>3 DEF pong_exit
  <2> QED BY <1>8, <2>1, <2>2, <2>3, PongTickCases
<1>9. CASE UNCHANGED <<fb, pongVars>>
  BY <1>9 DEF pongVars, ball, paddles, PongPicture
<1> QED BY <1>6, <1>7, <1>8, <1>9 DEF pongNext

-----------------------------------------------------------------------------
PongInv == PongSafe /\ PongTempo /\ HitsAlternate /\ Catches

LEMMA PongRestsInv == pongRests => PongInv
<1> SUFFICES ASSUME pongRests PROVE PongInv
  OBVIOUS
<1>1. ~rally /\ served = 1 /\ ball_dx = 1 /\ hit_count = 0 /\ winner = "nobody"
      /\ ball_ms = BALL_TICK_INIT_MS
  BY DEF pongRests
<1>2. PongTypes
  BY PongTypeInit
<1> QED BY <1>1, <1>2 DEF PongInv, PongSafe, PongTypes, PongPicture, BadgeNeverMisses,
                          ServedToPlayerNeverFaster, HitsAlternate, Catches

LEMMA PongInvStep ==
  ASSUME PongWide
  PROVE  PongInv /\ [pongNext]_<<fb, pongVars>> => PongInv'
<1> SUFFICES ASSUME PongInv, [pongNext]_<<fb, pongVars>> PROVE PongInv'
  OBVIOUS
<1>1. PongTypes /\ HitInv /\ Catches /\ PongPicture /\ winner # "player"
  BY DEF PongInv, PongSafe, PongTypes, HitInv, BadgeNeverMisses
<1>2. PongTypes'
  BY <1>1, PongTypeStep
<1>3. HitInv'
  BY <1>1, HitStep
<1>4. Catches' /\ winner' # "player"
  BY <1>1, CatchesStep
<1>5. PongPicture'
  BY <1>1, <1>2, PictureStep
<1> QED BY <1>2, <1>3, <1>4, <1>5 DEF PongInv, PongSafe, PongTypes, HitInv, BadgeNeverMisses

\* On a display at least four columns wider than tall, whatever the player does: the
\* rally is drawn as it is played, a ball served to the player never gets faster, and
\* the badge never misses (pong.c:97-296).
THEOREM PongSafeHolds ==
  ASSUME PongWide
  PROVE  pongSpec => []PongSafe
<1>1. pongInit => PongInv
  BY PongRestsInv DEF pongInit
<1>2. PongInv => PongSafe
  BY DEF PongInv
<1> QED BY <1>1, <1>2, PongInvStep, PTL DEF pongSpec

-----------------------------------------------------------------------------
(* Display, for any number of rows and whatever is painted.                   *)

\* The LEDs of two columns of fb, at the pin that drives them.
Leds(f, d) == led_write2dcol(d, Rows(f, 2 * d), Rows(f, 2 * d + 1))

Dcols == 0..2 * DisplayRows - 1

\* For how many interrupts an LED was lit, when its pin came up some interrupts ago.
Lit(led) ==
  IF led_brightness + 1 <= i - 4 * led[1] + 1 THEN led_brightness + 1 ELSE i - 4 * led[1] + 1

DisplayTypes ==
  /\ i \in 0..ScanEnd - 1 /\ led_brightness \in 0..3 /\ steady_fb \in BOOLEAN
  /\ fb \in Pictures
  /\ on \subseteq (0..LED_PINCOUNT - 1) \X (0..LED_PINCOUNT - 1)

\* In a scan in which nothing changed the pins up to that of i have been through, and
\* the LEDs of each were lit as long as the brightness says, or are still.
ScanSoFar ==
  /\ on = IF i % 4 <= led_brightness THEN Leds(fb, i \div 4) ELSE {}
  /\ DOMAIN glow = UNION {Leds(fb, d) : d \in 0..i \div 4}
  /\ \A led \in DOMAIN glow : glow[led] = Lit(led)

DisplayInv ==
  /\ DisplayTypes /\ OneHighPin
  /\ ~steady_fb => glow = Nothing
  /\ steady_fb => ScanSoFar

LEMMA DisplaySizes ==
  /\ DisplayRows \in Nat /\ DisplayRows >= 1 /\ DisplayCols = 4 * DisplayRows
  /\ LED_PINCOUNT = 2 * DisplayRows + 1 /\ ScanEnd = 8 * DisplayRows
<1>1. DisplayRows \in Nat /\ DisplayRows >= 1 /\ DisplayCols = 4 * DisplayRows
  BY DisplayAssumption
<1> QED BY <1>1 DEF LED_PINCOUNT, ScanEnd

LEMMA DivFour ==
  ASSUME NEW k \in Int
  PROVE  k = 4 * (k \div 4) + (k % 4)
OBVIOUS

LEMMA LedFacts ==
  ASSUME fb \in Pictures, NEW d \in Dcols
  PROVE  \A led \in Leds(fb, d) : /\ led = <<led[1], led[2]>> /\ led[1] = d
                              /\ led[2] \in 0..LED_PINCOUNT - 1 /\ led[2] # d
<1>1. \A col : Rows(fb, col) \subseteq 0..15
  <2>1. fb \subseteq (0..DisplayCols - 1) \X (0..15)
    BY DisplayAssumption
  <2> QED BY <2>1 DEF Rows
<1>2. ASSUME NEW col1 \in SUBSET (0..15), NEW col2 \in SUBSET (0..15)
      PROVE  combine_cols(col1, col2) \subseteq Nat
  <2>1. \A r \in 0..15 : 2 * r \in Nat /\ 2 * r + 1 \in Nat
    OBVIOUS
  <2> QED BY <2>1 DEF combine_cols
<1>3. ASSUME NEW col1 \in SUBSET (0..15), NEW col2 \in SUBSET (0..15)
      PROVE  Switched(d, col1, col2)[1] \in SUBSET (0..15) /\ Switched(d, col1, col2)[2] \in SUBSET (0..15)
  BY DEF Switched
<1>4. ASSUME NEW val \in SUBSET Nat, NEW led \in led_write2dcol_raw(d, val)
      PROVE  /\ led = <<led[1], led[2]>> /\ led[1] = d
             /\ led[2] \in 0..LED_PINCOUNT - 1 /\ led[2] # d
  <2>1. PICK bit \in val : led = <<d, PinOf(d, bit)>> /\ led[2] < LED_PINCOUNT
    BY <1>4 DEF led_write2dcol_raw
  <2>2. PinOf(d, bit) \in Nat /\ PinOf(d, bit) # d
    BY <2>1 DEF PinOf, Dcols
  <2> QED BY <2>1, <2>2, DisplaySizes
<1> QED
  <2>1. PICK a \in SUBSET (0..15), b \in SUBSET (0..15) :
          a = Rows(fb, 2 * d) /\ b = Rows(fb, 2 * d + 1)
    BY <1>1
  <2>2. Leds(fb, d) = led_write2dcol_raw(d, combine_cols(Switched(d, a, b)[1], Switched(d, a, b)[2]))
    BY <2>1 DEF Leds, led_write2dcol
  <2> QED BY <1>2, <1>3, <1>4, <2>2

LEMMA DisplayInvImplies == DisplayInv => PinsSafe
<1> SUFFICES ASSUME DisplayInv PROVE DisplayTypeOK
  BY DEF PinsSafe, DisplayInv
<1>1. ASSUME NEW led \in DOMAIN glow
      PROVE  glow[led] \in 1..4
  <2>1. steady_fb
    BY DEF DisplayInv, Nothing
  <2>2. PICK d \in 0..i \div 4 : led \in Leds(fb, d)
    BY <2>1 DEF DisplayInv, ScanSoFar
  <2>3. d \in Dcols /\ i \in Nat /\ 4 * d <= i
    BY DisplaySizes DEF DisplayInv, DisplayTypes, Dcols
  <2>4. led[1] = d
    BY <2>2, <2>3, LedFacts DEF DisplayInv, DisplayTypes
  <2>5. glow[led] = Lit(led)
    BY <2>1 DEF DisplayInv, ScanSoFar
  <2> QED BY <2>3, <2>4, <2>5 DEF DisplayInv, DisplayTypes, Lit
<1> QED BY <1>1 DEF DisplayInv, DisplayTypes, DisplayTypeOK

LEMMA RestsDisplay == displayRests /\ fb \in Pictures => DisplayInv
<1> SUFFICES ASSUME displayRests, fb \in Pictures PROVE DisplayInv
  OBVIOUS
<1>1. 0 \in 0..ScanEnd - 1 /\ FALSE \in BOOLEAN
  BY DisplaySizes
<1>2. DisplayTypes
  BY <1>1 DEF displayRests, DisplayTypes
<1> QED BY <1>2 DEF displayRests, DisplayInv, OneHighPin

\* The LEDs of one pin are on, or none.
LEMMA LedsAtOnePin ==
  ASSUME fb \in Pictures, NEW d \in Dcols
  PROVE  /\ Leds(fb, d) \subseteq (0..LED_PINCOUNT - 1) \X (0..LED_PINCOUNT - 1)
         /\ \A a, b \in Leds(fb, d) : a[1] = b[1] /\ a[1] # b[2]
<1>1. d \in 0..LED_PINCOUNT - 1
  BY DisplaySizes DEF Dcols
<1> QED BY <1>1, LedFacts

LEMMA IrqStep ==
  ASSUME DisplayInv, TMR0_IRQHandler
  PROVE  DisplayInv'
<1>0. /\ i \in 0..8 * DisplayRows - 1 /\ led_brightness \in 0..3 /\ steady_fb \in BOOLEAN
      /\ fb \in Pictures /\ fb' = fb /\ led_brightness' = led_brightness
      /\ on \subseteq (0..LED_PINCOUNT - 1) \X (0..LED_PINCOUNT - 1)
  BY DisplaySizes DEF DisplayInv, DisplayTypes, TMR0_IRQHandler
<1>1. fb' = fb
  BY <1>0
<1>2. CASE i + 1 >= ScanEnd
  <2>1. i + 1 = 8 * DisplayRows /\ (i + 1) % 4 = 0
    BY <1>0, <1>2, DisplaySizes
  <2>2. i' = 0 /\ steady_fb' = TRUE
    BY <1>2 DEF TMR0_IRQHandler
  <2>3. on' = Leds(fb, 0)
    <3>1. i' \div 4 = 0 /\ i' \div 2 = 0 /\ 2 * 0 = 0
      BY <2>2
    <3>2. on' = led_write2dcol(i' \div 4, Rows(fb, i' \div 2), Rows(fb, i' \div 2 + 1))
      BY <2>1 DEF TMR0_IRQHandler
    <3> QED BY <3>1, <3>2 DEF Leds
  <2>4. DOMAIN glow' = Leds(fb, 0) /\ \A led \in Leds(fb, 0) : glow'[led] = 1
    <3>1. glow' = [led \in DOMAIN Nothing \cup on' |->
                     (IF led \in DOMAIN Nothing THEN Nothing[led] ELSE 0)
                       + (IF led \in on' THEN 1 ELSE 0)]
      BY <1>2, <2>2 DEF TMR0_IRQHandler
    <3>2. DOMAIN Nothing = {}
      BY DEF Nothing
    <3> QED BY <2>3, <3>1, <3>2
  <2>5. 0 \in Dcols
    BY DisplaySizes DEF Dcols
  <2>6. OneHighPin' /\ on' \subseteq (0..LED_PINCOUNT - 1) \X (0..LED_PINCOUNT - 1)
    BY <1>0, <2>3, <2>5, LedsAtOnePin DEF OneHighPin
  <2>7. ScanSoFar'
    <3>1. i' % 4 = 0 /\ i' \div 4 = 0 /\ 0..0 = {0}
      BY <2>2
    <3>2. on' = Leds(fb', 0) /\ 0 <= led_brightness'
      BY <1>0, <1>1, <2>3
    <3>3. DOMAIN glow' = UNION {Leds(fb', d) : d \in 0..0}
      BY <1>1, <2>4, <3>1
    <3>4. \A led \in Leds(fb, 0) : Lit(led)' = 1
      <4>1. \A led \in Leds(fb, 0) : led[1] = 0
        BY <1>0, <2>5, LedFacts
      <4> QED BY <1>0, <2>2, <4>1 DEF Lit
    <3> QED BY <2>2, <2>4, <3>1, <3>2, <3>3, <3>4 DEF ScanSoFar
  <2> QED BY <1>0, <2>2, <2>6, <2>7, DisplaySizes DEF DisplayInv, DisplayTypes
<1>3. CASE ~(i + 1 >= ScanEnd)
  <2>1. i' = i + 1 /\ i' \in 0..8 * DisplayRows - 1 /\ steady_fb' = steady_fb
    BY <1>0, <1>3, DisplaySizes DEF TMR0_IRQHandler
  <2>2. PICK d \in Dcols : d = i' \div 4
    BY <2>1, DisplaySizes DEF Dcols
  <2>3. PICK state \in 0..3 : state = i' % 4
    BY <2>1
  <2>4. i' = 4 * d + state /\ d \in Nat /\ (state = 0 => i' \div 2 = 2 * d)
    <3>1. i' \in Nat
      BY <2>1, DisplaySizes
    <3>2. i' = 4 * (i' \div 4) + (i' % 4)
      <4>1. PICK k \in Int : k = i'
        BY <3>1
      <4>2. k = 4 * (k \div 4) + (k % 4)
        BY DivFour
      <4> QED BY <4>1, <4>2
    <3>3. d \in Nat
      BY DEF Dcols
    <3>4. i' = 4 * d + state
      BY <2>2, <2>3, <3>2
    <3>5. ASSUME state = 0 PROVE i' \div 2 = 2 * d
      BY <3>1, <3>3, <3>4, <3>5
    <3> QED BY <3>3, <3>4, <3>5
  <2>5. on' = IF state = 0 THEN Leds(fb, d) ELSE IF state > led_brightness THEN {} ELSE on
    <3>1. on' = CASE state = 0 -> led_write2dcol(d, Rows(fb, i' \div 2), Rows(fb, i' \div 2 + 1))
                  [] state # 0 /\ Released(state) -> {}
                  [] OTHER -> on
      BY <2>1, <2>2, <2>3 DEF TMR0_IRQHandler
    <3>2. state = 0 => i' \div 2 = 2 * d
      BY <2>4
    <3> QED BY <3>1, <3>2 DEF Leds, Released
  <2>6. OneHighPin' /\ on' \subseteq (0..LED_PINCOUNT - 1) \X (0..LED_PINCOUNT - 1)
    <3>1. CASE on' = Leds(fb, d)
      BY <1>0, <3>1, LedsAtOnePin DEF OneHighPin
    <3>2. CASE on' = {}
      BY <3>2 DEF OneHighPin
    <3>3. CASE on' = on
      BY <1>0, <3>3 DEF DisplayInv, OneHighPin
    <3> QED BY <2>5, <3>1, <3>2, <3>3
  <2>7. CASE ~steady_fb
    <3>1. glow' = Nothing
      BY <2>1, <2>7 DEF TMR0_IRQHandler
    <3> QED BY <1>0, <2>1, <2>6, <2>7, <3>1, DisplaySizes DEF DisplayInv, DisplayTypes
  <2>8. CASE steady_fb
    <3>1. ScanSoFar
      BY <2>8 DEF DisplayInv
    <3>2. glow' = [led \in DOMAIN glow \cup on' |->
                     (IF led \in DOMAIN glow THEN glow[led] ELSE 0)
                       + (IF led \in on' THEN 1 ELSE 0)]
      BY <1>3, <2>1, <2>8 DEF TMR0_IRQHandler
    <3>3. ASSUME NEW e \in 0..d
          PROVE  /\ e \in Dcols
                 /\ \A led \in Leds(fb, e) : led[1] = e
      <4>1. e \in Dcols
        <5>1. e \in Nat /\ e <= d
          BY <2>4
        <5>2. d <= 2 * DisplayRows - 1
          BY DisplaySizes DEF Dcols
        <5> QED BY <2>4, <5>1, <5>2, DisplaySizes DEF Dcols
      <4> QED BY <1>0, <4>1, LedFacts
    <3>4. ScanSoFar'
      <4>1. CASE state = 0
        <5>1. i \div 4 = d - 1 /\ i = 4 * d - 1 /\ d - 1 \in Nat
          BY <1>0, <2>1, <2>4, <4>1
        <5>11. 0..d - 1 \subseteq 0..d /\ d \notin 0..d - 1
          BY <2>4
        <5>2. on' = Leds(fb, d)
          BY <2>5, <4>1
        <5>3. DOMAIN glow = UNION {Leds(fb, e) : e \in 0..d - 1}
          BY <3>1, <5>1 DEF ScanSoFar
        <5>4. DOMAIN glow' = UNION {Leds(fb, e) : e \in 0..d}
          <6>1. 0..d = 0..d - 1 \cup {d}
            BY DEF Dcols
          <6> QED BY <3>2, <5>2, <5>3, <6>1
        <5>5. ASSUME NEW led \in DOMAIN glow
              PROVE  glow'[led] = Lit(led)'
          <6>1. PICK e \in 0..d - 1 : led \in Leds(fb, e)
            BY <5>3
          <6>11. e \in 0..d /\ d \in 0..d /\ e \in Nat /\ e <= d - 1
            BY <5>11, <6>1, <2>4
          <6>12. led[1] = e /\ e # d
            BY <3>3, <6>1, <6>11, <2>4
          <6>13. \A l \in Leds(fb, d) : l[1] = d
            BY <3>3, <6>11
          <6>2. led[1] = e /\ led \notin on'
            BY <5>2, <6>12, <6>13
          <6>3. glow'[led] = glow[led] + 0
            BY <3>2, <6>2
          <6>4. glow[led] = led_brightness + 1
            <7>1. glow[led] = Lit(led)
              BY <3>1 DEF ScanSoFar
            <7>2. i - 4 * e + 1 >= 4
              BY <5>1, <6>11, <2>4
            <7> QED BY <1>0, <6>2, <7>1, <7>2, <6>11, <5>1 DEF Lit
          <6>5. Lit(led)' = led_brightness + 1
            <7>1. i' - 4 * e + 1 >= 4
              BY <2>4, <4>1, <6>11
            <7> QED BY <1>0, <2>4, <4>1, <6>2, <6>11, <7>1 DEF Lit
          <6> QED BY <1>0, <6>3, <6>4, <6>5
        <5>6. ASSUME NEW led \in Leds(fb, d)
              PROVE  glow'[led] = Lit(led)'
          <6>1. led[1] = d /\ d \in 0..d
            BY <3>3 DEF Dcols
          <6>2. led \notin DOMAIN glow
            BY <3>3, <5>11, <5>3, <6>1
          <6>3. glow'[led] = 0 + 1
            BY <3>2, <5>2, <6>2
          <6> QED BY <1>0, <2>4, <4>1, <6>1, <6>3 DEF Lit, Dcols
        <5>7. \A led \in DOMAIN glow' : glow'[led] = Lit(led)'
          BY <3>2, <5>2, <5>5, <5>6
        <5>8. /\ i' % 4 <= led_brightness' /\ on' = Leds(fb', i' \div 4)
              /\ DOMAIN glow' = UNION {Leds(fb', e) : e \in 0..i' \div 4}
          BY <1>0, <1>1, <2>2, <2>3, <4>1, <5>2, <5>4
        <5> QED BY <5>7, <5>8 DEF ScanSoFar
      <4>2. CASE state # 0
        <5>1. i \div 4 = d /\ i % 4 = state - 1 /\ i = 4 * d + state - 1
          BY <1>0, <2>1, <2>4, <4>2 DEF Dcols
        <5>2. DOMAIN glow = UNION {Leds(fb, e) : e \in 0..d}
          BY <3>1, <5>1 DEF ScanSoFar
        <5>3. on' = IF state <= led_brightness THEN Leds(fb, d) ELSE {}
          BY <1>0, <2>5, <3>1, <4>2, <5>1 DEF ScanSoFar
        <5>4. DOMAIN glow' = DOMAIN glow
          <6>1. d \in 0..d
            BY DEF Dcols
          <6>2. on' \subseteq DOMAIN glow
            BY <5>2, <5>3, <6>1
          <6> QED BY <3>2, <6>2
        <5>5. ASSUME NEW led \in DOMAIN glow
              PROVE  glow'[led] = Lit(led)'
          <6>1. PICK e \in 0..d : led \in Leds(fb, e)
            BY <5>2
          <6>11. led[1] = e
            BY <3>3, <6>1
          <6>12. d \in 0..d
            BY <2>4
          <6>13. \A l \in Leds(fb, d) : l[1] = d
            BY <3>3, <6>12
          <6>14. ASSUME state <= led_brightness PROVE led[1] = e /\ (led \in on' <=> e = d)
            <7>1. on' = Leds(fb, d)
              BY <5>3, <6>14
            <7> QED BY <6>1, <6>11, <6>13, <6>14, <7>1
          <6>15. ASSUME ~(state <= led_brightness) PROVE led[1] = e /\ led \notin on'
            <7>1. on' = {}
              BY <5>3, <6>15
            <7> QED BY <6>11, <6>15, <7>1
          <6>2. led[1] = e /\ (led \in on' <=> e = d /\ state <= led_brightness)
            BY <6>14, <6>15
          <6>3. glow'[led] = glow[led] + (IF led \in on' THEN 1 ELSE 0)
            BY <3>2
          <6>4. glow[led] = Lit(led)
            BY <3>1 DEF ScanSoFar
          <6>5. CASE e = d
            <7>1. glow[led] = IF led_brightness + 1 <= state THEN led_brightness + 1 ELSE state
              BY <1>0, <5>1, <6>2, <6>4, <6>5 DEF Lit, Dcols
            <7>2. Lit(led)' = IF led_brightness + 1 <= state + 1 THEN led_brightness + 1
                              ELSE state + 1
              BY <1>0, <2>4, <6>2, <6>5 DEF Lit, Dcols
            <7> QED BY <1>0, <6>2, <6>3, <6>5, <7>1, <7>2
          <6>6. CASE e # d
            <7>1. e <= d - 1
              BY <6>1, <6>6 DEF Dcols
            <7>2. glow[led] = led_brightness + 1
              BY <1>0, <5>1, <6>1, <6>2, <6>4, <7>1 DEF Lit, Dcols
            <7>3. Lit(led)' = led_brightness + 1
              BY <1>0, <2>4, <6>1, <6>2, <7>1 DEF Lit, Dcols
            <7> QED BY <1>0, <6>2, <6>3, <6>6, <7>2, <7>3
          <6> QED BY <6>5, <6>6
        <5>6. /\ on' = IF i' % 4 <= led_brightness' THEN Leds(fb', i' \div 4) ELSE {}
              /\ DOMAIN glow' = UNION {Leds(fb', e) : e \in 0..i' \div 4}
          BY <1>0, <1>1, <2>2, <2>3, <5>2, <5>3, <5>4
        <5> QED BY <5>4, <5>5, <5>6 DEF ScanSoFar
      <4> QED BY <4>1, <4>2
    <3> QED BY <1>0, <2>1, <2>6, <2>8, <3>4, DisplaySizes DEF DisplayInv, DisplayTypes
  <2> QED BY <1>0, <2>7, <2>8
<1> QED BY <1>2, <1>3

LEMMA DisplayStepInv == DisplayInv /\ [displayNext]_<<fb, displayVars>> => DisplayInv'
<1> SUFFICES ASSUME DisplayInv, [displayNext]_<<fb, displayVars>> PROVE DisplayInv'
  OBVIOUS
<1>1. CASE UNCHANGED <<fb, displayVars>>
  BY <1>1 DEF displayVars, DisplayInv, DisplayTypes, OneHighPin, ScanSoFar, Leds, Lit, Rows
<1>2. ASSUME NEW f \in Pictures, Paints(f)
      PROVE  DisplayInv'
  BY <1>2 DEF Paints, DisplayInv, DisplayTypes, OneHighPin
<1>3. ASSUME NEW b \in 0..3, SetBrightness(b)
      PROVE  DisplayInv'
  BY <1>3 DEF SetBrightness, DisplayInv, DisplayTypes, OneHighPin
<1> QED BY <1>1, <1>2, <1>3, IrqStep DEF displayNext

\* Whatever the main loop paints and when, the driver makes only one pin high and never
\* drives it low at the same time (src/leddrv.c).
THEOREM PinsSafeHolds == displaySpec => []PinsSafe
<1>1. displayInit => DisplayInv
  BY RestsDisplay DEF displayInit
<1> QED BY <1>1, DisplayStepInv, DisplayInvImplies, PTL DEF displaySpec

-----------------------------------------------------------------------------
(* Each pixel of the rows of the display has a LED of its own.                *)
Bits(f, d) ==
  LET cols == Switched(d, Rows(f, 2 * d), Rows(f, 2 * d + 1))
  IN combine_cols(cols[1], cols[2])

BitOf(c, r) == 2 * r + (IF c < 2 /\ r = 0 THEN 1 - c ELSE c % 2)
LedOf(p) == <<p[1] \div 2, PinOf(p[1] \div 2, BitOf(p[1], p[2]))>>

LEMMA PixelFacts ==
  ASSUME fb \in Pictures
  PROVE  /\ \A p \in fb : /\ p[1] \in 0..4 * DisplayRows - 1 /\ p[2] \in 0..15
                          /\ p = <<p[1], p[2]>>
         /\ \A col, r : r \in Rows(fb, col) <=> <<col, r>> \in fb
<1>1. fb \subseteq (0..4 * DisplayRows - 1) \X (0..15)
  BY DisplayAssumption
<1> QED BY <1>1 DEF Rows

LEMMA ColumnFacts ==
  ASSUME NEW c \in Nat
  PROVE  /\ c \div 2 \in Nat /\ c % 2 \in 0..1
         /\ c = 2 * (c \div 2) + (c % 2)
<1>1. \A k \in Int : k = 2 * (k \div 2) + (k % 2)
  OBVIOUS
<1>2. c \div 2 \in Nat
  OBVIOUS
<1>3. c % 2 \in 0..1
  OBVIOUS
<1> QED BY <1>1, <1>2, <1>3

LEMMA BitFacts ==
  ASSUME NEW c \in Nat, NEW r \in 0..15
  PROVE  BitOf(c, r) \in Nat /\ (BitOf(c, r) = 2 * r \/ BitOf(c, r) = 2 * r + 1)
<1>1. c % 2 \in 0..1
  BY ColumnFacts
<1> QED BY <1>1 DEF BitOf

LEMMA BitsOfPixels ==
  ASSUME fb \in Pictures, NEW d \in Dcols
  PROVE  \A bit : bit \in Bits(fb, d)
                    <=> \E p \in fb : p[1] \div 2 = d /\ bit = BitOf(p[1], p[2])
<1>0. d \in Nat
  BY DEF Dcols
<1>1. PICK a \in SUBSET (0..15), b \in SUBSET (0..15) :
        /\ a = Rows(fb, 2 * d) /\ b = Rows(fb, 2 * d + 1)
  <2>1. \A col : Rows(fb, col) \subseteq 0..15
    <3>1. fb \subseteq (0..DisplayCols - 1) \X (0..15)
      BY DisplayAssumption
    <3> QED BY <3>1 DEF Rows
  <2> QED BY <2>1
<1>2. /\ \A r : r \in a <=> <<2 * d, r>> \in fb
      /\ \A r : r \in b <=> <<2 * d + 1, r>> \in fb
  BY <1>1, PixelFacts
<1>3. PICK s \in SUBSET (0..15), t \in SUBSET (0..15) :
        /\ \A r : r \in s <=> IF d = 0 /\ r = 0 THEN r \in b ELSE r \in a
        /\ \A r : r \in t <=> IF d = 0 /\ r = 0 THEN r \in a ELSE r \in b
        /\ Bits(fb, d) = combine_cols(s, t)
  <2>1. CASE d = 0
    <3>1. Bits(fb, d) = combine_cols((a \ {0}) \cup (b \cap {0}), (b \ {0}) \cup (a \cap {0}))
      BY <1>1, <2>1 DEF Bits, Switched
    <3> QED BY <2>1, <3>1
  <2>2. CASE d # 0
    <3>1. Bits(fb, d) = combine_cols(a, b)
      BY <1>1, <2>2 DEF Bits, Switched
    <3> QED BY <2>2, <3>1
  <2> QED BY <2>1, <2>2
<1>4. ASSUME NEW r \in 0..15
      PROVE  /\ BitOf(2 * d, r) = IF d = 0 /\ r = 0 THEN 2 * r + 1 ELSE 2 * r
             /\ BitOf(2 * d + 1, r) = IF d = 0 /\ r = 0 THEN 2 * r ELSE 2 * r + 1
  <2>1. (2 * d) % 2 = 0 /\ (2 * d + 1) % 2 = 1
    BY <1>0
  <2> QED BY <1>0, <2>1 DEF BitOf
<1>5. (2 * d) \div 2 = d /\ (2 * d + 1) \div 2 = d
  BY <1>0
<1>6. ASSUME NEW p \in fb, p[1] \div 2 = d
      PROVE  BitOf(p[1], p[2]) \in Bits(fb, d)
  <2>1. PICK r \in 0..15 : p[2] = r /\ p = <<p[1], r>> /\ p[1] \in Nat
    BY PixelFacts, DisplaySizes
  <2>2. p[1] = 2 * d \/ p[1] = 2 * d + 1
    BY <1>0, <1>6, <2>1, ColumnFacts
  <2>3. CASE p[1] = 2 * d
    <3>1. r \in a
      BY <1>2, <2>1, <2>3
    <3>2. CASE d = 0 /\ r = 0
      BY <1>3, <1>4, <2>1, <2>3, <3>1, <3>2 DEF combine_cols
    <3>3. CASE ~(d = 0 /\ r = 0)
      BY <1>3, <1>4, <2>1, <2>3, <3>1, <3>3 DEF combine_cols
    <3> QED BY <3>2, <3>3
  <2>4. CASE p[1] = 2 * d + 1
    <3>1. r \in b
      BY <1>2, <2>1, <2>4
    <3>2. CASE d = 0 /\ r = 0
      BY <1>3, <1>4, <2>1, <2>4, <3>1, <3>2 DEF combine_cols
    <3>3. CASE ~(d = 0 /\ r = 0)
      BY <1>3, <1>4, <2>1, <2>4, <3>1, <3>3 DEF combine_cols
    <3> QED BY <3>2, <3>3
  <2> QED BY <2>2, <2>3, <2>4
<1>7. ASSUME NEW bit \in Bits(fb, d)
      PROVE  \E p \in fb : p[1] \div 2 = d /\ bit = BitOf(p[1], p[2])
  <2>0. ASSUME NEW c \in {2 * d, 2 * d + 1}, NEW r \in 0..15, <<c, r>> \in fb, bit = BitOf(c, r)
        PROVE  \E p \in fb : p[1] \div 2 = d /\ bit = BitOf(p[1], p[2])
    <3>1. <<c, r>>[1] \div 2 = d /\ bit = BitOf(<<c, r>>[1], <<c, r>>[2])
      BY <1>5, <2>0
    <3> QED BY <2>0, <3>1
  <2>1. \/ \E r \in s : bit = 2 * r
        \/ \E r \in t : bit = 2 * r + 1
    BY <1>3, <1>7 DEF combine_cols
  <2>2. ASSUME NEW r \in s, bit = 2 * r
        PROVE  \E c \in {2 * d, 2 * d + 1} : <<c, r>> \in fb /\ bit = BitOf(c, r)
    <3>1. CASE d = 0 /\ r = 0
      BY <1>2, <1>3, <1>4, <2>2, <3>1
    <3>2. CASE ~(d = 0 /\ r = 0)
      BY <1>2, <1>3, <1>4, <2>2, <3>2
    <3> QED BY <3>1, <3>2
  <2>3. ASSUME NEW r \in t, bit = 2 * r + 1
        PROVE  \E c \in {2 * d, 2 * d + 1} : <<c, r>> \in fb /\ bit = BitOf(c, r)
    <3>1. CASE d = 0 /\ r = 0
      BY <1>2, <1>3, <1>4, <2>3, <3>1
    <3>2. CASE ~(d = 0 /\ r = 0)
      BY <1>2, <1>3, <1>4, <2>3, <3>2
    <3> QED BY <3>1, <3>2
  <2>4. s \subseteq 0..15 /\ t \subseteq 0..15
    OBVIOUS
  <2> QED BY <2>0, <2>1, <2>2, <2>3, <2>4
<1> QED BY <1>6, <1>7

LEMMA PinFacts ==
  ASSUME NEW d \in Dcols, NEW c \in Nat, c \div 2 = d, NEW r \in 0..15
  PROVE  PinOf(d, BitOf(c, r)) < LED_PINCOUNT <=> r < DisplayRows
<1>1. d \in Nat /\ d <= 2 * DisplayRows - 1
  BY DisplaySizes DEF Dcols
<1>2. PICK b \in Nat : b = BitOf(c, r) /\ (b = 2 * r \/ b = 2 * r + 1)
  BY BitFacts
<1> QED BY <1>1, <1>2, DisplaySizes DEF PinOf

\* No two pixels share a LED.
LEMMA LedsDiffer ==
  ASSUME fb \in Pictures, NEW p \in fb, NEW q \in fb, LedOf(p) = LedOf(q)
  PROVE  p = q
<1>1. PICK c \in Nat, r \in 0..15 : c = p[1] /\ r = p[2] /\ p = <<c, r>>
  BY PixelFacts, DisplaySizes
<1>2. PICK e \in Nat, v \in 0..15 : e = q[1] /\ v = q[2] /\ q = <<e, v>>
  BY PixelFacts, DisplaySizes
<1>3. PICK d \in Nat : /\ d = c \div 2 /\ d = e \div 2
                       /\ PinOf(d, BitOf(c, r)) = PinOf(d, BitOf(e, v))
  <2>1. c \div 2 \in Nat
    BY ColumnFacts
  <2> QED BY <1>1, <1>2, <2>1 DEF LedOf
<1>4. BitOf(c, r) = BitOf(e, v)
  <2>1. PICK k \in Nat, l \in Nat : k = BitOf(c, r) /\ l = BitOf(e, v)
    BY BitFacts
  <2> QED BY <1>3, <2>1 DEF PinOf
<1>5. r = v
  <2>1. PICK k \in Nat : k = BitOf(c, r) /\ (k = 2 * r \/ k = 2 * r + 1)
    BY BitFacts
  <2>2. k = 2 * v \/ k = 2 * v + 1
    BY <1>4, <2>1, BitFacts
  <2> QED BY <2>1, <2>2
<1>6. c = e
  <2>1. c = 2 * d + (c % 2) /\ c % 2 \in 0..1
    BY <1>3, ColumnFacts
  <2>2. e = 2 * d + (e % 2) /\ e % 2 \in 0..1
    BY <1>3, ColumnFacts
  <2>3. PICK x \in 0..1, z \in 0..1 : x = c % 2 /\ z = e % 2
    BY <2>1, <2>2
  <2>4. x = z
    <3>1. 2 * r + (IF c < 2 /\ r = 0 THEN 1 - c ELSE x) = 2 * r + (IF e < 2 /\ r = 0 THEN 1 - e ELSE z)
      BY <1>4, <1>5, <2>3 DEF BitOf
    <3>2. c = 2 * d + x /\ e = 2 * d + z
      BY <2>1, <2>2, <2>3
    <3> QED BY <3>1, <3>2
  <2> QED BY <2>1, <2>2, <2>3, <2>4
<1> QED BY <1>1, <1>2, <1>5, <1>6

LEMMA AsManyLeds ==
  ASSUME fb \in Pictures
  PROVE  Cardinality(UNION {Leds(fb, d) : d \in Dcols}) = Cardinality({p \in fb : p[2] < DisplayRows})
<1> DEFINE S == {p \in fb : p[2] < DisplayRows}
           T == UNION {Leds(fb, d) : d \in Dcols}
           F == [p \in S |-> LedOf(p)]
<1>1. ASSUME NEW p \in S
      PROVE  LedOf(p) \in T
  <2>1. PICK c \in 0..4 * DisplayRows - 1, r \in 0..15 : c = p[1] /\ r = p[2] /\ r < DisplayRows
    BY PixelFacts
  <2>2. PICK d \in Nat : d = c \div 2 /\ d \in Dcols
    <3>1. c \in Nat /\ c < 4 * DisplayRows
      BY DisplaySizes
    <3>2. c \div 2 \in Nat /\ c = 2 * (c \div 2) + (c % 2) /\ c % 2 \in 0..1
      BY <3>1, ColumnFacts
    <3> QED BY <3>1, <3>2, DisplaySizes DEF Dcols
  <2>3. BitOf(c, r) \in Bits(fb, d)
    BY <2>1, <2>2, BitsOfPixels
  <2>4. PinOf(d, BitOf(c, r)) < LED_PINCOUNT
    <3>1. c \in Nat
      BY DisplaySizes
    <3> QED BY <2>1, <2>2, <3>1, PinFacts
  <2>5. LedOf(p) = <<d, PinOf(d, BitOf(c, r))>>
    BY <2>1, <2>2 DEF LedOf
  <2>6. LedOf(p) \in led_write2dcol_raw(d, Bits(fb, d))
    BY <2>3, <2>4, <2>5 DEF led_write2dcol_raw
  <2>7. LedOf(p) \in Leds(fb, d)
    BY <2>6 DEF Leds, led_write2dcol, Bits
  <2> QED BY <2>2, <2>7
<1>2. ASSUME NEW led \in T
      PROVE  \E p \in S : LedOf(p) = led
  <2>1. PICK d \in Dcols : led \in Leds(fb, d)
    OBVIOUS
  <2>2. led \in led_write2dcol_raw(d, Bits(fb, d))
    BY <2>1 DEF Leds, led_write2dcol, Bits
  <2>3. PICK bit \in Bits(fb, d) : led = <<d, PinOf(d, bit)>> /\ led[2] < LED_PINCOUNT
    BY <2>2 DEF led_write2dcol_raw
  <2>4. PICK p \in fb : p[1] \div 2 = d /\ bit = BitOf(p[1], p[2])
    BY <2>3, BitsOfPixels
  <2>5. p[1] \in Nat /\ p[2] \in 0..15
    BY PixelFacts, DisplaySizes
  <2>6. PinOf(d, BitOf(p[1], p[2])) < LED_PINCOUNT
    BY <2>3, <2>4
  <2>7. p[2] < DisplayRows
    BY <2>4, <2>5, <2>6, PinFacts
  <2> QED BY <2>3, <2>4, <2>7 DEF LedOf
<1>3. IsFiniteSet(S)
  <2>1. PICK n \in Int, m \in Int : n = 4 * DisplayRows - 1 /\ m = 15
    BY DisplaySizes
  <2>2. IsFiniteSet(0..n) /\ IsFiniteSet(0..m)
    BY FS_Interval
  <2>3. IsFiniteSet((0..n) \X (0..m))
    BY <2>2, FS_Product
  <2>4. S \subseteq (0..n) \X (0..m)
    BY <2>1, DisplayAssumption
  <2> QED BY <2>3, <2>4, FS_Subset
<1>4. F \in Bijection(S, T)
  <2>1. F \in [S -> T]
    BY <1>1
  <2>2. \A p, q \in S : F[p] = F[q] => p = q
    BY LedsDiffer
  <2>3. \A led \in T : \E p \in S : F[p] = led
    BY <1>2
  <2> HIDE DEF F, S, T
  <2>4. F \in Injection(S, T)
    BY <2>1, <2>2 DEF Injection, IsInjective
  <2>5. F \in Surjection(S, T)
    BY <2>1, <2>3 DEF Surjection
  <2> QED BY <2>4, <2>5 DEF Bijection
<1>5. ExistsBijection(S, T)
  BY <1>4 DEF ExistsBijection
<1> QED BY <1>3, <1>5, FS_Bijection

LEMMA ScanShown ==
  ASSUME DisplayInv, displayNext, steady_fb, i # 0, i' = 0
  PROVE  /\ Cardinality(DOMAIN glow) = Cardinality({p \in fb : p[2] < DisplayRows})
         /\ \A led \in DOMAIN glow : glow[led] = led_brightness + 1
<1>0. /\ i \in 0..8 * DisplayRows - 1 /\ led_brightness \in 0..3 /\ fb \in Pictures
      /\ ScanSoFar
  BY DisplaySizes DEF DisplayInv, DisplayTypes
<1>1. TMR0_IRQHandler
  BY DEF displayNext, Paints, SetBrightness
<1>2. i = 8 * DisplayRows - 1
  BY <1>0, <1>1, DisplaySizes DEF TMR0_IRQHandler
<1>3. i \div 4 = 2 * DisplayRows - 1
  BY <1>2, DisplaySizes
<1>4. DOMAIN glow = UNION {Leds(fb, d) : d \in Dcols}
  BY <1>0, <1>3 DEF ScanSoFar, Dcols
<1>5. ASSUME NEW led \in DOMAIN glow
      PROVE  glow[led] = led_brightness + 1
  <2>1. PICK d \in Dcols : led \in Leds(fb, d)
    BY <1>4
  <2>2. led[1] = d
    BY <1>0, <2>1, LedFacts
  <2>3. d \in Nat /\ i - 4 * d + 1 >= 4
    BY <1>2, DisplaySizes DEF Dcols
  <2>4. glow[led] = Lit(led)
    BY <1>0 DEF ScanSoFar
  <2> QED BY <1>0, <2>2, <2>3, <2>4 DEF Lit
<1> QED BY <1>0, <1>4, <1>5, AsManyLeds

\* A whole scan of an unchanged picture lights one LED for each of its pixels, each for
\* as long as the brightness says (src/leddrv.c, main.c: TMR0_IRQHandler).
THEOREM ScanShowsPictureHolds == displaySpec => ScanShowsPicture
<1>1. displayInit => DisplayInv
  BY RestsDisplay DEF displayInit
<1>2. DisplayInv /\ [displayNext]_<<fb, displayVars>> =>
        [steady_fb /\ i # 0 /\ i' = 0 =>
          /\ Cardinality(DOMAIN glow) = Cardinality({p \in fb : p[2] < DisplayRows})
          /\ \A led \in DOMAIN glow : glow[led] = led_brightness + 1]_<<fb, displayVars>>
  BY ScanShown
<1> QED BY <1>1, <1>2, DisplayStepInv, PTL DEF displaySpec, ScanShowsPicture

-----------------------------------------------------------------------------
(* Animation, for any list of bitmaps on displays of any size.                *)

\* The steps an animation takes; those of picture end half way through a round.
Period ==
  CASE bm.ani \in {"scroll_left", "scroll_right"} -> ScrollSteps
    [] bm.ani \in {"scroll_up", "scroll_down"} -> 3 * AniRows * Frames
    [] bm.ani = "fixed" -> AniCols * Frames
    [] bm.ani = "animation" -> 5 * Frames
    [] bm.ani = "snowflake" -> 6 * AniRows * Frames
    [] bm.ani = "picture" -> AniCols * Frames + hc
    [] bm.ani = "laser" -> 3 * AniCols * Frames

\* anim_step of a bitmap that was started some steps ago.
StepAt(n) == IF bm.ani \in {"scroll_right", "scroll_down"} /\ n # 0 THEN Period - n ELSE n

AniInv ==
  /\ fb \subseteq Screen
  /\ current \in DOMAIN Bitmaps /\ is_play_sequentially \in BOOLEAN
  /\ flash_step \in 0..1 /\ marque_step \in 0..3
  /\ seen \subseteq 0..Frames - 1 /\ presses \in 0..MaxPresses
  /\ age \in Nat /\ age < Period /\ anim_step = StepAt(age)

LEMMA AniSizes ==
  /\ AniCols \in Nat /\ AniCols >= 2 /\ AniRows \in Nat /\ AniRows >= 1
  /\ hc \in Nat /\ hc >= 1 /\ 2 * hc <= AniCols /\ hc < AniCols
<1>1. AniCols \in Nat /\ AniCols >= 2 /\ AniRows \in Nat /\ AniRows >= 1
  BY AniAssumption
<1>2. \A n \in Nat : n >= 2 => /\ n \div 2 \in Nat /\ n \div 2 >= 1
                              /\ 2 * (n \div 2) <= n /\ n \div 2 < n
  OBVIOUS
<1> QED BY <1>1, <1>2 DEF hc

LEMMA QuotientFacts ==
  ASSUME NEW w \in Nat, w >= 1, NEW c \in Nat, c >= 1
  PROVE  LET q == (w + c - 1) \div c IN q \in Nat /\ q >= 1 /\ w <= c * q
<1>1. PICK q \in Int : q = (w + c - 1) \div c
  OBVIOUS
<1>2. PICK m \in Int : m = (w + c - 1) % c
  OBVIOUS
<1>3. w + c - 1 = c * q + m /\ 0 <= m /\ m < c
  BY <1>1, <1>2
<1>4. q >= 1
  BY <1>3
<1> QED BY <1>1, <1>3, <1>4

LEMMA BmFacts ==
  ASSUME current \in DOMAIN Bitmaps
  PROVE  /\ width \in Nat /\ width >= 1 /\ bm.ani \in AniNames
         /\ Frames \in Nat /\ Frames >= 1 /\ width <= AniCols * Frames
<1>1. bm.buf \in Seq(SUBSET AniRow) \ {<<>>} /\ bm.ani \in AniNames
  <2> DEFINE Records == [buf : Seq(SUBSET AniRow) \ {<<>>}, ani : AniNames,
                         is_flash : BOOLEAN, is_marquee : BOOLEAN]
  <2>1. \A x \in Records : x.buf \in Seq(SUBSET AniRow) \ {<<>>} /\ x.ani \in AniNames
    OBVIOUS
  <2> HIDE DEF Records
  <2>2. Bitmaps \in Seq(Records)
    BY AniAssumption DEF Records
  <2>3. bm \in Records
    BY <2>2 DEF bm
  <2> QED BY <2>1, <2>3
<1>2. width \in Nat /\ width >= 1
  <2>1. PICK S : S = SUBSET AniRow
    OBVIOUS
  <2>2. PICK buf \in Seq(S) : buf = bm.buf /\ buf # <<>>
    BY <1>1, <2>1
  <2> QED BY <2>2 DEF width
<1> QED BY <1>1, <1>2, AniSizes, QuotientFacts DEF Frames

LEMMA PeriodFacts ==
  ASSUME current \in DOMAIN Bitmaps
  PROVE  /\ Period \in Nat /\ Period >= 1
         /\ Period <= (3 * AniCols + 6 * AniRows) * Frames
<1>1. PICK c \in Nat, r \in Nat, k \in Nat, h \in Nat, w \in Nat :
        /\ c = AniCols /\ r = AniRows /\ k = Frames /\ h = hc /\ w = width
        /\ c >= 2 /\ r >= 1 /\ k >= 1 /\ h < c /\ w >= 1 /\ w <= c * k
  BY AniSizes, BmFacts
<1>2. PICK x \in Nat, v \in Nat : x = c * k /\ v = r * k
  BY <1>1
<1>3. x >= c /\ x >= 2 * k /\ v >= 1
  BY <1>1, <1>2
<1>4. /\ (3 * c + 6 * r) * k = 3 * x + 6 * v /\ 3 * r * k = 3 * v /\ 6 * r * k = 6 * v
      /\ 3 * c * k = 3 * x
  BY <1>2
<1>5. /\ w + c \in Nat /\ w + c >= 1 /\ w + c <= 3 * x + 6 * v
      /\ 3 * v \in Nat /\ 3 * v >= 1 /\ 3 * v <= 3 * x + 6 * v
      /\ x >= 1 /\ x <= 3 * x + 6 * v
      /\ 5 * k \in Nat /\ 5 * k >= 1 /\ 5 * k <= 3 * x + 6 * v
      /\ 6 * v \in Nat /\ 6 * v >= 1 /\ 6 * v <= 3 * x + 6 * v
      /\ x + h \in Nat /\ x + h >= 1 /\ x + h <= 3 * x + 6 * v
      /\ 3 * x \in Nat /\ 3 * x >= 1 /\ 3 * x <= 3 * x + 6 * v
  BY <1>1, <1>2, <1>3
<1>6. Period \in {w + c, 3 * v, x, 5 * k, 6 * v, x + h, 3 * x}
  BY <1>1, <1>2, <1>4, BmFacts DEF Period, ScrollSteps, AniNames
<1>7. (3 * AniCols + 6 * AniRows) * Frames = 3 * x + 6 * v
  BY <1>1, <1>4
<1> QED BY <1>2, <1>5, <1>6, <1>7

LEMMA DivisionUnique ==
  ASSUME NEW c \in Nat, c >= 1, NEW k \in Int, NEW m \in Int, 0 <= m, m < c
  PROVE  (c * k + m) \div c = k /\ (c * k + m) % c = m
<1>1. PICK x \in Int : x = c * k + m
  OBVIOUS
<1>2. PICK q \in Int, e \in Int : q = x \div c /\ e = x % c
  OBVIOUS
<1>3. x = c * q + e /\ 0 <= e /\ e < c
  BY <1>2
<1>4. PICK d \in Int : d = k - q
  OBVIOUS
<1>5. c * d = e - m
  BY <1>1, <1>3, <1>4
<1>6. ~(d >= 1)
  BY <1>3, <1>5
<1>7. ~(d <= -1)
  BY <1>3, <1>5
<1>8. d = 0
  BY <1>6, <1>7
<1>9. q = k /\ e = m
  BY <1>4, <1>5, <1>8
<1> QED BY <1>1, <1>2, <1>9

\* Counting up and counting down, modulo the period.
LEMMA ModFacts ==
  ASSUME NEW n \in Nat, NEW t \in Nat, n < t
  PROVE  /\ (n + 1) % t = IF n + 1 = t THEN 0 ELSE n + 1
         /\ ((IF n # 0 THEN t - n ELSE n) - 1) % t = IF n + 1 = t THEN 0 ELSE t - (n + 1)
<1>1. \A k \in Int : 0 <= k /\ k < t => k % t = k
  OBVIOUS
<1>2. t % t = 0
  OBVIOUS
<1>3. (-1) % t = t - 1
  OBVIOUS
<1>4. CASE n = 0
  BY <1>1, <1>2, <1>3, <1>4
<1>5. CASE n # 0
  BY <1>1, <1>2, <1>5
<1> QED BY <1>4, <1>5

-----------------------------------------------------------------------------
LEMMA PixelsOnScreen ==
  ASSUME NEW g, DOMAIN g \subseteq Col
  PROVE  Pixels(g) \subseteq Screen
BY DEF Pixels, Screen, Box, Col, AniRow

LEMMA WipedFacts ==
  ASSUME NEW range \in Nat, range <= hc
  PROVE  Wiped(range) \subseteq Col
<1>1. AniCols \in Nat /\ hc \in Nat /\ 2 * hc <= AniCols /\ hc < AniCols
  BY AniSizes
<1>2. Within(range) \subseteq Col
  <2>1. ASSUME NEW x \in 0..range PROVE hc + x - 1 \in 0..AniCols - 1 /\ hc - x \in 0..AniCols - 1
    <3>1. x \in Nat /\ x <= hc
      BY <1>1
    <3>2. 1 <= hc
      BY AniSizes
    <3> QED BY <1>1, <3>1, <3>2
  <2> QED BY <2>1 DEF Within, Col
<1>3. Edge(range) \subseteq Col
  BY <1>1 DEF Edge, Col
<1> QED BY <1>2, <1>3 DEF Wiped

LEMMA AnimationColumns ==
  ASSUME NEW s, NEW n
  PROVE  /\ DOMAIN still(s) = Col /\ DOMAIN ani_scroll_x(s) = Col /\ DOMAIN ani_scroll_y(s) = Col
         /\ DOMAIN ani_laser(s) = Col /\ DOMAIN ani_snowflake(s) = Col
<1>1. \A e : DOMAIN still(e) = Col
  BY DEF still
<1>2. DOMAIN ani_scroll_x(s) = Col /\ DOMAIN ani_scroll_y(s) = Col
  BY DEF ani_scroll_x, ani_scroll_y
<1>3. \A e, k : DOMAIN laser_in(e, k) = Col /\ DOMAIN laser_out(e, k) = Col
  BY DEF laser_in, laser_out
<1>4. \A e, k : DOMAIN snowflake_in(e, k) = Col /\ DOMAIN snowflake_out(e, k) = Col
  BY DEF snowflake_in, snowflake_out
<1>5. DOMAIN ani_laser(s) = Col
  BY <1>1, <1>3 DEF ani_laser
<1>6. DOMAIN ani_snowflake(s) = Col
  BY <1>1, <1>4 DEF ani_snowflake
<1> QED BY <1>1, <1>2, <1>5, <1>6

LEMMA PictureColumns ==
  ASSUME NEW f, NEW k, NEW s \in Nat
  PROVE  DOMAIN picture(f, s + 1, k) \subseteq Col /\ DOMAIN picture_out(f, s) \subseteq Col
<1>1. PICK range \in Nat : range = ((s + 1) - 1) % AniCols
  BY AniSizes
<1>2. hc \in Nat
  BY AniSizes
<1>3. DOMAIN picture(f, s + 1, k) \subseteq Col
  <2>1. CASE range > hc
    BY <1>1, <2>1, AnimationColumns DEF picture
  <2>2. CASE ~(range > hc)
    <3>1. Wiped(range) \subseteq Col
      BY <1>2, <2>2, WipedFacts
    <3>2. DOMAIN picture(f, s + 1, k) = Col \cup Wiped(range)
      BY <1>1, <2>2 DEF picture
    <3> QED BY <3>1, <3>2
  <2> QED BY <2>1, <2>2
<1>4. DOMAIN picture_out(f, s) \subseteq Col
  <2>1. DOMAIN picture_out(f, s) = Col \cup (IF s <= hc THEN Wiped(s) ELSE {})
    BY DEF picture_out
  <2> QED BY <2>1, WipedFacts
<1> QED BY <1>3, <1>4

\* A step paints the display only and goes on to the end of the period, where it returns 0.
LEMMA AnimationStep ==
  ASSUME AniInv
  PROVE  /\ animations.f \subseteq Screen
         /\ animations.ended <=> age + 1 = Period
         /\ age + 1 # Period => animations.step = StepAt(age + 1)
<1>0. /\ bm.ani \in AniNames /\ age \in Nat /\ Period \in Nat /\ age < Period
      /\ anim_step = StepAt(age)
  BY BmFacts, PeriodFacts DEF AniInv
<1>1. ASSUME NEW g, DOMAIN g \subseteq Col, NEW n,
             animations = Stepped(g, n), n = IF age + 1 = Period THEN 0 ELSE StepAt(age + 1),
             StepAt(age + 1) # 0 \/ age + 1 = Period
      PROVE  /\ animations.f \subseteq Screen
             /\ animations.ended <=> age + 1 = Period
             /\ age + 1 # Period => animations.step = StepAt(age + 1)
  BY <1>1, PixelsOnScreen DEF Stepped
<1>2. StepAt(age + 1) # 0 \/ age + 1 = Period
  BY <1>0 DEF StepAt
<1>3. CASE bm.ani \in {"scroll_right", "scroll_down"}
  <2>1. anim_step = IF age # 0 THEN Period - age ELSE age
    BY <1>0, <1>3 DEF StepAt
  <2>2. (anim_step - 1) % Period = IF age + 1 = Period THEN 0 ELSE StepAt(age + 1)
    <3>1. StepAt(age + 1) = Period - (age + 1)
      BY <1>0, <1>3 DEF StepAt
    <3>2. PICK n \in Nat, t \in Nat : n = age /\ t = Period /\ n < t
      BY <1>0
    <3>3. ((IF n # 0 THEN t - n ELSE n) - 1) % t = IF n + 1 = t THEN 0 ELSE t - (n + 1)
      BY <3>2, ModFacts
    <3> QED BY <2>1, <3>1, <3>2, <3>3
  <2>3. \E g : DOMAIN g \subseteq Col /\ animations = Stepped(g, (anim_step - 1) % Period)
    <3>1. CASE bm.ani = "scroll_right"
      <4>1. animations = Stepped(ani_scroll_x(anim_step), (anim_step - 1) % Period)
        BY <3>1 DEF animations, Backward, Period
      <4> QED BY <4>1, AnimationColumns
    <3>2. CASE bm.ani = "scroll_down"
      <4>1. animations = Stepped(ani_scroll_y(anim_step), (anim_step - 1) % Period)
        BY <3>2 DEF animations, Backward, Period
      <4> QED BY <4>1, AnimationColumns
    <3> QED BY <1>3, <3>1, <3>2
  <2> QED BY <1>1, <1>2, <2>2, <2>3
<1>4. CASE bm.ani \in AniNames \ {"scroll_right", "scroll_down", "picture"}
  <2>1. anim_step = age
    BY <1>0, <1>4 DEF StepAt
  <2>2. (anim_step + 1) % Period = IF age + 1 = Period THEN 0 ELSE StepAt(age + 1)
    <3>1. StepAt(age + 1) = age + 1
      BY <1>4 DEF StepAt
    <3>2. (age + 1) % Period = IF age + 1 = Period THEN 0 ELSE age + 1
      BY <1>0, ModFacts
    <3> QED BY <2>1, <3>1, <3>2
  <2>3. \E g : DOMAIN g \subseteq Col /\ animations = Stepped(g, (anim_step + 1) % Period)
    <3>1. CASE bm.ani = "scroll_left"
      <4>1. animations = Stepped(ani_scroll_x(anim_step), (anim_step + 1) % Period)
        BY <3>1 DEF animations, Forward, Period
      <4> QED BY <4>1, AnimationColumns
    <3>2. CASE bm.ani = "scroll_up"
      <4>1. animations = Stepped(ani_scroll_y(anim_step), (anim_step + 1) % Period)
        BY <3>2 DEF animations, Forward, Period
      <4> QED BY <4>1, AnimationColumns
    <3>3. CASE bm.ani = "fixed"
      <4>1. animations = Stepped(still(anim_step \div ANI_FIXED_STEPS), (anim_step + 1) % Period)
        BY <3>3 DEF animations, Forward, Period, ANI_FIXED_STEPS
      <4> QED BY <4>1, AnimationColumns
    <3>4. CASE bm.ani = "animation"
      <4>1. animations = Stepped(still(anim_step \div ANI_ANIMATION_STEPS), (anim_step + 1) % Period)
        BY <3>4 DEF animations, Forward, Period, ANI_ANIMATION_STEPS
      <4> QED BY <4>1, AnimationColumns
    <3>5. CASE bm.ani = "snowflake"
      <4>1. animations = Stepped(ani_snowflake(anim_step), (anim_step + 1) % Period)
        BY <3>5 DEF animations, Forward, Period
      <4> QED BY <4>1, AnimationColumns
    <3>6. CASE bm.ani = "laser"
      <4>1. animations = Stepped(ani_laser(anim_step), (anim_step + 1) % Period)
        BY <3>6 DEF animations, Forward, Period
      <4> QED BY <4>1, AnimationColumns
    <3> QED BY <1>4, <3>1, <3>2, <3>3, <3>4, <3>5, <3>6 DEF AniNames
  <2> QED BY <1>1, <1>2, <2>2, <2>3
<1>5. CASE bm.ani = "picture"
  <2>1. anim_step = age /\ StepAt(age + 1) = age + 1 /\ Period = AniCols * Frames + hc
    BY <1>0, <1>5 DEF StepAt, Period
  <2>2. PICK c \in Nat, h \in Nat, k \in Nat :
          /\ c = AniCols /\ h = hc /\ k = Frames /\ h >= 1 /\ h < c /\ k >= 1
    BY AniSizes, BmFacts DEF AniInv
  <2>3. PictureEnds(age + 1) <=> age + 1 = Period
    <3>1. PictureEnds(age + 1) <=> age \div c = k /\ (age + 1) % c >= h
      BY <1>0, <2>2 DEF PictureEnds
    <3>2. PICK q \in Int, m \in Int : q = age \div c /\ m = age % c
      BY <1>0, <2>2
    <3>3. age = c * q + m /\ 0 <= m /\ m < c
      BY <1>0, <2>2, <3>2
    <3>4. age + 1 <= c * k + h
      BY <1>0, <2>1, <2>2
    <3>5. ASSUME q = k, (age + 1) % c >= h
          PROVE  age + 1 = c * k + h
      <4>1. CASE m + 1 < c
        <5>1. (c * q + (m + 1)) % c = m + 1
          <6>1. PICK e \in Int : e = m + 1 /\ 0 <= e /\ e < c
            BY <3>3, <4>1
          <6>2. c >= 1
            BY <2>2
          <6>3. (c * q + e) % c = e
            BY <6>1, <6>2, DivisionUnique
          <6> QED BY <6>1, <6>3
        <5>2. age + 1 = c * q + (m + 1)
          BY <3>3
        <5>3. m + 1 >= h
          BY <3>5, <5>1, <5>2
        <5> QED BY <2>2, <3>3, <3>4, <3>5, <5>3
      <4>2. CASE ~(m + 1 < c)
        BY <2>2, <3>3, <3>4, <3>5, <4>2
      <4> QED BY <4>1, <4>2
    <3>6. ASSUME age + 1 = c * k + h
          PROVE  q = k /\ (age + 1) % c >= h
      <4>1. (c * k + h) % c = h
        BY <2>2, DivisionUnique
      <4>2. (c * k + (h - 1)) \div c = k
        BY <2>2, DivisionUnique
      <4>3. age = c * k + (h - 1)
        BY <1>0, <2>2, <3>6
      <4> QED BY <2>2, <3>2, <3>6, <4>1, <4>2, <4>3
    <3> QED BY <2>1, <2>2, <3>1, <3>2, <3>5, <3>6
  <2>4. animations = ani_picture
    BY <1>5 DEF animations
  <2>5. \E g : DOMAIN g \subseteq Col
               /\ animations = Stepped(g, IF PictureEnds(age + 1) THEN 0 ELSE age + 1)
    <3>1. CASE age \div AniCols = Frames
      <4>1. animations = Stepped(picture_out(fb, (age + 1) % AniCols),
                                 IF PictureEnds(age + 1) THEN 0 ELSE age + 1)
        BY <2>1, <2>4, <3>1 DEF ani_picture
      <4>2. (age + 1) % AniCols \in Nat
        BY <1>0, AniSizes
      <4> QED BY <4>1, <4>2, PictureColumns
    <3>2. CASE age \div AniCols # Frames
      <4>1. animations = Stepped(picture(fb, age + 1, age \div AniCols),
                                 IF PictureEnds(age + 1) THEN 0 ELSE age + 1)
        BY <2>1, <2>4, <3>2 DEF ani_picture
      <4> QED BY <1>0, <4>1, PictureColumns
    <3> QED BY <3>1, <3>2
  <2> QED BY <1>1, <1>2, <2>1, <2>3, <2>5
<1> QED BY <1>0, <1>3, <1>4, <1>5

LEMMA EffectsOnScreen ==
  ASSUME NEW f, f \subseteq Screen, NEW s
  PROVE  Flashed(f, s) \subseteq Screen /\ Framed(f, s) \subseteq Screen
<1>1. Flashed(f, s) \subseteq Screen
  BY DEF Flashed, ani_flash
<1>2. \E g : DOMAIN g \subseteq Col /\ ani_marque(f, s) = Pixels(g)
  BY DEF ani_marque
<1>3. Framed(f, s) \subseteq Screen
  BY <1>2, PixelsOnScreen DEF Framed
<1> QED BY <1>1, <1>3

\* A bitmap that is begun has its period ahead.
LEMMA BitmapBegins ==
  current \in DOMAIN Bitmaps /\ anim_step = 0 /\ seen = {} /\ age = 0
    => seen \subseteq 0..Frames - 1 /\ age \in Nat /\ age < Period /\ anim_step = StepAt(age)
<1> SUFFICES ASSUME current \in DOMAIN Bitmaps, anim_step = 0, seen = {}, age = 0
             PROVE  /\ seen \subseteq 0..Frames - 1 /\ age \in Nat /\ age < Period
                    /\ anim_step = StepAt(age)
  OBVIOUS
<1> QED BY PeriodFacts DEF StepAt

LEMMA RestsAni == aniInit => AniInv
<1> SUFFICES ASSUME aniInit PROVE AniInv
  OBVIOUS
<1>1. /\ current \in DOMAIN Bitmaps /\ is_play_sequentially = TRUE /\ anim_step = 0
      /\ flash_step = 0 /\ marque_step = 0 /\ seen = {} /\ age = 0 /\ presses = 0
      /\ fb \subseteq Screen /\ MaxPresses \in Nat
  BY AniAssumption DEF aniInit, aniRests
<1>2. is_play_sequentially \in BOOLEAN
  BY <1>1
<1>3. flash_step \in 0..1 /\ marque_step \in 0..3 /\ presses \in 0..MaxPresses
  BY <1>1
<1> QED BY <1>1, <1>2, <1>3, BitmapBegins DEF AniInv

LEMMA FollowingFacts ==
  ASSUME current \in DOMAIN Bitmaps
  PROVE  Following \in DOMAIN Bitmaps /\ 1 \in DOMAIN Bitmaps
<1>1. PICK S : Bitmaps \in Seq(S) \ {<<>>}
  BY AniAssumption
<1>2. PICK l \in Nat : l = Len(Bitmaps) /\ l >= 1 /\ DOMAIN Bitmaps = 1..l
  BY <1>1
<1>3. current \in Nat
  BY <1>2
<1>4. (current % l) \in 0..l - 1
  BY <1>2, <1>3
<1>5. (current % l) + 1 \in 1..l
  BY <1>2, <1>4
<1> QED BY <1>2, <1>5 DEF Following

LEMMA AniStepInv == AniInv /\ [aniNext]_<<fb, aniVars>> => AniInv'
<1> SUFFICES ASSUME AniInv, [aniNext]_<<fb, aniVars>> PROVE AniInv'
  OBVIOUS
<1>0. /\ fb \subseteq Screen /\ current \in DOMAIN Bitmaps /\ is_play_sequentially \in BOOLEAN
      /\ flash_step \in 0..1 /\ marque_step \in 0..3
      /\ seen \subseteq 0..Frames - 1 /\ presses \in 0..MaxPresses /\ MaxPresses \in Nat
      /\ age \in Nat /\ age < Period /\ Period \in Nat /\ anim_step = StepAt(age)
  BY AniAssumption, PeriodFacts DEF AniInv
<1> DEFINE Going == /\ seen \subseteq 0..Frames - 1 /\ age \in Nat /\ age < Period
                    /\ anim_step = StepAt(age)
<1>1. ASSUME NEW place \in DOMAIN Bitmaps, Goto(place)
      PROVE  current' \in DOMAIN Bitmaps /\ Going'
  <2>1. /\ (current \in DOMAIN Bitmaps)' /\ (anim_step = 0)' /\ (seen = {})' /\ (age = 0)'
    BY <1>1 DEF Goto
  <2>2. (current \in DOMAIN Bitmaps /\ anim_step = 0 /\ seen = {} /\ age = 0
           => seen \subseteq 0..Frames - 1 /\ age \in Nat /\ age < Period /\ anim_step = StepAt(age))'
    BY BitmapBegins, PTL
  <2> QED BY <2>1, <2>2
<1>2. ASSUME UNCHANGED <<current, anim_step, seen, age>>
      PROVE  current' \in DOMAIN Bitmaps /\ Going'
  BY <1>0, <1>2 DEF Frames, Period, StepAt, width, bm, ScrollSteps
<1>3. CASE UNCHANGED <<fb, aniVars>>
  BY <1>0, <1>2, <1>3 DEF aniVars, effects, AniInv
<1>4. CASE ANI_NEXT_STEP
  <2>1. /\ fb' \in {Framed(f, marque_step) : f \in {Flashed(animations.f, flash_step)}}
        /\ IF animations.ended
           THEN Goto(IF is_play_sequentially THEN Following ELSE current)
           ELSE /\ anim_step' = animations.step /\ seen' = seen \cup NewlySeen(animations.f)
                /\ age' = age + 1 /\ UNCHANGED current
        /\ UNCHANGED <<effects, presses, is_play_sequentially>>
    BY <1>4 DEF ANI_NEXT_STEP
  <2>2. fb' \subseteq Screen
    BY <2>1, AnimationStep, EffectsOnScreen
  <2>3. CASE animations.ended
    <3>1. Goto(IF is_play_sequentially THEN Following ELSE current)
      BY <2>1, <2>3
    <3>2. current' \in DOMAIN Bitmaps /\ Going'
      BY <1>0, <1>1, <3>1, FollowingFacts
    <3> QED BY <1>0, <2>1, <2>2, <3>2 DEF effects, AniInv
  <2>4. CASE ~animations.ended
    <3>1. /\ anim_step' = StepAt(age + 1) /\ age' = age + 1 /\ age + 1 # Period /\ current' = current
          /\ seen' = seen \cup NewlySeen(animations.f)
      BY <2>1, <2>4, AnimationStep
    <3>2. Frames' = Frames /\ Period' = Period /\ bm' = bm
      BY <3>1 DEF Frames, Period, width, bm, ScrollSteps
    <3>3. anim_step' = StepAt(age)'
      BY <3>1, <3>2 DEF StepAt
    <3>4. seen' \subseteq 0..Frames' - 1
      BY <1>0, <3>1, <3>2 DEF NewlySeen
    <3>5. age' \in Nat /\ age' < Period'
      BY <1>0, <3>1, <3>2
    <3> QED BY <1>0, <2>1, <2>2, <3>1, <3>3, <3>4, <3>5 DEF effects, AniInv
  <2> QED BY <2>3, <2>4
<1>5. CASE ANI_MARQUE
  <2>1. marque_step' \in 0..3 /\ fb' \subseteq Screen
    BY <1>0, <1>5, EffectsOnScreen DEF ANI_MARQUE
  <2> QED BY <1>0, <1>2, <1>5, <2>1 DEF ANI_MARQUE, AniInv
<1>6. CASE ANI_FLASH
  <2>1. flash_step' \in 0..1 /\ fb' \subseteq Screen
    <3>1. Flashed(fb, flash_step') \subseteq Screen
      BY <1>0, EffectsOnScreen
    <3>2. Framed(Flashed(fb, flash_step'), marque_step) \subseteq Screen
      BY <3>1, EffectsOnScreen
    <3>3. flash_step' = (flash_step + 1) % 2 /\ fb' = Framed(Flashed(fb, flash_step'), marque_step)
      BY <1>6 DEF ANI_FLASH
    <3> QED BY <1>0, <3>2, <3>3
  <2> QED BY <1>0, <1>2, <1>6, <2>1 DEF ANI_FLASH, AniInv
<1>7. CASE bm_transition
  <2>1. presses' \in 0..MaxPresses /\ is_play_sequentially' \in BOOLEAN
    BY <1>0, <1>7 DEF bm_transition
  <2>2. Goto(IF is_play_sequentially THEN 1 ELSE Following)
    BY <1>7 DEF bm_transition
  <2>3. current' \in DOMAIN Bitmaps /\ Going'
    BY <1>0, <1>1, <2>2, FollowingFacts
  <2> QED BY <1>0, <1>7, <2>1, <2>3 DEF bm_transition, effects, AniInv
<1>8. CASE Resumed
  <2>1. presses' \in 0..MaxPresses /\ fb' \subseteq Screen
    BY <1>0, <1>8, AniAssumption DEF Resumed
  <2> QED BY <1>0, <1>2, <1>8, <2>1 DEF Resumed, effects, AniInv
<1> QED BY <1>3, <1>4, <1>5, <1>6, <1>7, <1>8 DEF aniNext

LEMMA AniInvImplies == AniInv => AnimationEnds
<1> SUFFICES ASSUME AniInv PROVE AnimationEnds
  OBVIOUS
<1>1. Period \in Nat /\ Period <= (3 * AniCols + 6 * AniRows) * Frames /\ Frames \in Nat
  BY PeriodFacts, BmFacts DEF AniInv
<1>2. PICK b \in Int : b = (3 * AniCols + 6 * AniRows) * Frames
  BY <1>1, AniSizes
<1>3. EndsInTime
  BY <1>1, <1>2 DEF AniInv, EndsInTime
<1>4. anim_step \in Nat
  BY <1>1 DEF AniInv, StepAt
<1> QED BY <1>3, <1>4 DEF AniInv, AnimationEnds, AniTypeOK

\* However often keys, flashes and borders interrupt it, an animation paints inside the
\* display and ends within the steps of a laser and a snowflake (src/animation.c).
THEOREM AnimationEndsHolds == aniSpec => []AnimationEnds
BY RestsAni, AniStepInv, AniInvImplies, PTL DEF aniSpec

-----------------------------------------------------------------------------
(* Each frame is painted whole, once in the period of its animation.          *)

\* What the bitmap holds, as far as the display looks at it.
LEMMA AtFacts ==
  ASSUME current \in DOMAIN Bitmaps
  PROVE  \A k \in Nat : At(k) \subseteq AniRow /\ (k >= width => At(k) = {})
<1>1. bm.buf \in Seq(SUBSET AniRow)
  <2> DEFINE Records == [buf : Seq(SUBSET AniRow) \ {<<>>}, ani : AniNames,
                         is_flash : BOOLEAN, is_marquee : BOOLEAN]
  <2>1. \A x \in Records : x.buf \in Seq(SUBSET AniRow)
    OBVIOUS
  <2> HIDE DEF Records
  <2>2. bm \in Records
    <3>1. Bitmaps \in Seq(Records)
      BY AniAssumption DEF Records
    <3> QED BY <3>1 DEF bm
  <2> QED BY <2>1, <2>2
<1>2. PICK S : S = SUBSET AniRow
  OBVIOUS
<1>3. PICK buf \in Seq(S) : buf = bm.buf
  BY <1>1, <1>2
<1>4. \A k \in Nat : k < Len(buf) => buf[k + 1] \in S
  BY <1>3
<1>5. Len(buf) \in Nat /\ width = Len(buf)
  BY <1>3 DEF width
<1>6. \A k \in Nat : At(k) = IF k < Len(buf) THEN buf[k + 1] ELSE {}
  BY <1>3, <1>5 DEF At
<1> QED BY <1>2, <1>4, <1>5, <1>6

LEMMA FrameStarts ==
  ASSUME current \in DOMAIN Bitmaps, NEW frame \in 0..Frames - 1
  PROVE  frame * AniCols \in Nat /\ frame * AniCols < width /\ frame \in Nat
<1>1. PICK w \in Nat, c \in Nat, q \in Nat : w = width /\ c = AniCols /\ q = Frames /\ c >= 2
  BY BmFacts, AniSizes
<1>2. q = (w + c - 1) \div c
  BY <1>1 DEF Frames
<1>3. PICK m \in Int : m = (w + c - 1) % c /\ 0 <= m
  BY <1>1
<1>4. w + c - 1 = c * q + m
  BY <1>1, <1>2, <1>3
<1>5. PICK d \in Nat, e \in Nat : e = frame /\ q = e + 1 + d
  BY <1>1
<1>6. PICK x \in Nat, z \in Nat : x = c * e /\ z = c * d
  BY <1>1, <1>5
<1>7. c * q = x + c + z
  BY <1>1, <1>5, <1>6
<1>8. x < w
  BY <1>1, <1>3, <1>4, <1>6, <1>7
<1>9. frame * AniCols = x
  BY <1>1, <1>5, <1>6
<1> QED BY <1>1, <1>5, <1>6, <1>8, <1>9

\* Columns that hold the frame from left on show it whole.
LEMMA WholeColumns ==
  ASSUME current \in DOMAIN Bitmaps, NEW frame \in 0..Frames - 1, NEW g, DOMAIN g = Col,
         NEW left \in 0..hc,
         \A j \in Col : g[j] = IF j >= left THEN At(frame * AniCols + (j - left)) ELSE {},
         \A k \in Col : At(frame * AniCols + k) # {} => k + left \in Col
  PROVE  ShownWhole(frame, Pixels(g))
<1>1. PICK s \in Nat : s = frame * AniCols
  BY FrameStarts
<1>2. left \in Nat /\ AniCols \in Nat /\ \A k \in Col : k \in Nat
  BY AniSizes DEF Col
<1>3. ASSUME NEW j \in Col, NEW r \in g[j] \cap AniRow
      PROVE  \E k \in Col : j = k + left /\ r \in At(s + k)
  <2>1. j >= left /\ r \in At(s + (j - left))
    BY <1>1
  <2>2. j - left \in Col /\ j = (j - left) + left
    BY <1>2, <2>1 DEF Col
  <2> QED BY <2>1, <2>2
<1>4. ASSUME NEW k \in Col, NEW r \in At(s + k)
      PROVE  k + left \in Col /\ r \in g[k + left] \cap AniRow
  <2>1. k + left \in Col
    BY <1>1
  <2>2. k + left >= left /\ (k + left) - left = k
    BY <1>2
  <2>3. g[k + left] = At(s + k)
    BY <1>1, <2>1, <2>2
  <2>4. r \in AniRow
    BY <1>1, <1>2, AtFacts
  <2> QED BY <2>1, <2>3, <2>4
<1>5. Pixels(g) = {<<p[1] + left, p[2]>> : p \in FramePixels(frame)}
  <2>1. ASSUME NEW p \in Pixels(g) PROVE p \in {<<x[1] + left, x[2]>> : x \in FramePixels(frame)}
    <3>1. PICK j \in Col : \E r \in g[j] \cap AniRow : p = <<j, r>>
      BY DEF Pixels
    <3> PICK r \in g[j] \cap AniRow : p = <<j, r>>
      BY <3>1
    <3>2. PICK k \in Col : j = k + left /\ r \in At(s + k)
      BY <1>3
    <3>3. <<k, r>> \in FramePixels(frame)
      BY <1>1, <3>2 DEF FramePixels
    <3> QED BY <3>1, <3>2, <3>3
  <2>2. ASSUME NEW x \in FramePixels(frame) PROVE <<x[1] + left, x[2]>> \in Pixels(g)
    <3>1. PICK k \in Col : \E r \in At(s + k) : x = <<k, r>>
      BY <1>1 DEF FramePixels
    <3> PICK r \in At(s + k) : x = <<k, r>>
      BY <3>1
    <3>2. k + left \in Col /\ r \in g[k + left] \cap AniRow
      BY <1>4
    <3> QED BY <3>1, <3>2 DEF Pixels
  <2> QED BY <2>1, <2>2
<1> QED BY <1>5 DEF ShownWhole

LEMMA ContentFacts ==
  ASSUME NEW frame
  PROVE  /\ ContentWidth(frame) \in 0..AniCols
         /\ \A k \in Col : At(frame * AniCols + k) # {} => k < ContentWidth(frame)
<1> DEFINE upTo == {k \in Col : \E l \in Col : l >= k /\ At(frame * AniCols + l) # {}}
<1>1. PICK c \in Nat : c = AniCols /\ Col = 0..c - 1 /\ c >= 2
  BY AniSizes DEF Col
<1>2. IsFiniteSet(Col) /\ Cardinality(Col) = c
  BY <1>1, FS_Interval
<1>3. upTo \subseteq Col /\ IsFiniteSet(upTo)
  <2>1. upTo \subseteq Col
    OBVIOUS
  <2> HIDE DEF upTo
  <2> QED BY <1>2, <2>1, FS_Subset
<1>4. Cardinality(upTo) \in 0..c
  <2> HIDE DEF upTo
  <2>1. Cardinality(upTo) \in Nat /\ Cardinality(upTo) <= c
    BY <1>2, <1>3, FS_Subset, FS_CardinalityType
  <2> QED BY <2>1
<1>5. ASSUME NEW k \in Col, At(frame * AniCols + k) # {} PROVE k < Cardinality(upTo)
  <2>1. k \in Nat /\ \A j \in 0..k : j \in Col /\ k >= j
    BY <1>1
  <2>2. 0..k \subseteq upTo
    BY <1>5, <2>1
  <2>3. Cardinality(0..k) = k + 1
    BY <2>1, FS_Interval
  <2> HIDE DEF upTo
  <2>4. k + 1 <= Cardinality(upTo)
    BY <1>3, <2>2, <2>3, FS_Subset
  <2> QED BY <1>4, <2>1, <2>4
<1>6. ContentWidth(frame) = Cardinality(upTo)
  BY DEF ContentWidth
<1> HIDE DEF upTo
<1> QED BY <1>1, <1>4, <1>5, <1>6

\* Left of a frame is at most half the display, and what the frame holds fits behind it.
LEMMA OffsetFacts ==
  ASSUME current \in DOMAIN Bitmaps, NEW frame
  PROVE  /\ get_x_offset(frame) \in 0..hc
         /\ \A k \in Col : At(frame * AniCols + k) # {} => k + get_x_offset(frame) \in Col
<1>1. PICK c \in Nat, w \in 0..AniCols, h \in Nat :
        c = AniCols /\ w = ContentWidth(frame) /\ h = hc /\ c >= 2 /\ hc = c \div 2
  BY AniSizes, ContentFacts DEF hc
<1>2. CASE Frames > 1
  BY <1>1, <1>2 DEF get_x_offset, Col
<1>3. CASE ~(Frames > 1)
  <2>1. get_x_offset(frame) = (c - w) \div 2
    BY <1>1, <1>3 DEF get_x_offset
  <2>2. PICK l \in Int : l = (c - w) \div 2 /\ 0 <= l /\ l <= c \div 2 /\ w + l <= c
    <3>1. w \in Nat /\ w <= c
      BY <1>1
    <3> QED BY <1>1, <3>1
  <2>3. \A k \in Col : At(frame * AniCols + k) # {} => k \in Nat /\ k < w
    BY <1>1, ContentFacts DEF Col
  <2>4. \A k \in Nat : k < w => k + l \in 0..c - 1
    BY <1>1, <2>2
  <2> QED BY <1>1, <2>1, <2>2, <2>3, <2>4 DEF Col
<1> QED BY <1>2, <1>3

LEMMA StillColumns ==
  ASSUME current \in DOMAIN Bitmaps, NEW frame \in 0..Frames - 1
  PROVE  /\ \A j \in Col : still(frame)[j] =
                 IF j >= get_x_offset(frame)
                 THEN At(frame * AniCols + (j - get_x_offset(frame))) ELSE {}
         /\ \A j \in Col : still(frame)[j] \subseteq AniRow
<1>1. PICK left \in 0..hc, s \in Nat, c \in Nat, w \in Nat :
        left = get_x_offset(frame) /\ s = frame * AniCols /\ c = AniCols /\ w = width
  BY OffsetFacts, FrameStarts, AniSizes, BmFacts
<1>2. left \in Nat
  BY AniSizes
<1>4. ASSUME NEW j \in Col
      PROVE  still(frame)[j] = IF j >= left THEN At(s + (j - left)) ELSE {}
  <2>1. j \in Nat /\ j < c
    BY <1>1 DEF Col
  <2>2. still(frame)[j] = IF j >= left /\ j < left + Lower(c - left, w - s)
                          THEN bm.buf[s + j - left + 1] ELSE {}
    BY <1>1 DEF still
  <2>3. CASE ~(j >= left)
    BY <2>2, <2>3
  <2>4. CASE j >= left /\ j < left + Lower(c - left, w - s)
    <3>1. PICK x \in Nat : x = s + (j - left)
      BY <1>1, <1>2, <2>1, <2>4
    <3>2. x < w /\ s + j - left + 1 = x + 1
      BY <1>1, <1>2, <2>1, <2>4, <3>1 DEF Lower
    <3> QED BY <1>1, <2>2, <2>4, <3>1, <3>2 DEF At
  <2>5. CASE j >= left /\ ~(j < left + Lower(c - left, w - s))
    <3>1. PICK x \in Nat : x = s + (j - left)
      BY <1>1, <1>2, <2>1, <2>5
    <3>2. x >= w
      BY <1>1, <1>2, <2>1, <2>5, <3>1 DEF Lower
    <3> QED BY <1>1, <2>2, <2>5, <3>1, <3>2, AtFacts
  <2> QED BY <2>3, <2>4, <2>5
<1>5. ASSUME NEW j \in Col PROVE still(frame)[j] \subseteq AniRow
  <2>1. j >= left => s + (j - left) \in Nat
    BY <1>1, <1>2 DEF Col
  <2> QED BY <1>4, <2>1, AtFacts
<1> QED BY <1>1, <1>4, <1>5

LEMMA StillWhole ==
  ASSUME current \in DOMAIN Bitmaps, NEW frame \in 0..Frames - 1
  PROVE  ShownWhole(frame, Pixels(still(frame)))
<1>1. DOMAIN still(frame) = Col
  BY DEF still
<1> QED BY <1>1, OffsetFacts, StillColumns, WholeColumns

LEMMA ScrollWhole ==
  ASSUME current \in DOMAIN Bitmaps, NEW frame \in 0..Frames - 1
  PROVE  ShownWhole(frame, Pixels(ani_scroll_x(AniCols + AniCols * frame)))
<1>1. PICK s \in Nat, c \in Nat : s = frame * AniCols /\ c = AniCols
  BY FrameStarts, AniSizes
<1>2. (AniCols + AniCols * frame) - AniCols = s
  BY <1>1, FrameStarts
<1>3. DOMAIN ani_scroll_x(AniCols + AniCols * frame) = Col
  BY DEF ani_scroll_x
<1>4. \A j \in Col : /\ j \in Nat /\ j >= 0 /\ j + s >= 0 /\ s + (j - 0) = j + s /\ j + 0 = j
  BY <1>1 DEF Col
<1>5. \A j \in Col : ani_scroll_x(AniCols + AniCols * frame)[j] = At(j + s)
  BY <1>2, <1>4 DEF ani_scroll_x
<1>6. \A j \in Col : ani_scroll_x(AniCols + AniCols * frame)[j] =
                       IF j >= 0 THEN At(frame * AniCols + (j - 0)) ELSE {}
  BY <1>1, <1>4, <1>5
<1>7. 0 \in 0..hc
  BY AniSizes
<1>8. \A k \in Col : At(frame * AniCols + k) # {} => k + 0 \in Col
  BY <1>4
<1> QED BY <1>3, <1>6, <1>7, <1>8, WholeColumns

\* The step in which an animation paints a frame whole.
WholeStep(frame) ==
  CASE bm.ani \in {"scroll_left", "scroll_right"} -> AniCols + AniCols * frame
    [] bm.ani \in {"scroll_up", "scroll_down"} -> 3 * AniRows * frame + AniRows
    [] bm.ani = "fixed" -> AniCols * frame
    [] bm.ani = "animation" -> 5 * frame
    [] bm.ani = "snowflake" -> 6 * AniRows * frame + 2 * AniRows
    [] bm.ani = "picture" -> AniCols * frame + (AniCols - 1)
    [] bm.ani = "laser" -> 3 * AniCols * frame + AniCols

Backwards == bm.ani \in {"scroll_right", "scroll_down"}

LEMMA WholeStepInPeriod ==
  ASSUME current \in DOMAIN Bitmaps, NEW frame \in 0..Frames - 1
  PROVE  /\ WholeStep(frame) \in Nat /\ WholeStep(frame) < Period /\ Period \in Nat
         /\ Backwards => WholeStep(frame) >= 1
<1>1. PICK c \in Nat, r \in Nat, k \in Nat, h \in Nat, w \in Nat, e \in Nat, d \in Nat :
        /\ c = AniCols /\ r = AniRows /\ k = Frames /\ h = hc /\ w = width /\ e = frame
        /\ c >= 2 /\ r >= 1 /\ h >= 1 /\ h < c /\ k = e + 1 + d
  <2>1. \A k \in Nat : \A e \in 0..k - 1 : e \in Nat /\ k - 1 - e \in Nat /\ k = e + 1 + (k - 1 - e)
    OBVIOUS
  <2>2. PICK k \in Nat, e \in 0..Frames - 1 : k = Frames /\ e = frame
    BY BmFacts
  <2>3. PICK d \in Nat : k = e + 1 + d /\ e \in Nat
    BY <2>1, <2>2
  <2> QED BY <2>2, <2>3, AniSizes, BmFacts
<1>2. PICK x \in Nat, z \in Nat, u \in Nat, v \in Nat :
        x = c * e /\ z = c * d /\ u = r * e /\ v = r * d
  BY <1>1
<1>3. c * k = x + c + z /\ r * k = u + r + v
  BY <1>1, <1>2
<1>4. x < w
  <2>1. frame * AniCols = x
    BY <1>1, <1>2
  <2> QED BY <1>1, <2>1, FrameStarts
<1>5. /\ 3 * r * e = 3 * u /\ 3 * r * k = 3 * (u + r + v)
      /\ 6 * r * e = 6 * u /\ 6 * r * k = 6 * (u + r + v)
      /\ 3 * c * e = 3 * x /\ 3 * c * k = 3 * (x + c + z)
  BY <1>1, <1>2, <1>3
<1>6. Period \in Nat
  BY PeriodFacts
<1>7. CASE bm.ani \in {"scroll_left", "scroll_right"}
  <2>1. WholeStep(frame) = c + x /\ Period = w + c
    BY <1>1, <1>2, <1>7 DEF WholeStep, Period, ScrollSteps
  <2> QED BY <1>1, <1>2, <1>4, <1>6, <2>1
<1>8. CASE bm.ani \in {"scroll_up", "scroll_down"}
  <2>1. WholeStep(frame) = 3 * u + r /\ Period = 3 * (u + r + v)
    BY <1>1, <1>5, <1>8 DEF WholeStep, Period
  <2> QED BY <1>1, <1>2, <1>6, <2>1
<1>9. CASE bm.ani = "fixed"
  <2>1. WholeStep(frame) = x /\ Period = x + c + z
    BY <1>1, <1>2, <1>3, <1>9 DEF WholeStep, Period
  <2> QED BY <1>1, <1>2, <1>6, <1>9, <2>1 DEF Backwards
<1>10. CASE bm.ani = "animation"
  <2>1. WholeStep(frame) = 5 * e /\ Period = 5 * k
    BY <1>1, <1>10 DEF WholeStep, Period
  <2> QED BY <1>1, <1>6, <1>10, <2>1 DEF Backwards
<1>11. CASE bm.ani = "snowflake"
  <2>1. WholeStep(frame) = 6 * u + 2 * r /\ Period = 6 * (u + r + v)
    BY <1>1, <1>5, <1>11 DEF WholeStep, Period
  <2> QED BY <1>1, <1>2, <1>6, <1>11, <2>1 DEF Backwards
<1>12. CASE bm.ani = "picture"
  <2>1. WholeStep(frame) = x + (c - 1) /\ Period = x + c + z + h
    BY <1>1, <1>2, <1>3, <1>12 DEF WholeStep, Period
  <2> QED BY <1>1, <1>2, <1>6, <1>12, <2>1 DEF Backwards
<1>13. CASE bm.ani = "laser"
  <2>1. WholeStep(frame) = 3 * x + c /\ Period = 3 * (x + c + z)
    BY <1>1, <1>5, <1>13 DEF WholeStep, Period
  <2> QED BY <1>1, <1>2, <1>6, <1>13, <2>1 DEF Backwards
<1> QED BY <1>7, <1>8, <1>9, <1>10, <1>11, <1>12, <1>13, BmFacts DEF AniNames

\* SIGNED_SHIFT by 0 leaves a column of the display as it is.
LEMMA NoShift ==
  ASSUME current \in DOMAIN Bitmaps, NEW frame \in 0..Frames - 1
  PROVE  Pixels([j \in Col |-> SIGNED_SHIFT(still(frame)[j], 0)]) = Pixels(still(frame))
<1> DEFINE shifted == [j \in Col |-> SIGNED_SHIFT(still(frame)[j], 0)]
<1>1. ASSUME NEW S \in SUBSET AniRow PROVE SIGNED_SHIFT(S, 0) = S
  <2>1. \A x \in S : x >= 0 /\ x - 0 = x
    BY AniSizes DEF AniRow
  <2> QED BY <2>1 DEF SIGNED_SHIFT
<1>2. DOMAIN still(frame) = Col /\ DOMAIN shifted = Col
  BY DEF still
<1>3. \A j \in Col : shifted[j] = still(frame)[j]
  BY <1>1, StillColumns
<1> HIDE DEF shifted
<1>4. Pixels(shifted) = Pixels(still(frame))
  BY <1>2, <1>3 DEF Pixels
<1> QED BY <1>4 DEF shifted

\* The curtain has passed the middle, or there is nothing of it left on a display of two
\* columns.
LEMMA PictureWhole ==
  ASSUME current \in DOMAIN Bitmaps, NEW frame \in 0..Frames - 1, NEW f
  PROVE  ShownWhole(frame, Pixels(picture(f, AniCols * frame + AniCols, frame)))
<1>1. PICK c \in Nat, h \in Nat, e \in Nat :
        c = AniCols /\ h = hc /\ e = frame /\ c >= 2 /\ h = c \div 2
  BY AniSizes DEF hc
<1>2. ((AniCols * frame + AniCols) - 1) % AniCols = c - 1
  <2>1. (c * e + (c - 1)) % c = c - 1
    <3>1. PICK m \in Int : m = c - 1 /\ 0 <= m /\ m < c /\ c >= 1
      BY <1>1
    <3>2. e \in Int
      OBVIOUS
    <3>3. (c * e + m) % c = m
      BY <3>1, <3>2, DivisionUnique
    <3> QED BY <3>1, <3>3
  <2>2. (AniCols * frame + AniCols) - 1 = c * e + (c - 1)
    <3>1. PICK x \in Nat : x = c * e
      BY <1>1
    <3> QED BY <1>1, <3>1
  <2> QED BY <1>1, <2>1, <2>2
<1>3. CASE c >= 3
  <2>1. c - 1 > h
    BY <1>1, <1>3
  <2>2. picture(f, AniCols * frame + AniCols, frame) = still(frame)
    BY <1>1, <1>2, <2>1 DEF picture
  <2> QED BY <2>2, StillWhole
<1>4. CASE c = 2
  <2>1. h = 1 /\ Col = {0, 1} /\ c - 1 = 1
    BY <1>1, <1>4 DEF Col
  <2>2. Within(1) = {0, 1}
    <3>1. 0..1 = {0, 1}
      OBVIOUS
    <3>2. Within(1) = {hc + 0 - 1, hc - 0} \cup {hc + 1 - 1, hc - 1}
      BY <3>1 DEF Within
    <3> QED BY <1>1, <2>1, <3>2
  <2>3. Edge(1) = {}
    BY <1>1, <2>1 DEF Edge
  <2>4. picture(f, AniCols * frame + AniCols, frame) =
          [j \in Col \cup Wiped(1) |->
             CASE j \in Edge(1) -> AniRow
               [] j \in Within(1) \ Edge(1) -> At(j + frame * AniCols)
               [] OTHER -> ColumnOf(f, j)]
    BY <1>1, <1>2, <2>1 DEF picture
  <2>5. Wiped(1) = {0, 1}
    BY <2>2, <2>3 DEF Wiped
  <2>6. PICK g : g = picture(f, AniCols * frame + AniCols, frame)
    OBVIOUS
  <2>7. DOMAIN g = Col /\ \A j \in Col : g[j] = At(j + frame * AniCols)
    BY <2>1, <2>2, <2>3, <2>4, <2>5, <2>6
  <2>8. PICK s \in Nat : s = frame * AniCols
    BY FrameStarts
  <2>9. \A j \in Col : j >= 0 /\ j + s = s + (j - 0) /\ j + 0 \in Col
    BY <2>1
  <2>10. /\ \A j \in Col : g[j] = IF j >= 0 THEN At(frame * AniCols + (j - 0)) ELSE {}
         /\ \A k \in Col : At(frame * AniCols + k) # {} => k + 0 \in Col
    BY <2>7, <2>8, <2>9
  <2>11. 0 \in 0..hc
    BY AniSizes
  <2> QED BY <2>6, <2>7, <2>10, <2>11, WholeColumns
<1> QED BY <1>1, <1>3, <1>4

LEMMA WholePainted ==
  ASSUME current \in DOMAIN Bitmaps, NEW frame \in 0..Frames - 1, anim_step = WholeStep(frame)
  PROVE  ShownWhole(frame, animations.f)
<1>1. PICK c \in Nat, r \in Nat, e \in Int :
        c = AniCols /\ r = AniRows /\ e = frame /\ c >= 2 /\ r >= 1 /\ e \in Nat
  BY AniSizes, BmFacts
<1>2. \A g, n : Stepped(g, n).f = Pixels(g)
  BY DEF Stepped
<1>3. CASE bm.ani \in {"scroll_left", "scroll_right"}
  <2>1. anim_step = AniCols + AniCols * frame
    BY <1>3 DEF WholeStep
  <2>2. animations.f = Pixels(ani_scroll_x(anim_step))
    BY <1>2, <1>3 DEF animations, Forward, Backward
  <2> QED BY <2>1, <2>2, ScrollWhole
<1>4. CASE bm.ani \in {"scroll_up", "scroll_down"}
  <2>1. anim_step = 3 * r * e + r
    BY <1>1, <1>4 DEF WholeStep
  <2>2. PICK t \in Nat : t = 3 * r /\ t >= 1 /\ r < t
    BY <1>1
  <2>3. (t * e + r) \div t = e /\ (t * e + r) % t = r
    <3>1. 0 <= r /\ r \in Int
      BY <1>1
    <3> QED BY <2>2, <3>1, DivisionUnique
  <2>4. ani_scroll_y(anim_step) = [j \in Col |-> SIGNED_SHIFT(still(frame)[j], 0)]
    <3>1. anim_step \div (3 * AniRows) = frame /\ anim_step % (3 * AniRows) = AniRows
      BY <1>1, <2>1, <2>2, <2>3
    <3>2. /\ ~(AniRows < AniRows) /\ AniRows >= AniRows /\ AniRows < 2 * AniRows
      BY <1>1
    <3> QED BY <3>1, <3>2 DEF ani_scroll_y
  <2>5. animations.f = Pixels(ani_scroll_y(anim_step))
    BY <1>2, <1>4 DEF animations, Forward, Backward
  <2> QED BY <2>4, <2>5, NoShift, StillWhole
<1>5. CASE bm.ani = "fixed"
  <2>1. anim_step = c * e + 0
    <3>1. c * e + 0 = c * e
      BY <1>1
    <3> QED BY <1>1, <1>5, <3>1 DEF WholeStep
  <2>2. (c * e + 0) \div c = e
    <3>1. c >= 1 /\ 0 < c /\ 0 <= 0 /\ 0 \in Int
      BY <1>1
    <3> QED BY <3>1, DivisionUnique
  <2>3. animations.f = Pixels(still(frame))
    BY <1>1, <1>2, <1>5, <2>1, <2>2 DEF animations, Forward, ANI_FIXED_STEPS
  <2> QED BY <2>3, StillWhole
<1>6. CASE bm.ani = "animation"
  <2>1. anim_step = 5 * e
    BY <1>1, <1>6 DEF WholeStep
  <2>2. (5 * e) \div 5 = e
    BY <1>1
  <2>3. animations.f = Pixels(still(frame))
    BY <1>1, <1>2, <1>6, <2>1, <2>2 DEF animations, Forward, ANI_ANIMATION_STEPS
  <2> QED BY <2>3, StillWhole
<1>7. CASE bm.ani = "snowflake"
  <2>1. anim_step = 6 * r * e + 2 * r
    BY <1>1, <1>7 DEF WholeStep
  <2>2. PICK t \in Nat, m \in Int : t = 6 * r /\ t >= 1 /\ m = 2 * r /\ 0 <= m /\ m < t
    BY <1>1
  <2>3. (t * e + m) \div t = e /\ (t * e + m) % t = m
    BY <2>2, DivisionUnique
  <2>4. anim_step \div (6 * AniRows) = frame /\ anim_step % (6 * AniRows) = 2 * AniRows
    BY <1>1, <2>1, <2>2, <2>3
  <2>5. ~(2 * AniRows < 2 * AniRows) /\ 2 * AniRows >= 2 * AniRows /\ 2 * AniRows <= 4 * AniRows
    BY <1>1
  <2>6. ani_snowflake(anim_step) = still(frame)
    BY <2>4, <2>5 DEF ani_snowflake
  <2>7. animations.f = Pixels(ani_snowflake(anim_step))
    BY <1>2, <1>7 DEF animations, Forward
  <2> QED BY <2>6, <2>7, StillWhole
<1>8. CASE bm.ani = "picture"
  <2>1. PICK x \in Nat : x = c * e
    BY <1>1
  <2>2. anim_step = c * e + (c - 1) /\ anim_step + 1 = c * e + c
    BY <1>1, <1>8, <2>1 DEF WholeStep
  <2>3. (c * e + (c - 1)) \div c = e
    <3>1. PICK m \in Int : m = c - 1 /\ 0 <= m /\ m < c /\ c >= 1
      BY <1>1
    <3>2. (c * e + m) \div c = e
      BY <3>1, DivisionUnique
    <3> QED BY <3>1, <3>2
  <2>4. e # Frames
    BY <1>1, BmFacts
  <2>5. \E n : animations = Stepped(picture(fb, AniCols * frame + AniCols, frame), n)
    BY <1>1, <1>8, <2>2, <2>3, <2>4 DEF animations, ani_picture
  <2> QED BY <1>2, <2>5, PictureWhole
<1>9. CASE bm.ani = "laser"
  <2>1. anim_step = 3 * c * e + c
    BY <1>1, <1>9 DEF WholeStep
  <2>2. PICK t \in Nat, m \in Int : t = 3 * c /\ t >= 1 /\ m = c /\ 0 <= m /\ m < t
    BY <1>1
  <2>3. (t * e + m) \div t = e /\ (t * e + m) % t = m
    BY <2>2, DivisionUnique
  <2>4. anim_step \div (3 * AniCols) = frame /\ anim_step % (3 * AniCols) = AniCols
    BY <1>1, <2>1, <2>2, <2>3
  <2>5. ~(AniCols < AniCols) /\ AniCols >= AniCols /\ AniCols < 2 * AniCols
    BY <1>1
  <2>6. ani_laser(anim_step) = still(frame)
    BY <2>4, <2>5 DEF ani_laser
  <2>7. animations.f = Pixels(ani_laser(anim_step))
    BY <1>2, <1>9 DEF animations, Forward
  <2> QED BY <2>6, <2>7, StillWhole
<1> QED BY <1>3, <1>4, <1>5, <1>6, <1>7, <1>8, <1>9, BmFacts DEF AniNames

\* How many steps after its start that is.
WholeAge(frame) == IF Backwards THEN Period - WholeStep(frame) ELSE WholeStep(frame)

SeenInTurn == \A frame \in 0..Frames - 1 : WholeAge(frame) < age => frame \in seen

LEMMA SeenNow ==
  ASSUME AniInv, SeenInTurn, NEW frame \in 0..Frames - 1, WholeAge(frame) < age + 1
  PROVE  frame \in seen \cup NewlySeen(animations.f)
<1>1. /\ current \in DOMAIN Bitmaps /\ age \in Nat /\ age < Period /\ anim_step = StepAt(age)
      /\ WholeStep(frame) \in Nat /\ WholeStep(frame) < Period /\ Period \in Nat
      /\ Backwards => WholeStep(frame) >= 1
  BY WholeStepInPeriod DEF AniInv
<1>2. WholeAge(frame) \in Nat
  BY <1>1 DEF WholeAge
<1>3. CASE WholeAge(frame) < age
  BY <1>3 DEF SeenInTurn
<1>4. CASE WholeAge(frame) = age
  <2>1. anim_step = WholeStep(frame)
    BY <1>1, <1>4 DEF WholeAge, StepAt, Backwards
  <2>2. ShownWhole(frame, animations.f)
    BY <1>1, <2>1, WholePainted
  <2> QED BY <2>2 DEF NewlySeen
<1> QED BY <1>1, <1>2, <1>3, <1>4

LEMMA SeenBegins == current \in DOMAIN Bitmaps /\ age = 0 => SeenInTurn
<1> SUFFICES ASSUME current \in DOMAIN Bitmaps, age = 0, NEW frame \in 0..Frames - 1
             PROVE  ~(WholeAge(frame) < age)
  BY DEF SeenInTurn
<1>1. WholeStep(frame) \in Nat /\ WholeStep(frame) < Period /\ Period \in Nat
  BY WholeStepInPeriod
<1>2. WholeAge(frame) \in Nat
  BY <1>1 DEF WholeAge
<1> QED BY <1>2

LEMMA SeenStep == AniInv /\ SeenInTurn /\ [aniNext]_<<fb, aniVars>> => SeenInTurn'
<1> SUFFICES ASSUME AniInv, SeenInTurn, [aniNext]_<<fb, aniVars>> PROVE SeenInTurn'
  OBVIOUS
<1>1. ASSUME Goto(current') PROVE SeenInTurn'
  <2>1. (current \in DOMAIN Bitmaps /\ age = 0)'
    BY <1>1, AniStepInv DEF Goto, AniInv
  <2>2. (current \in DOMAIN Bitmaps /\ age = 0 => SeenInTurn)'
    BY SeenBegins, PTL
  <2> QED BY <2>1, <2>2
<1>2. ASSUME UNCHANGED <<current, age, seen>> PROVE SeenInTurn'
  BY <1>2 DEF SeenInTurn, WholeAge, WholeStep, Backwards, Period, ScrollSteps, Frames, width, bm
<1>3. CASE UNCHANGED <<fb, aniVars>>
  BY <1>2, <1>3 DEF aniVars
<1>4. CASE ANI_NEXT_STEP
  <2>1. CASE animations.ended
    BY <1>1, <1>4, <2>1 DEF ANI_NEXT_STEP, Goto
  <2>2. CASE ~animations.ended
    <3>1. /\ seen' = seen \cup NewlySeen(animations.f) /\ age' = age + 1
          /\ UNCHANGED current
      BY <1>4, <2>2 DEF ANI_NEXT_STEP
    <3>2. Frames' = Frames /\ \A frame : WholeAge(frame)' = WholeAge(frame)
      BY <3>1 DEF WholeAge, WholeStep, Backwards, Period, ScrollSteps, Frames, width, bm
    <3> QED BY <3>1, <3>2, SeenNow DEF SeenInTurn
  <2> QED BY <2>1, <2>2
<1>5. CASE ANI_MARQUE
  BY <1>2, <1>5 DEF ANI_MARQUE
<1>6. CASE ANI_FLASH
  BY <1>2, <1>6 DEF ANI_FLASH
<1>7. CASE bm_transition
  BY <1>1, <1>7 DEF bm_transition, Goto
<1>8. CASE Resumed
  BY <1>2, <1>8 DEF Resumed
<1> QED BY <1>3, <1>4, <1>5, <1>6, <1>7, <1>8 DEF aniNext

\* A bitmap ends when all its frames have had their step.
LEMMA FramesSeen ==
  AniInv /\ SeenInTurn /\ [aniNext]_<<fb, aniVars>> =>
    [age > 0 /\ age' = 0 /\ presses' = presses =>
       seen \cup NewlySeen(animations.f) = 0..Frames - 1]_<<fb, aniVars>>
<1> SUFFICES ASSUME AniInv, SeenInTurn, aniNext, age > 0, age' = 0, presses' = presses
             PROVE  seen \cup NewlySeen(animations.f) = 0..Frames - 1
  OBVIOUS
<1>1. age \in Nat /\ age < Period /\ Period \in Nat /\ presses \in Nat /\ current \in DOMAIN Bitmaps
  BY PeriodFacts, AniAssumption DEF AniInv
<1>2. ANI_NEXT_STEP
  BY <1>1 DEF aniNext, ANI_MARQUE, ANI_FLASH, bm_transition, Resumed
<1>3. animations.ended
  BY <1>1, <1>2 DEF ANI_NEXT_STEP
<1>4. age + 1 = Period
  BY <1>3, AnimationStep
<1>5. ASSUME NEW frame \in 0..Frames - 1 PROVE frame \in seen \cup NewlySeen(animations.f)
  <2>1. /\ WholeStep(frame) \in Nat /\ WholeStep(frame) < Period
        /\ Backwards => WholeStep(frame) >= 1
    BY <1>1, WholeStepInPeriod
  <2>2. WholeAge(frame) < age + 1
    BY <1>1, <1>4, <2>1 DEF WholeAge
  <2> QED BY <2>2, SeenNow
<1>6. seen \cup NewlySeen(animations.f) \subseteq 0..Frames - 1
  BY DEF AniInv, NewlySeen
<1> QED BY <1>5, <1>6

-----------------------------------------------------------------------------
(* A laser takes a frame away from the left, column by column.                *)

\* What a laser that leaves has painted last, unless the menu was there since.
LaserLast ==
  LaserLeaves => \/ fb = AniLeftover
                 \/ fb = Pixels(laser_out((anim_step % (3 * AniCols)) - 1 - 2 * AniCols,
                                          anim_step \div (3 * AniCols)))

LEMMA OneBefore ==
  ASSUME NEW n \in Nat, NEW t \in Nat, t >= 1, (n + 1) % t >= 1
  PROVE  n % t = ((n + 1) % t) - 1 /\ n \div t = (n + 1) \div t
<1>1. PICK q \in Int, m \in Int : q = (n + 1) \div t /\ m = (n + 1) % t
  OBVIOUS
<1>2. n + 1 = t * q + m /\ 1 <= m /\ m < t
  BY <1>1
<1>3. PICK e \in Int : e = m - 1 /\ 0 <= e /\ e < t
  BY <1>2
<1>4. n = t * q + e
  BY <1>2, <1>3
<1>5. (t * q + e) \div t = q /\ (t * q + e) % t = e
  BY <1>3, DivisionUnique
<1> QED BY <1>1, <1>3, <1>4, <1>5

\* Without flash and marquee what the animation painted stays on the display.
LEMMA PlainPicture ==
  ASSUME ~bm.is_flash, ~bm.is_marquee, NEW f, NEW s, NEW t
  PROVE  Framed(Flashed(f, s), t) = f
BY DEF Framed, Flashed

\* A step of a laser while the frame leaves.
LEMMA LaserPaints ==
  ASSUME AniInv, bm.ani = "laser", (anim_step % (3 * AniCols)) >= 2 * AniCols
  PROVE  animations.f = Pixels(laser_out((anim_step % (3 * AniCols)) - 2 * AniCols,
                                         anim_step \div (3 * AniCols)))
<1>1. animations.f = Pixels(ani_laser(anim_step))
  BY DEF animations, Forward, Stepped
<1>2. PICK c \in Int, m \in Int : c = AniCols /\ c >= 2 /\ m = anim_step % (3 * AniCols)
  <2>1. anim_step \in Nat /\ AniCols \in Nat /\ AniCols >= 2
    BY AniSizes DEF AniInv, StepAt
  <2> QED BY <2>1
<1>3. ~(m < c) /\ ~(m >= c /\ m < 2 * c)
  BY <1>2
<1> QED BY <1>1, <1>2, <1>3 DEF ani_laser

LEMMA SameBitmap ==
  ASSUME bm' = bm
  PROVE  /\ \A s, frame : laser_out(s, frame)' = laser_out(s, frame)
         /\ \A frame : get_x_offset(frame)' = get_x_offset(frame)
<1>1. width' = width /\ Frames' = Frames /\ \A k : At(k)' = At(k)
  BY DEF width, Frames, At
<1>2. ASSUME NEW frame PROVE ContentWidth(frame)' = ContentWidth(frame)
  <2>1. {k \in Col : \E l \in Col : l >= k /\ At(frame * AniCols + l) # {}}'
          = {k \in Col : \E l \in Col : l >= k /\ At(frame * AniCols + l) # {}}
    BY <1>1
  <2> QED BY <2>1 DEF ContentWidth
<1>3. ASSUME NEW frame PROVE get_x_offset(frame)' = get_x_offset(frame)
  BY <1>1, <1>2 DEF get_x_offset
<1>4. ASSUME NEW s, NEW frame PROVE laser_out(s, frame)' = laser_out(s, frame)
  BY <1>1, <1>3 DEF laser_out
<1> QED BY <1>3, <1>4

LEMMA LaserStep == AniInv /\ LaserLast /\ [aniNext]_<<fb, aniVars>> => LaserLast'
<1> SUFFICES ASSUME AniInv, LaserLast, [aniNext]_<<fb, aniVars>>, LaserLeaves'
             PROVE  \/ fb' = AniLeftover
                    \/ (fb = Pixels(laser_out((anim_step % (3 * AniCols)) - 1 - 2 * AniCols,
                                              anim_step \div (3 * AniCols))))'
  BY DEF LaserLast
<1>1. AniCols \in Nat /\ AniCols >= 2
  BY AniSizes
<1>2. anim_step' # 0
  <2>1. 0 % (3 * AniCols) = 0
    BY <1>1
  <2>2. (anim_step' % (3 * AniCols)) > 2 * AniCols
    BY DEF LaserLeaves
  <2> QED BY <1>1, <2>1, <2>2
<1>3. ASSUME UNCHANGED <<fb, current, anim_step>>
      PROVE  \/ fb' = AniLeftover
             \/ (fb = Pixels(laser_out((anim_step % (3 * AniCols)) - 1 - 2 * AniCols,
                                       anim_step \div (3 * AniCols))))'
  <2>1. bm' = bm
    BY <1>3 DEF bm
  <2>2. LaserLeaves
    BY <1>3, <2>1, SameBitmap DEF LaserLeaves
  <2> QED BY <1>3, <2>1, <2>2, SameBitmap DEF LaserLast
<1>4. CASE UNCHANGED <<fb, aniVars>>
  BY <1>3, <1>4 DEF aniVars
<1>5. CASE ANI_NEXT_STEP
  <2>1. /\ ~animations.ended /\ current' = current /\ anim_step' = animations.step
        /\ fb' = Framed(Flashed(animations.f, flash_step), marque_step)
    BY <1>2, <1>5 DEF ANI_NEXT_STEP, Goto
  <2>2. bm' = bm
    BY <2>1 DEF bm
  <2>3. bm.ani = "laser" /\ ~bm.is_flash /\ ~bm.is_marquee
    BY <2>2 DEF LaserLeaves
  <2>4. fb' = animations.f
    BY <2>1, <2>3, PlainPicture
  <2>5. anim_step \in Nat /\ anim_step' = anim_step + 1
    BY <2>1, <2>3, AnimationStep, PeriodFacts DEF AniInv, StepAt
  <2>6. PICK t \in Nat : t = 3 * AniCols /\ t >= 1
    BY <1>1
  <2>7. /\ anim_step % t = (anim_step' % t) - 1 /\ anim_step \div t = anim_step' \div t
        /\ anim_step' % t \in Int /\ anim_step' % t > 2 * AniCols
    <3>1. anim_step' % t > 2 * AniCols /\ (anim_step + 1) % t \in Int
      BY <2>5, <2>6 DEF LaserLeaves
    <3>2. (anim_step + 1) % t >= 1
      BY <1>1, <2>5, <3>1
    <3> QED BY <2>5, <2>6, <3>1, <3>2, OneBefore
  <2>8. anim_step % (3 * AniCols) >= 2 * AniCols
    BY <1>1, <2>6, <2>7
  <2>9. fb' = Pixels(laser_out((anim_step % (3 * AniCols)) - 2 * AniCols, anim_step \div (3 * AniCols)))
    BY <2>3, <2>4, <2>8, LaserPaints
  <2>10. fb' = Pixels(laser_out((anim_step' % (3 * AniCols)) - 1 - 2 * AniCols,
                                anim_step' \div (3 * AniCols)))
    BY <1>1, <2>6, <2>7, <2>9
  <2>11. \A s, frame : Pixels(laser_out(s, frame))' = Pixels(laser_out(s, frame))
    BY <2>2, SameBitmap DEF Pixels
  <2> QED BY <2>10, <2>11
<1>6. CASE ANI_MARQUE
  <2>1. current' = current /\ anim_step' = anim_step /\ fb' = Framed(fb, marque_step')
    BY <1>6 DEF ANI_MARQUE
  <2>2. ~bm.is_marquee
    BY <2>1 DEF LaserLeaves, bm
  <2> QED BY <1>3, <2>1, <2>2 DEF Framed
<1>7. CASE ANI_FLASH
  <2>1. current' = current /\ anim_step' = anim_step
        /\ fb' = Framed(Flashed(fb, flash_step'), marque_step)
    BY <1>7 DEF ANI_FLASH
  <2>2. ~bm.is_marquee /\ ~bm.is_flash
    BY <2>1 DEF LaserLeaves, bm
  <2> QED BY <1>3, <2>1, <2>2 DEF Framed, Flashed
<1>8. CASE bm_transition
  BY <1>2, <1>8 DEF bm_transition, Goto
<1>9. CASE Resumed
  BY <1>9 DEF Resumed
<1> QED BY <1>4, <1>5, <1>6, <1>7, <1>8, <1>9 DEF aniNext

LEMMA LaserTakes ==
  ASSUME NEW k \in Nat, k >= 1, k < AniCols, NEW frame, get_x_offset(frame) = 0
  PROVE  Pixels(laser_out(k, frame)) \subseteq Pixels(laser_out(k - 1, frame))
<1>1. PICK c \in Nat : c = AniCols /\ c >= 2
  BY AniSizes
<1>2. AniCols - get_x_offset(frame) = c /\ k % c = k /\ (k - 1) % c = k - 1
  <2>1. \A n \in Nat : n < c => n % c = n
    BY <1>1
  <2> QED BY <1>1, <2>1
<1>3. PICK e : e = get_x_offset(frame) + Lower(AniCols - get_x_offset(frame), width - frame * AniCols)
  OBVIOUS
<1>4. /\ laser_out(k, frame) =
           [j \in Col |-> IF j >= 0 + k /\ j < e THEN At(frame * AniCols + j - 0) ELSE {}]
      /\ laser_out(k - 1, frame) =
           [j \in Col |-> IF j >= 0 + (k - 1) /\ j < e THEN At(frame * AniCols + j - 0) ELSE {}]
  BY <1>2, <1>3 DEF laser_out
<1>5. \A j \in Col : j >= 0 + k => j >= 0 + (k - 1)
  BY <1>1 DEF Col
<1>6. \A j \in Col : laser_out(k, frame)[j] \subseteq laser_out(k - 1, frame)[j]
  BY <1>4, <1>5
<1>7. DOMAIN laser_out(k, frame) = Col /\ DOMAIN laser_out(k - 1, frame) = Col
  BY <1>4
<1> QED BY <1>6, <1>7 DEF Pixels

LEMMA LaserGone ==
  AniInv /\ LaserLast /\ [aniNext]_<<fb, aniVars>> =>
    [LaserLeaves /\ anim_step' = anim_step + 1 =>
       fb' \subseteq fb \/ fb = AniLeftover]_<<fb, aniVars>>
<1> SUFFICES ASSUME AniInv, LaserLast, aniNext, LaserLeaves, anim_step' = anim_step + 1,
                    fb # AniLeftover
             PROVE  fb' \subseteq fb
  OBVIOUS
<1>1. AniCols \in Nat /\ AniCols >= 2 /\ anim_step \in Nat
  BY AniSizes DEF AniInv, StepAt, LaserLeaves
<1>2. ANI_NEXT_STEP
  BY <1>1 DEF aniNext, ANI_MARQUE, ANI_FLASH, bm_transition, Resumed, Goto
<1>3. fb' = animations.f
  <2>1. fb' = Framed(Flashed(animations.f, flash_step), marque_step)
    BY <1>2 DEF ANI_NEXT_STEP
  <2> QED BY <2>1, PlainPicture DEF LaserLeaves
<1>4. PICK m \in Nat : /\ m = anim_step % (3 * AniCols) /\ m < 3 * AniCols /\ m > 2 * AniCols
  BY <1>1 DEF LaserLeaves
<1>5. fb' = Pixels(laser_out(m - 2 * AniCols, anim_step \div (3 * AniCols)))
  <2>1. anim_step % (3 * AniCols) >= 2 * AniCols /\ bm.ani = "laser"
    BY <1>1, <1>4 DEF LaserLeaves
  <2> QED BY <1>3, <1>4, <2>1, LaserPaints
<1>6. fb = Pixels(laser_out(m - 1 - 2 * AniCols, anim_step \div (3 * AniCols)))
  BY <1>4 DEF LaserLast
<1>7. PICK k \in Nat : k = m - 2 * AniCols /\ k >= 1 /\ k < AniCols /\ m - 1 - 2 * AniCols = k - 1
  BY <1>1, <1>4
<1>8. get_x_offset(anim_step \div (3 * AniCols)) = 0
  BY DEF LaserLeaves
<1> QED BY <1>5, <1>6, <1>7, <1>8, LaserTakes

LEMMA FramesBegin == current \in DOMAIN Bitmaps /\ age = 0 /\ anim_step = 0 => SeenInTurn /\ LaserLast
<1> SUFFICES ASSUME current \in DOMAIN Bitmaps, age = 0, anim_step = 0 PROVE SeenInTurn /\ LaserLast
  OBVIOUS
<1>1. ~LaserLeaves
  <2>1. 0 % (3 * AniCols) = 0 /\ ~(0 > 2 * AniCols)
    BY AniSizes
  <2> QED BY <2>1 DEF LaserLeaves
<1> QED BY <1>1, SeenBegins DEF LaserLast

\* Every frame is painted whole before its bitmap gives way to the next, and a laser takes
\* away what it takes away, for any list of bitmaps of any width on displays of any size
\* (src/animation.c).
THEOREM FramesPaintedHolds == aniSpec => FramesPainted
<1>1. aniInit => AniInv /\ SeenInTurn /\ LaserLast
  BY RestsAni, FramesBegin DEF aniInit, aniRests
<1>2. AniInv /\ SeenInTurn /\ LaserLast /\ [aniNext]_<<fb, aniVars>>
        => AniInv' /\ SeenInTurn' /\ LaserLast'
  BY AniStepInv, SeenStep, LaserStep
<1> QED BY <1>1, <1>2, FramesSeen, LaserGone, PTL
        DEF aniSpec, FramesPainted, EveryFrameShown, GoneStaysGone

-----------------------------------------------------------------------------
(* Splash, for any pictures of the configuration that have the height.        *)

\* In each of its parts the counters of the other two are 0, and the three together
\* count the frames.
SplashInv ==
  /\ splash_bm \in DOMAIN SplashPictures /\ splash_over \in BOOLEAN
  /\ pad_i \in 0..3 /\ pt_i \in Nat /\ up_i \in Nat /\ pb_i \in Nat /\ frames \in Nat
  /\ pad_i \in {0, 1} => pt_i <= SplashRows /\ up_i = 0 /\ pb_i = 0
  /\ pad_i \in {0, 1} /\ ~splash_over => frames = pt_i
  /\ pad_i = 2 => /\ pt_i = 0 /\ pb_i = 0 /\ up_i <= height - SplashRows + 1
                  /\ frames = SplashRows + up_i
  /\ pad_i = 3 => /\ pt_i = 0 /\ up_i = 0 /\ pb_i <= SplashRows
                  /\ frames = height + 1 + pb_i
  /\ splash_over => pad_i = 0 /\ pt_i = 0 /\ frames = height + SplashRows + 1
  /\ painted \in 0..frames
  /\ painted > 0 => fb \ Beside(fb, spl.w) = Raised(painted)
  /\ Beside(fb, spl.w) = Beside(SplashLeftover, spl.w)

\* The parameters of a picture.
LEMMA SplFacts ==
  ASSUME splash_bm \in DOMAIN SplashPictures
  PROVE  /\ SplashRows \in Nat /\ SplashRows >= 1 /\ spl.w \in Nat
         /\ height \in Nat /\ height >= SplashRows - 1
         /\ \A r \in 1..height : spl.rows[r] \subseteq 0..spl.w - 1
<1>1. /\ SplashRows \in Nat \ {0} /\ spl.w \in 0..SplashCols /\ SplashCols \in Nat
      /\ spl.rows \in Seq(SUBSET (0..spl.w - 1)) /\ height >= SplashRows - 1
  BY SplashAssumption DEF spl, height
<1>2. PICK S : S = SUBSET (0..spl.w - 1)
  OBVIOUS
<1>3. PICK rows \in Seq(S) : rows = spl.rows
  BY <1>1, <1>2
<1>4. Len(rows) \in Nat /\ \A r \in 1..Len(rows) : rows[r] \in S
  BY <1>3
<1> QED BY <1>1, <1>2, <1>3, <1>4 DEF height

LEMMA RestsSplash == splashInit => SplashInv
<1> SUFFICES ASSUME splashInit PROVE SplashInv
  OBVIOUS
<1>1. splash_bm \in DOMAIN SplashPictures
  BY DEF splashInit, splashRests
<1>2. /\ splash_over = FALSE /\ pad_i = 0 /\ pt_i = 0 /\ up_i = 0 /\ pb_i = 0
      /\ frames = 0 /\ painted = 0 /\ fb = SplashLeftover
  BY DEF splashInit, splashRests
<1>3. painted \in 0..frames /\ ~(painted > 0) /\ pt_i <= SplashRows
  BY <1>1, <1>2, SplFacts
<1>4. splash_over \in BOOLEAN /\ ~splash_over /\ fb = SplashLeftover
  BY <1>2
<1>5. /\ pad_i \in 0..3 /\ pad_i \notin {2, 3} /\ frames = pt_i
      /\ pt_i \in Nat /\ up_i \in Nat /\ pb_i \in Nat /\ frames \in Nat
      /\ up_i = 0 /\ pb_i = 0
  BY <1>2
<1> QED BY <1>1, <1>3, <1>4, <1>5 DEF SplashInv

\* A part of the picture, painted where it has moved to, is what the display shows then.
LEMMA FrameIsRaised ==
  ASSUME splash_bm \in DOMAIN SplashPictures,
         NEW n \in Nat, NEW from \in Nat, NEW to \in Nat, NEW row \in Nat,
         row = SplashRows + 1 - n + from,
         from = 0 \/ from = n - 1 - SplashRows, n - 1 - SplashRows <= from,
         to = height \/ to = n - 1, to <= height, to <= n - 1
  PROVE  FrameAt(from, to, row) = Raised(n)
<1>1. SplashRows \in Nat /\ height \in Nat
  BY SplFacts
<1> DEFINE Painted(r) == spl.rows[r + 1] \X {row + r - from}
           Shown(r) == spl.rows[r] \X {SplashRows + r - n}
<1>2. ASSUME NEW r \in from..to - 1
      PROVE  r + 1 \in (n - SplashRows..n - 1) \cap (1..height) /\ Painted(r) = Shown(r + 1)
  <2>1. r + 1 \in (n - SplashRows..n - 1) \cap (1..height)
    BY <1>1
  <2>2. row + r - from = SplashRows + (r + 1) - n
    BY <1>1
  <2> QED BY <2>1, <2>2
<1>3. ASSUME NEW r \in (n - SplashRows..n - 1) \cap (1..height)
      PROVE  r - 1 \in from..to - 1 /\ Shown(r) = Painted(r - 1)
  <2>1. r - 1 \in from..to - 1
    BY <1>1
  <2>2. row + (r - 1) - from = SplashRows + r - n /\ (r - 1) + 1 = r
    BY <1>1
  <2> QED BY <2>1, <2>2
<1>4. FrameAt(from, to, row) = UNION {Painted(r) : r \in from..to - 1}
  BY DEF FrameAt
<1>5. Raised(n) = UNION {Shown(r) : r \in (n - SplashRows..n - 1) \cap (1..height)}
  BY DEF Raised
<1>6. ASSUME NEW p PROVE p \in FrameAt(from, to, row) <=> p \in Raised(n)
  <2> HIDE DEF Painted, Shown
  <2>1. ASSUME p \in FrameAt(from, to, row) PROVE p \in Raised(n)
    <3>1. PICK r \in from..to - 1 : p \in Painted(r)
      BY <1>4, <2>1
    <3> QED BY <1>2, <1>5, <3>1
  <2>2. ASSUME p \in Raised(n) PROVE p \in FrameAt(from, to, row)
    <3>1. PICK r \in (n - SplashRows..n - 1) \cap (1..height) : p \in Shown(r)
      BY <1>5, <2>2
    <3> QED BY <1>3, <1>4, <3>1
  <2> QED BY <2>1, <2>2
<1> QED BY <1>6

\* What a call paints, or fails to, keeps the picture where its frames have brought it
\* and all else on the display as it was.
LEMMA XbmPaints ==
  ASSUME SplashInv, NEW from \in Nat, NEW to \in Nat, NEW row \in Nat,
         xbm2fb(from, to, row), to <= height, FrameAt(from, to, row) = Raised(frames + 1)
  PROVE  /\ frames' = frames + 1 /\ painted' \in 0..frames'
         /\ painted' > 0 => fb' \ Beside(fb', spl.w) = Raised(painted')
         /\ Beside(fb', spl.w) = Beside(SplashLeftover, spl.w)
<1>1. /\ spl.w \in Nat /\ height \in Nat /\ \A r \in 1..height : spl.rows[r] \subseteq 0..spl.w - 1
      /\ frames \in Nat /\ painted \in 0..frames
  BY SplFacts DEF SplashInv
<1>2. frames' = frames + 1
  BY DEF xbm2fb
<1>3. \A p \in FrameAt(from, to, row) : ~(p[1] >= spl.w)
  <2> SUFFICES ASSUME NEW p \in FrameAt(from, to, row) PROVE ~(p[1] >= spl.w)
    OBVIOUS
  <2>1. PICK r \in from..to - 1 : p \in spl.rows[r + 1] \X {row + r - from}
    BY DEF FrameAt
  <2>2. r + 1 \in 1..height
    BY <1>1
  <2>3. p[1] \in 0..spl.w - 1
    BY <1>1, <2>1, <2>2
  <2> QED BY <1>1, <2>3
<1>4. CASE fb' = Beside(fb, spl.w) \cup FrameAt(from, to, row) /\ painted' = frames + 1
  <2>1. Beside(fb', spl.w) = Beside(fb, spl.w)
    BY <1>3, <1>4 DEF Beside
  <2>2. fb' \ Beside(fb', spl.w) = FrameAt(from, to, row)
    BY <1>3, <1>4, <2>1 DEF Beside
  <2>3. Beside(fb, spl.w) = Beside(SplashLeftover, spl.w)
    BY DEF SplashInv
  <2>4. painted' \in 0..frames'
    BY <1>1, <1>2, <1>4
  <2>5. Raised(painted') = Raised(frames + 1)
    BY <1>4
  <2> QED BY <1>2, <2>1, <2>2, <2>3, <2>4, <2>5
<1>5. CASE UNCHANGED <<fb, painted>>
  BY <1>1, <1>2, <1>5 DEF SplashInv
<1> QED BY <1>4, <1>5 DEF xbm2fb

LEMMA SplashStepInv == SplashInv /\ [splashNext]_<<fb, splashVars>> => SplashInv'
<1> SUFFICES ASSUME SplashInv, [splashNext]_<<fb, splashVars>> PROVE SplashInv'
  OBVIOUS
<1>1. /\ SplashRows \in Nat /\ SplashRows >= 1 /\ height \in Nat /\ height >= SplashRows - 1
      /\ splash_bm \in DOMAIN SplashPictures /\ splash_over \in BOOLEAN
      /\ pad_i \in 0..3 /\ pt_i \in Nat /\ up_i \in Nat /\ pb_i \in Nat /\ frames \in Nat
  BY SplFacts DEF SplashInv
<1>2. CASE UNCHANGED <<fb, splashVars>>
  BY <1>2 DEF splashVars, SplashInv, spl, height, Raised, Beside
<1>3. CASE splashNext
  <2>0. splash_bm' = splash_bm /\ ~splash_over /\ spl' = spl /\ height' = height
    BY <1>3 DEF splashNext, play_splash, spl, height
  <2> DEFINE Picture == /\ frames' = frames + 1 /\ painted' \in 0..frames'
                        /\ painted' > 0 => fb' \ Beside(fb', spl.w) = Raised(painted')
                        /\ Beside(fb', spl.w) = Beside(SplashLeftover, spl.w)
             SamePicture == UNCHANGED <<fb, frames, painted>>
  <2>1. ASSUME Picture \/ SamePicture
        PROVE  /\ (painted \in 0..frames)'
               /\ (painted > 0 => fb \ Beside(fb, spl.w) = Raised(painted))'
               /\ (Beside(fb, spl.w) = Beside(SplashLeftover, spl.w))'
    <3>1. ASSUME NEW n PROVE Raised(n) = UNION {spl'.rows[r] \X {SplashRows + r - n} : r \in (n - SplashRows..n - 1) \cap (1..height')}
      BY <2>0 DEF Raised
    <3> QED BY <2>0, <2>1, <3>1 DEF SplashInv, Raised, Beside
  <2>2. CASE scroll_pt_next
    <3>1. pad_i \in {0, 1} /\ pt_i < SplashRows /\ pt_i <= height /\ frames = pt_i
      BY <1>1, <2>0, <2>2 DEF scroll_pt_next, scroll_pt_ends, xbm_croph, SplashInv
    <3>2. FrameAt(0, pt_i, SplashRows - pt_i) = Raised(frames + 1)
      BY <1>1, <3>1, FrameIsRaised
    <3>3. Picture
      BY <1>1, <2>2, <3>1, <3>2, XbmPaints DEF scroll_pt_next
    <3> QED BY <1>1, <2>0, <2>1, <2>2, <3>1, <3>3 DEF scroll_pt_next, SplashInv
  <2>3. CASE ani_xbm_scroll_up
    <3>1. /\ pt_i' = 0 /\ pb_i = 0 /\ up_i + SplashRows <= height /\ frames = SplashRows + up_i
      BY <1>1, <2>0, <2>3 DEF ani_xbm_scroll_up, scroll_pt_over, scroll_pt_ends, scroll_up_ends,
                              xbm_croph, SplashInv
    <3>2. FrameAt(up_i, up_i + SplashRows, 0) = Raised(frames + 1)
      BY <1>1, <3>1, FrameIsRaised
    <3>3. Picture
      BY <1>1, <2>3, <3>1, <3>2, XbmPaints DEF ani_xbm_scroll_up
    <3> QED BY <1>1, <2>0, <2>1, <2>3, <3>1, <3>3 DEF ani_xbm_scroll_up, SplashInv
  <2>4. ASSUME scroll_up_over
        PROVE  /\ pt_i' = 0 /\ up_i' = 0 /\ frames = height + 1 + pb_i /\ pb_i <= SplashRows
    BY <1>1, <2>0, <2>4 DEF scroll_up_over, scroll_pt_over, scroll_pt_ends, scroll_up_ends,
                            xbm_croph, SplashInv
  <2>5. CASE scroll_pb_next
    <3>1. /\ pt_i' = 0 /\ up_i' = 0 /\ frames = height + 1 + pb_i /\ pb_i < SplashRows
      BY <1>1, <2>4, <2>5 DEF scroll_pb_next, scroll_pb_ends
    <3>2. scroll_pb_from \in Nat /\ scroll_pb_from = frames - SplashRows
      BY <1>1, <3>1 DEF scroll_pb_from
    <3>3. FrameAt(scroll_pb_from, height, 0) = Raised(frames + 1)
      BY <1>1, <3>1, <3>2, FrameIsRaised
    <3>4. Picture
      BY <1>1, <2>5, <3>2, <3>3, XbmPaints DEF scroll_pb_next
    <3> QED BY <1>1, <2>0, <2>1, <2>5, <3>1, <3>4 DEF scroll_pb_next, SplashInv
  <2>6. CASE splash_ends
    <3>1. /\ pt_i' = 0 /\ up_i' = 0 /\ frames = height + 1 + SplashRows
      BY <1>1, <2>4, <2>6 DEF splash_ends, scroll_pb_ends
    <3>2. SamePicture
      BY <2>6 DEF splash_ends
    <3> QED BY <1>1, <2>0, <2>1, <2>6, <3>1, <3>2 DEF splash_ends, SplashInv
  <2> QED BY <1>3, <2>2, <2>3, <2>5, <2>6 DEF splashNext, play_splash
<1> QED BY <1>2, <1>3

LEMMA SplashInvImplies == SplashInv => SplashSlides
<1> SUFFICES ASSUME SplashInv PROVE SplashSlides
  OBVIOUS
<1>1. SplashRows \in Nat /\ height \in Nat
  BY SplFacts DEF SplashInv
<1>2. pt_i <= SplashRows /\ pb_i <= SplashRows
  BY <1>1 DEF SplashInv
<1> QED BY <1>1, <1>2 DEF SplashInv, SplashSlides, SplashTypeOK

\* The splash screen slides through the display row by row and its parts join without a
\* jump, whatever the calls fail to paint (src/animation.c, src/xbm.c).
THEOREM SplashSlidesHolds == splashSpec => []SplashSlides
BY RestsSplash, SplashStepInv, SplashInvImplies, PTL DEF splashSpec

-----------------------------------------------------------------------------
(* The parts together: the one that plays keeps its invariant whatever fb it  *)
(* begins with, and the others rest and have nothing to do with fb.           *)
KeysHere == MergeInv /\ NothingForgotten
SnakeHere == IF part = "snake" THEN SnakeInv ELSE snakeRests
FlappyHere == IF part = "flappy" THEN FlappyInv ELSE flappyRests
PongHere == IF part = "pong" THEN PongInv ELSE pongRests
AniHere == IF part = "animation" THEN AniInv ELSE aniRests
SplashHere == IF part = "splash" THEN SplashInv ELSE splashRests
DisplayHere == IF part = "display" THEN DisplayInv ELSE displayRests

PanelInv ==
  part \in Parts /\ KeysHere /\ SnakeHere /\ FlappyHere /\ AniHere /\ SplashHere /\ DisplayHere

LEMMA PanelInit == Init => PanelInv /\ PongHere
<1> SUFFICES ASSUME Init PROVE PanelInv /\ PongHere
  OBVIOUS
<1>1. /\ part \in Parts /\ keysInit /\ snakeRests /\ flappyRests /\ pongRests
      /\ aniRests /\ splashRests /\ displayRests
  BY DEF Init
<1>2. KeysHere
  <2>1. NothingForgotten
    BY <1>1 DEF keysInit, NothingForgotten
  <2> QED BY <1>1, <2>1, MergeInit DEF KeysHere
<1>3. SnakeHere /\ FlappyHere /\ PongHere
  BY <1>1, AtRest, Grounds, PongRestsInv DEF SnakeHere, FlappyHere, PongHere
<1>4. AniHere
  <2>1. part = "animation" => aniInit
    BY <1>1 DEF Init, aniInit
  <2> QED BY <1>1, <2>1, RestsAni DEF AniHere
<1>5. SplashHere
  <2>1. part = "splash" => splashInit
    BY <1>1 DEF Init, splashInit
  <2> QED BY <1>1, <2>1, RestsSplash DEF SplashHere
<1>6. DisplayHere
  <2>1. part = "display" => fb \in Pictures
    BY DEF Init
  <2> QED BY <1>1, <2>1, RestsDisplay DEF DisplayHere
<1> QED BY <1>1, <1>2, <1>3, <1>4, <1>5, <1>6 DEF PanelInv

\* A step is one of the part that plays, and of no other.
LEMMA PanelSteps ==
  ASSUME [Next]_vars
  PROVE  /\ part' = part
         /\ [keysNext]_keysVars
         /\ IF part = "snake" THEN [snakeNext]_<<fb, snakeVars>> ELSE UNCHANGED snakeVars
         /\ IF part = "flappy" THEN [flappyNext]_<<fb, flappyVars>> ELSE UNCHANGED flappyVars
         /\ IF part = "pong" THEN [pongNext]_<<fb, pongVars>> ELSE UNCHANGED pongVars
         /\ IF part = "animation" THEN [aniNext]_<<fb, aniVars>> ELSE UNCHANGED aniVars
         /\ IF part = "splash" THEN [splashNext]_<<fb, splashVars>> ELSE UNCHANGED splashVars
         /\ IF part = "display" THEN [displayNext]_<<fb, displayVars>> ELSE UNCHANGED displayVars
<1>1. CASE UNCHANGED vars
  BY <1>1 DEF vars, screenVars
<1>2. CASE Next
  BY <1>2 DEF Next, screenVars, KeysStep, SnakeStep, FlappyStep, PongStep, AniStep, SplashStep,
              DisplayStep
<1> QED BY <1>1, <1>2

LEMMA RestsStay ==
  /\ snakeRests /\ UNCHANGED snakeVars => snakeRests'
  /\ flappyRests /\ UNCHANGED flappyVars => flappyRests'
  /\ pongRests /\ UNCHANGED pongVars => pongRests'
  /\ aniRests /\ UNCHANGED aniVars => aniRests'
  /\ splashRests /\ UNCHANGED splashVars => splashRests'
  /\ displayRests /\ UNCHANGED displayVars => displayRests'
<1>1. snakeRests /\ UNCHANGED snakeVars => snakeRests'
  BY DEF snakeRests, snakeVars, heading, pace
<1>2. flappyRests /\ UNCHANGED flappyVars => flappyRests'
  BY DEF flappyRests, flappyVars
<1>3. pongRests /\ UNCHANGED pongVars => pongRests'
  BY DEF pongRests, pongVars, ball, tempo, paddles
<1>4. aniRests /\ UNCHANGED aniVars => aniRests'
  BY DEF aniRests, aniVars, effects
<1>5. splashRests /\ UNCHANGED splashVars => splashRests'
  BY DEF splashRests, splashVars
<1>6. displayRests /\ UNCHANGED displayVars => displayRests'
  BY DEF displayRests, displayVars
<1> QED BY <1>1, <1>2, <1>3, <1>4, <1>5, <1>6

LEMMA PanelStepInv == PanelInv /\ [Next]_vars => PanelInv'
<1> SUFFICES ASSUME PanelInv, [Next]_vars PROVE PanelInv'
  OBVIOUS
<1>0. part' = part
  BY PanelSteps
<1>1. KeysHere'
  BY PanelSteps, MergeStep, ForgetStep DEF PanelInv, KeysHere, MergeInv, FilterInv
<1>2. SnakeHere'
  BY <1>0, PanelSteps, SnakeInvStep, RestsStay DEF PanelInv, SnakeHere
<1>3. FlappyHere'
  BY <1>0, PanelSteps, FlappyInvStep, RestsStay DEF PanelInv, FlappyHere
<1>4. AniHere'
  BY <1>0, PanelSteps, AniStepInv, RestsStay DEF PanelInv, AniHere
<1>5. SplashHere'
  BY <1>0, PanelSteps, SplashStepInv, RestsStay DEF PanelInv, SplashHere
<1>6. DisplayHere'
  BY <1>0, PanelSteps, DisplayStepInv, RestsStay DEF PanelInv, DisplayHere
<1> QED BY <1>0, <1>1, <1>2, <1>3, <1>4, <1>5, <1>6 DEF PanelInv

\* At rest a part has its properties too.
LEMMA RestsAreSafe ==
  /\ aniRests => AnimationEnds
  /\ splashRests => SplashSlides
  /\ displayRests => PinsSafe
<1>1. ASSUME aniRests PROVE AnimationEnds
  <2>1. /\ current \in DOMAIN Bitmaps /\ is_play_sequentially \in BOOLEAN /\ anim_step = 0
        /\ flash_step = 0 /\ marque_step = 0 /\ seen = {} /\ age = 0 /\ presses = 0
    BY <1>1 DEF aniRests
  <2>2. age < Period /\ Period \in Nat /\ Period <= (3 * AniCols + 6 * AniRows) * Frames
    BY <2>1, PeriodFacts
  <2>3. EndsInTime
    <3>1. PICK b \in Int : b = (3 * AniCols + 6 * AniRows) * Frames
      BY <2>1, AniSizes, BmFacts
    <3> QED BY <2>1, <2>2, <3>1 DEF EndsInTime
  <2>4. /\ anim_step \in Nat /\ flash_step \in 0..1 /\ marque_step \in 0..3
        /\ presses \in 0..MaxPresses /\ ~(age > 0)
    BY <2>1, AniAssumption
  <2> QED BY <2>1, <2>3, <2>4 DEF AnimationEnds, AniTypeOK
<1>2. ASSUME splashRests PROVE SplashSlides
  <2>1. /\ splash_over \in BOOLEAN /\ ~splash_over /\ pad_i = 0 /\ pt_i = 0 /\ up_i = 0 /\ pb_i = 0
        /\ frames = 0 /\ painted = 0 /\ splash_bm \in DOMAIN SplashPictures
    BY <1>2 DEF splashRests
  <2>2. SplashTypeOK
    <3>1. /\ pad_i \in 0..3 /\ pt_i \in 0..SplashRows /\ up_i \in Nat /\ pb_i \in 0..SplashRows
          /\ painted \in 0..frames
      BY <2>1, SplFacts
    <3> QED BY <2>1, <3>1 DEF SplashTypeOK
  <2>3. ~(painted > 0) /\ ~(frames > 0)
    BY <2>1
  <2> QED BY <2>1, <2>2, <2>3 DEF SplashSlides
<1>3. ASSUME displayRests PROVE PinsSafe
  <2>1. /\ i \in 0..ScanEnd - 1 /\ led_brightness \in 0..3 /\ on = {} /\ glow = Nothing
        /\ steady_fb \in BOOLEAN
    <3>1. 0 \in 0..ScanEnd - 1 /\ FALSE \in BOOLEAN
      BY DisplaySizes
    <3> QED BY <1>3, <3>1 DEF displayRests
  <2>2. DOMAIN glow = {}
    BY <2>1 DEF Nothing
  <2> QED BY <2>1, <2>2 DEF PinsSafe, DisplayTypeOK, OneHighPin
<1> QED BY <1>1, <1>2, <1>3

\* A bitmap and the splash screen move to their end on any face of the badge, beginning
\* with whatever picture the screen before left (src/animation.c, src/main.c).
THEOREM PicturesMoveHolds == Spec => []PicturesMove
<1>1. PanelInv => PicturesMove
  BY AniInvImplies, SplashInvImplies, RestsAreSafe DEF PanelInv, AniHere, SplashHere, PicturesMove
<1> QED BY <1>1, PanelInit, PanelStepInv, PTL DEF Spec

\* Every safety invariant of the parts, for the panel that composes them; the one of
\* Pong on displays that are wide enough.
THEOREM PanelSafeHolds ==
  ASSUME PongWide
  PROVE  Spec => [](KeysSafe /\ PressReportedOnce /\ SnakeSafe /\ FlappySafe /\ PongSafe
                      /\ PicturesMove /\ PinsSafe)
<1>1. PongHere /\ [Next]_vars => PongHere'
  <2> SUFFICES ASSUME PongHere, [Next]_vars PROVE PongHere'
    OBVIOUS
  <2>1. part' = part
    BY PanelSteps
  <2> QED BY <2>1, PanelSteps, PongInvStep, RestsStay DEF PongHere
<1>2. PanelInv /\ PongHere => KeysSafe /\ PressReportedOnce
  BY PressInvImplies DEF PanelInv, KeysHere, MergeInv, FilterInv, KeysInv, KeysSafe
<1>3. PanelInv /\ PongHere => SnakeSafe /\ FlappySafe /\ PongSafe
  BY AtRest, Grounds, PongRestsInv
     DEF PanelInv, SnakeHere, FlappyHere, PongHere, SnakeInv, FlappyInv, PongInv
<1>4. PanelInv => PicturesMove /\ PinsSafe
  BY AniInvImplies, SplashInvImplies, DisplayInvImplies, RestsAreSafe
     DEF PanelInv, AniHere, SplashHere, DisplayHere, PicturesMove
<1> QED BY <1>1, <1>2, <1>3, <1>4, PanelInit, PanelStepInv, PTL DEF Spec

FramesHere == SeenInTurn /\ (part = "animation" => LaserLast)

\* Whatever the screen before left, and whichever part plays, every frame of a bitmap is
\* painted whole and a laser takes away what it takes away (src/animation.c).
THEOREM PanelPaintsFrames == Spec => FramesPainted
<1>1. Init => FramesHere
  <2>1. Init => aniRests
    BY DEF Init
  <2> QED BY <2>1, FramesBegin DEF aniRests, FramesHere
<1>2. PanelInv /\ FramesHere /\ [Next]_vars => FramesHere'
  <2> SUFFICES ASSUME PanelInv, FramesHere, [Next]_vars PROVE FramesHere'
    OBVIOUS
  <2>1. part' = part
    BY PanelSteps
  <2>2. CASE part = "animation"
    <3>1. AniInv /\ [aniNext]_<<fb, aniVars>> /\ SeenInTurn /\ LaserLast
      BY <2>2, PanelSteps DEF PanelInv, AniHere, FramesHere
    <3> QED BY <3>1, SeenStep, LaserStep DEF FramesHere
  <2>3. CASE part # "animation"
    <3>1. aniRests'
      BY <2>1, <2>3, PanelSteps, RestsStay DEF PanelInv, AniHere
    <3>2. (current \in DOMAIN Bitmaps /\ age = 0 => SeenInTurn)'
      BY SeenBegins, PTL
    <3> QED BY <2>1, <2>3, <3>1, <3>2 DEF FramesHere, aniRests
  <2> QED BY <2>2, <2>3
<1>3. PanelInv /\ FramesHere /\ [Next]_vars =>
        /\ [age > 0 /\ age' = 0 /\ presses' = presses =>
              seen \cup NewlySeen(animations.f) = 0..Frames - 1]_<<fb, aniVars>>
        /\ [LaserLeaves /\ anim_step' = anim_step + 1 =>
              fb' \subseteq fb \/ fb = AniLeftover]_<<fb, aniVars>>
  <2> SUFFICES ASSUME PanelInv, FramesHere, [Next]_vars
               PROVE  /\ [age > 0 /\ age' = 0 /\ presses' = presses =>
                             seen \cup NewlySeen(animations.f) = 0..Frames - 1]_<<fb, aniVars>>
                      /\ [LaserLeaves /\ anim_step' = anim_step + 1 =>
                             fb' \subseteq fb \/ fb = AniLeftover]_<<fb, aniVars>>
    OBVIOUS
  <2>1. CASE part = "animation"
    <3>1. AniInv /\ [aniNext]_<<fb, aniVars>> /\ SeenInTurn /\ LaserLast
      BY <2>1, PanelSteps DEF PanelInv, AniHere, FramesHere
    <3> QED BY <3>1, FramesSeen, LaserGone
  <2>2. CASE part # "animation"
    <3>1. aniRests /\ UNCHANGED aniVars
      BY <2>2, PanelSteps DEF PanelInv, AniHere
    <3>2. age = 0 /\ anim_step = 0 /\ anim_step' = 0
      BY <3>1 DEF aniRests, aniVars
    <3> QED BY <3>2
  <2> QED BY <2>1, <2>2
<1> QED BY <1>1, <1>2, <1>3, PanelInit, PanelStepInv, PTL
        DEF Spec, FramesPainted, EveryFrameShown, GoneStaysGone

\* What a part may do in one step, for the panel: the filter of the keys, the calls that
\* presses share, and the scan of the LEDs.
THEOREM PanelStepsHold == Spec => Debounced /\ MergedOnlyLate /\ ScanShowsPicture
<1>1. PanelInv /\ PanelInv' /\ [Next]_vars =>
        [\A k \in Key :
           /\ flag'[k] # flag[k] => since[k] >= 5
           /\ steady'[Pin[k]] = Settling => flag'[k] = level'[Pin[k]]]_keysVars
  BY PanelSteps, FilterShows DEF PanelInv, KeysHere, MergeInv
<1>3. PanelInv /\ [Next]_vars =>
        [\A k \in Key :
           flag[k] = 1 /\ flag'[k] = 0 /\ EndsShort(k) /\ "short" \in owed[k]
             => waited[k] = PressSpan]_keysVars
  BY PanelSteps, MergeShows DEF PanelInv, KeysHere
<1>2. PanelInv /\ [Next]_vars =>
        [steady_fb /\ i # 0 /\ i' = 0 =>
          /\ Cardinality(DOMAIN glow) = Cardinality({p \in fb : p[2] < DisplayRows})
          /\ \A led \in DOMAIN glow : glow[led] = led_brightness + 1]_<<fb, displayVars>>
  <2> SUFFICES ASSUME PanelInv, [Next]_vars, ~UNCHANGED <<fb, displayVars>>,
                      steady_fb, i # 0, i' = 0
               PROVE  /\ Cardinality(DOMAIN glow) = Cardinality({p \in fb : p[2] < DisplayRows})
                      /\ \A led \in DOMAIN glow : glow[led] = led_brightness + 1
    OBVIOUS
  <2>1. part = "display"
    BY DEF PanelInv, DisplayHere, displayRests
  <2> QED BY <2>1, PanelSteps, ScanShown DEF PanelInv, DisplayHere
<1> QED BY <1>1, <1>2, <1>3, PanelInit, PanelStepInv, PTL
        DEF Spec, Debounced, MergedOnlyLate, ScanShowsPicture

=============================================================================
