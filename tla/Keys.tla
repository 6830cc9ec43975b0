-------------------------------- MODULE Keys -------------------------------
(***************************************************************************)
(* From the level of a pin to a call of a handler.  The interrupt of TMR3  *)
(* (src/button.c) filters the pins and tells a short press from a long     *)
(* one; btn_task calls what is bound.  KEY3 and KEY4 of a four key badge   *)
(* are voltages on an ADC channel that auxbtn_task polls (src/auxbtn.c).   *)
(* main() enables the interrupt first: while the badge is charging it polls *)
(* the presses itself, while it starts up nobody asks for them, and from   *)
(* btn_init_task on the interrupt sets an event for the task.              *)
(*                                                                         *)
(* button.c checks every key of enum keys, and isPressed reads the pin of  *)
(* KEY2 for all but the first: Pin says so.                                *)
(***************************************************************************)
EXTENDS Integers, Sequences

CONSTANTS
  KEY_INDEX,        \* keys that button.c checks
  Pin,              \* the pin of each
  LONGPRESS_THRES,  \* samples after which a press is long
  Hands,            \* what is pressed in a run: "pins", "adc" or nothing
  Raws              \* samples of the ADC

ASSUME KeysAssumption ==
  /\ KEY_INDEX \in Nat \ {0}
  /\ LONGPRESS_THRES \in Nat \ {0}
  /\ Hands \subseteq {"pins", "adc", "nothing"}
  /\ Raws \subseteq 0..4095

VARIABLES
  y, flag,                     \* of debounce
  hold, is_longpress,          \* of check
  onePending, longPending,     \* set by the interrupt, taken by btn_tick
  phase,                       \* of main(); button_task_id is known in "loop"
  event,                       \* BTN_PRESS is set
  at,                          \* where the main loop is in btn_tick
  last, count,                 \* of auxbtn_poll
  hands,
  level, steady, since,        \* the samples of each pin, how long they have been
                               \* the same, and how long flag has
  pressed,                     \* the key was pressed before
  told,                        \* how often its last press was reported
  owed,                        \* reports whose handler was not called yet
  waited,                      \* samples since the one for a short press
  unheard,                     \* one was found without an event, and since then there
                               \* was neither an event nor a poll
  auxSample, auxSteady, auxTold  \* the same for the ADC

timer == <<y, flag, hold, is_longpress>>
aux == <<last, count, auxSample, auxSteady, auxTold>>
history == <<level, steady, since, pressed, told>>
calls == <<event, at, owed, unheard>>
keysVars == <<phase, timer, onePending, longPending, calls, aux, hands, history, waited>>

DEBOUNCE_HIGH_THRES == 200
DEBOUNCE_LOW_THRES == 55
DEBOUNCE_THRES == 5
Settling == 6    \* samples after which the filter follows a steady level
PressSpan == 10  \* samples between the ends of two presses of a key, or more

Key == 1..KEY_INDEX
Pins == {Pin[k] : k \in Key}
Capped(n, most) == IF n < most THEN n ELSE most

Loop == [in : BOOLEAN, key : Key, after : {"one", "long"}]
Away == [in |-> FALSE, key |-> 1, after |-> "one"]

keysInit ==
  /\ y = [k \in Key |-> 0] /\ flag = [k \in Key |-> 0]
  /\ hold = [k \in Key |-> 0] /\ is_longpress = [k \in Key |-> 0]
  /\ onePending = [k \in Key |-> FALSE] /\ longPending = [k \in Key |-> FALSE]
  /\ phase = "charging" /\ event = FALSE /\ at = Away
  /\ last = "none" /\ count = 0
  /\ hands \in Hands
  /\ level = [p \in Pins |-> 0] /\ steady = [p \in Pins |-> Settling]
  /\ since = [k \in Key |-> Settling] /\ told = [k \in Key |-> 0]
  /\ pressed = [k \in Key |-> FALSE] /\ owed = [k \in Key |-> {}]
  /\ waited = [k \in Key |-> 0] /\ unheard = FALSE
  /\ auxSample = "none" /\ auxSteady = 0 /\ auxTold = 0

-----------------------------------------------------------------------------
(* The interrupt.                                                          *)

\* Fault: the filter loses too little of its old value.
Filtered_Slow(v, press) == v - (v \div 8) + (IF press = 1 THEN 63 ELSE 0)

\* The RC filter, with integer division as the shift.
Filtered(v, press) == v - (v \div 4) + (IF press = 1 THEN 63 ELSE 0)

\* Fault: one threshold for both ways.
Trigger_NoHysteresis(v, f) == IF v > DEBOUNCE_LOW_THRES THEN 1 ELSE 0

\* The Schmitt trigger.
Trigger(v, f) ==
  CASE f = 0 /\ v > DEBOUNCE_HIGH_THRES -> 1
    [] f = 1 /\ v < DEBOUNCE_LOW_THRES -> 0
    [] OTHER -> f

\* Fault: a long press is also a short one when it ends.
EndsShort_Always(k) == hold[k] > 0

EndsShort(k) == hold[k] > 0 /\ hold[k] < LONGPRESS_THRES

TurnsLong(k) == hold[k] + 1 >= LONGPRESS_THRES /\ is_longpress[k] = 0

(* One sample of the pins, at any level: a contact bounces.  hold is counted *)
(* to LONGPRESS_THRES, above which nothing tells its values apart.           *)
TMR3_IRQHandler(now) ==
  LET down(k) == flag'[k] = 1
      short(k) == ~down(k) /\ EndsShort(k)
      long(k) == down(k) /\ TurnsLong(k)
      found == \E k \in Key : short(k) \/ long(k)
  IN
  /\ hands = "pins"
  /\ y' = [k \in Key |-> Filtered(y[k], now[Pin[k]])]
  /\ flag' = [k \in Key |-> Trigger(y'[k], flag[k])]
  /\ hold' = [k \in Key |-> IF down(k) THEN Capped(hold[k] + 1, LONGPRESS_THRES) ELSE 0]
  /\ is_longpress' = [k \in Key |-> IF ~down(k) THEN 0 ELSE IF long(k) THEN 1 ELSE is_longpress[k]]
  /\ onePending' = [k \in Key |-> short(k) \/ onePending[k]]
  /\ longPending' = [k \in Key |-> long(k) \/ longPending[k]]
  /\ event' = (event \/ (found /\ phase = "loop"))
  /\ unheard' = IF found THEN phase # "loop" ELSE unheard
  /\ level' = now
  /\ steady' = [p \in Pins |-> IF now[p] = level[p] THEN Capped(steady[p] + 1, Settling) ELSE 1]
  /\ since' = [k \in Key |-> IF flag'[k] = flag[k] THEN Capped(since[k] + 1, Settling) ELSE 1]
  /\ told' = [k \in Key |-> Capped((IF flag'[k] > flag[k] THEN 0 ELSE told[k])
                                     + (IF short(k) \/ long(k) THEN 1 ELSE 0), 2)]
  /\ pressed' = [k \in Key |-> flag'[k] = 1 \/ pressed[k]]
  /\ owed' = [k \in Key |-> owed[k] \cup (IF short(k) THEN {"short"} ELSE {})
                                    \cup (IF long(k) THEN {"long"} ELSE {})]
  /\ waited' = [k \in Key |-> IF "short" \in owed[k] THEN Capped(waited[k] + 1, PressSpan) ELSE 1]
  /\ UNCHANGED <<phase, at, aux, hands>>

-----------------------------------------------------------------------------
(* btn_tick and who calls it.  A handler may run for many samples.         *)

Entered == at' = [in |-> TRUE, key |-> 1, after |-> "one"]

\* disp_charging polls, every half second, until the charger is gone.
disp_charging ==
  /\ phase = "charging" /\ ~at.in
  /\ \/ Entered /\ unheard' = FALSE /\ UNCHANGED phase
     \/ phase' = "starting" /\ UNCHANGED <<at, unheard>>
  /\ UNCHANGED <<event, timer, onePending, longPending, aux, hands, history, owed, waited>>

\* After the splash screen and ble_setup.
btn_init_task ==
  /\ phase = "starting"
  /\ phase' = "loop"
  /\ UNCHANGED <<calls, timer, onePending, longPending, aux, hands, history, waited>>

\* TMOS takes the event back before it calls the task.
btn_task ==
  /\ event /\ ~at.in
  /\ event' = FALSE
  /\ Entered
  /\ UNCHANGED <<phase, unheard, timer, onePending, longPending, aux, hands, history, owed, waited>>

\* btn_tick at the short press of a key: its handler runs until the next step.
TakeOne ==
  /\ at.in /\ at.after = "one"
  /\ onePending' = [onePending EXCEPT ![at.key] = FALSE]
  /\ owed' = IF onePending[at.key] THEN [owed EXCEPT ![at.key] = @ \ {"short"}] ELSE owed
  /\ at' = [at EXCEPT !.after = "long"]
  /\ UNCHANGED <<phase, unheard, timer, longPending, event, aux, hands, history, waited>>

\* Fault: the loop ends after the first key.
AfterLong_First == Away

AfterLong == IF at.key = KEY_INDEX THEN Away
             ELSE [in |-> TRUE, key |-> at.key + 1, after |-> "one"]

\* Fault: the flag of the short press is cleared when its handler has returned.
TakeLong_ClearsLate ==
  /\ at.in /\ at.after = "long"
  /\ longPending' = [longPending EXCEPT ![at.key] = FALSE]
  /\ onePending' = [onePending EXCEPT ![at.key] = FALSE]
  /\ owed' = IF longPending[at.key] THEN [owed EXCEPT ![at.key] = @ \ {"long"}] ELSE owed
  /\ at' = AfterLong
  /\ UNCHANGED <<phase, unheard, timer, event, aux, hands, history, waited>>

\* btn_tick at the long press of a key, and on to the next key.
TakeLong ==
  /\ at.in /\ at.after = "long"
  /\ longPending' = [longPending EXCEPT ![at.key] = FALSE]
  /\ owed' = IF longPending[at.key] THEN [owed EXCEPT ![at.key] = @ \ {"long"}] ELSE owed
  /\ at' = AfterLong
  /\ UNCHANGED <<phase, unheard, timer, onePending, event, aux, hands, history, waited>>

-----------------------------------------------------------------------------
(* auxbtn_task, which polls every 20 ms and calls the handler at once.     *)

KEY3_HIGH == 500
KEY4_LOW == 3300
KEY4_HIGH == 3600
NO_PRESS_LOW == 3601

classify(raw) ==
  CASE raw > NO_PRESS_LOW -> "none"
    [] raw < KEY3_HIGH -> "key3"
    [] raw > KEY4_LOW /\ raw < KEY4_HIGH -> "key4"
    [] OTHER -> "undefined"

\* Fault: the key is reported as long as it is held.
Reports_Held(curr) == curr \in {"key3", "key4"} /\ curr = last /\ count + 1 >= DEBOUNCE_THRES

\* The sample that makes auxbtn_poll set a pending flag.
Reports(curr) == curr \in {"key3", "key4"} /\ curr = last /\ count + 1 = DEBOUNCE_THRES

\* count is counted to one above DEBOUNCE_THRES.
auxbtn_poll(curr) ==
  CASE curr = "undefined" -> last' = last /\ count' = 0
    [] curr = "none" -> last' = "none" /\ count' = 0
    [] curr # "undefined" /\ curr # "none" /\ curr = last ->
         last' = last /\ count' = Capped(count + 1, DEBOUNCE_THRES + 1)
    [] OTHER -> last' = curr /\ count' = 1

auxbtn_task(raw) ==
  LET curr == classify(raw)
      same == curr = auxSample
  IN
  /\ hands = "adc"
  /\ auxbtn_poll(curr)
  /\ auxSample' = curr
  /\ auxSteady' = IF same THEN Capped(auxSteady + 1, DEBOUNCE_THRES + 1) ELSE 1
  /\ auxTold' = Capped((IF same THEN auxTold ELSE 0) + (IF Reports(curr) THEN 1 ELSE 0), 2)
  /\ UNCHANGED <<phase, calls, timer, onePending, longPending, hands, history, waited>>

-----------------------------------------------------------------------------
keysNext ==
  \/ \E now \in [Pins -> {0, 1}] : TMR3_IRQHandler(now)
  \/ disp_charging \/ btn_init_task
  \/ btn_task \/ TakeOne \/ TakeLong
  \/ \E raw \in Raws : auxbtn_task(raw)

\* TMOS runs the task whose event is set, and handlers return.
keysFairness == WF_keysVars(btn_task) /\ WF_keysVars(TakeOne) /\ WF_keysVars(TakeLong)

keysSpec == keysInit /\ [][keysNext]_keysVars /\ keysFairness

-----------------------------------------------------------------------------
(* Properties.                                                             *)

KeysTypeOK ==
  /\ y \in [Key -> 0..255] /\ flag \in [Key -> {0, 1}]
  /\ hold \in [Key -> 0..LONGPRESS_THRES] /\ is_longpress \in [Key -> {0, 1}]
  /\ onePending \in [Key -> BOOLEAN] /\ longPending \in [Key -> BOOLEAN]
  /\ phase \in {"charging", "starting", "loop"}
  /\ event \in BOOLEAN /\ at \in Loop /\ unheard \in BOOLEAN
  /\ last \in {"none", "key3", "key4"} /\ count \in 0..(DEBOUNCE_THRES + 1)
  /\ hands \in Hands
  /\ owed \in [Key -> SUBSET {"short", "long"}] /\ waited \in [Key -> 0..PressSpan]

(* A press that the interrupt found is waiting for btn_tick, and btn_tick is  *)
(* going to come to it: the event is set, or the loop has the key before it.  *)
(* Presses come at any moment, also while a handler runs.  One that was found *)
(* before btn_init_task (button.c:112 and 119) is at least still pending: it  *)
(* waits for the next poll, or for the next press of any key.                 *)
Ahead(k, kind) ==
  \/ event
  \/ /\ at.in
     /\ \/ at.key < k
        \/ at.key = k /\ (kind = "long" \/ at.after = "one")

NothingForgotten ==
  \A k \in Key :
    /\ "short" \in owed[k] => onePending[k] /\ (unheard \/ Ahead(k, "short"))
    /\ "long" \in owed[k] => longPending[k] /\ (unheard \/ Ahead(k, "long"))

(* What the interrupt and the main loop share is never out of step.           *)
KeysSafe == KeysTypeOK /\ NothingForgotten

(* A press that was found is answered by a call of its handler, unless no     *)
(* event or poll was there for it before btn_init_task.  Presses of one key   *)
(* and kind that are found while one of them waits share its call.            *)
EveryPressServed ==
  \A k \in Key, kind \in {"short", "long"} :
    kind \in owed[k] /\ ~unheard ~> kind \notin owed[k]

(* When that may happen: a short press shares the call of an earlier one only *)
(* if that has waited for ten samples, 200 ms.  However contacts bounce, no   *)
(* press is lost to a main loop that comes round faster (button.c:83-125).    *)
MergedOnlyLate ==
  [][\A k \in Key :
       flag[k] = 1 /\ flag'[k] = 0 /\ EndsShort(k) /\ "short" \in owed[k]
         => waited[k] = PressSpan]_keysVars

(* One press is reported once, as short or as long: a key that was released   *)
(* has been reported once, one that is held at most once, and one held long   *)
(* enough exactly once.                                                       *)
ReportedOnce ==
  \A k \in Key :
    /\ told[k] <= 1
    /\ flag[k] = 0 /\ pressed[k] => told[k] = 1
    /\ flag[k] = 1 => (told[k] = 1) = (hold[k] = LONGPRESS_THRES)

(* The filter: a bouncing contact does not turn a key on and off within five  *)
(* samples, and a level that lasts six of them is followed.                   *)
Debounced ==
  [][\A k \in Key :
       /\ flag'[k] # flag[k] => since[k] >= 5
       /\ steady'[Pin[k]] = Settling => flag'[k] = level'[Pin[k]]]_keysVars

(* A voltage that stays in the range of a key is reported at its fifth sample *)
(* and not again while it stays there, whatever was sampled before.           *)
HeldReportedOnce ==
  auxSample \in {"key3", "key4"} =>
    auxTold = IF auxSteady >= DEBOUNCE_THRES THEN 1 ELSE 0

(* One press, one call of a handler, for keys on pins and keys on the ADC.    *)
PressReportedOnce == ReportedOnce /\ HeldReportedOnce

=============================================================================
