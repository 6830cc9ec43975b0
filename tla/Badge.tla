------------------------------- MODULE Badge --------------------------------
(***************************************************************************)
(* The badge's screens (src/main.c and the games): which handler each key  *)
(* runs, which TMOS timers run, and what the frame buffer shows.  Screens  *)
(* are left by keys, by finished uploads, by commands and lost links of    *)
(* the BLE host and by the end of a game, and each of these stops some     *)
(* timers and binds some keys; `mode` is written and never read.           *)
(*                                                                         *)
(* The library is modelled from its header: tmos_stop_task cancels a       *)
(* timer, and an event that was already set is still delivered.            *)
(*                                                                         *)
(* The handlers run one after the other in the main loop, and one of them  *)
(* is an action.  The end of an upload over USB is not: the interrupt runs *)
(* handle_after_rx between any two statements of a handler.  Where that is *)
(* not the same as before or after the handler, because the handler goes   *)
(* on to start a timer, it is a disjunct of the action (AfterRx).          *)
(***************************************************************************)
EXTENDS Naturals, FiniteSets, Sequences

CONSTANTS
  HW_KEY_COUNTS,      \* the builds: 2 keys, or 4 with KEY3 and KEY4 on the ADC
  KeysWhileCharging,  \* keys are pressed while the badge starts on the charger
  MaxPending          \* bound on the events set and not yet handled

ASSUME BuildsAssumption == HW_KEY_COUNTS \subseteq {2, 4} /\ HW_KEY_COUNTS # {}
ASSUME BoundsAssumption == KeysWhileCharging \in BOOLEAN /\ MaxPending \in Nat

VARIABLES
  hw_key_count,                 \* HW_KEY_COUNT of the build
  running,                      \* main() has reached its loop
  onePress, longPress,          \* the handlers of the keys
  timers,                       \* events with a running timer
  pending,                      \* events set, their handler still to run
  display,                      \* what fb shows
  menu_cursor, clock_submenu_sel, games_submenu_sel,
  clock_active, sw_state,
  streaming_enabled, ota_display_active,
  ble                           \* the link: off, advertised or connected

keys == <<onePress, longPress>>
tmos == <<timers, pending>>
submenus == <<clock_submenu_sel, games_submenu_sel>>
menus == <<menu_cursor, submenus>>
clocks == <<clock_active, sw_state>>
host == <<streaming_enabled, ota_display_active>>
vars == <<hw_key_count, running, keys, tmos, display, menus, clocks, host, ble>>

-----------------------------------------------------------------------------
\* ANI_MARQUE stands for ANI_FLASH too: they start and stop together; PADDLE for
\* EVT_PADDLE_UP and EVT_PADDLE_DOWN, whichever of them run.
CommonEvents == <<"ANI_NEXT_STEP", "ANI_MARQUE", "BLE_NEXT_STEP", "CLOCK_TICK",
                  "STOPWATCH_TICK", "BLE_OFF_DONE">>
PongEvents == <<"BALL_TICK", "PADDLE">>
Reloading == {"ANI_MARQUE", "BLE_NEXT_STEP", "CLOCK_TICK", "STOPWATCH_TICK"}
GameTicks == {"SNAKE_TICK", "FLAPPY_TICK", "BALL_TICK"}
InSeq(s) == {s[i] : i \in DOMAIN s}
Events == InSeq(CommonEvents) \cup InSeq(PongEvents) \cup GameTicks

Animations == {"ANI_NEXT_STEP", "ANI_MARQUE", "BLE_NEXT_STEP"}
Clocks == {"CLOCK_TICK", "STOPWATCH_TICK"}

Keys == {"KEY1", "KEY2"} \cup IF hw_key_count = 4 THEN {"KEY3", "KEY4"} ELSE {}
Handlers == {"NULL", "menu_up", "menu_down", "menu_select", "bm_transition",
             "return_to_menu", "bt_pairing_bypass", "clock_submenu_nav",
             "clock_submenu_select", "enter_clock_submenu", "sw_startstop",
             "sw_reset", "sw_back", "games_submenu_nav", "games_submenu_select",
             "on_turn", "on_flap", "on_key1_press", "on_key2_press",
             "on_key1_long", "on_key2_long"}
Displays == {"charging", "menu", "clock_submenu", "games_submenu", "clock", "stopwatch",
             "auth_code", "picture", "game", "ble_off", "update"}

Bind(f, g) == [k \in DOMAIN f |-> IF k \in DOMAIN g THEN g[k] ELSE f[k]]
OnOnePress(g) == onePress' = Bind(onePress, g)
OnLongPress(g) == longPress' = Bind(longPress, g)

\* The keys of a list: both short presses move, and select and back are KEY3
\* and KEY4 of four keys, or the long presses of two.
BindList(up, down, select, back) ==
  IF hw_key_count = 4
  THEN OnOnePress([KEY1 |-> up, KEY2 |-> down, KEY3 |-> select, KEY4 |-> back])
  ELSE OnOnePress([KEY1 |-> up, KEY2 |-> down])

Stop(events) == timers' = timers \ events
StopStart(stop, start) == timers' = (timers \ stop) \cup start

\* What handle_after_rx leaves without a reset, and what the handler that it interrupts
\* starts after it.
AfterRx(started) ==
  /\ StopStart(Animations \cup Clocks, {"BLE_OFF_DONE"} \cup started)
  /\ clock_active' = FALSE /\ sw_state' = "SW_STOPPED"
  /\ display' = "ble_off"

\* The keys as they are bound before the badge waits on the charger.
MenuPress == [k \in Keys |-> CASE k = "KEY1" -> "menu_up"
                               [] k = "KEY2" -> "menu_down"
                               [] k = "KEY3" -> "menu_select"
                               [] k = "KEY4" -> "return_to_menu"]
MenuLong == [KEY1 |-> "menu_select", KEY2 |-> "NULL"]

Boot ==
  /\ running' = FALSE
  /\ onePress' = MenuPress /\ longPress' = MenuLong
  /\ timers' = {} /\ pending' = {}
  /\ display' = "charging"
  /\ menu_cursor' = 0 /\ clock_submenu_sel' = 0 /\ games_submenu_sel' = 0
  /\ clock_active' = FALSE /\ sw_state' = "SW_STOPPED"
  /\ streaming_enabled' = FALSE /\ ota_display_active' = FALSE
  /\ ble' = "off"
  /\ UNCHANGED hw_key_count

Init ==
  /\ hw_key_count \in HW_KEY_COUNTS
  /\ running = FALSE
  /\ onePress = MenuPress /\ longPress = MenuLong
  /\ timers = {} /\ pending = {}
  /\ display = "charging"
  /\ menu_cursor = 0 /\ clock_submenu_sel = 0 /\ games_submenu_sel = 0
  /\ clock_active = FALSE /\ sw_state = "SW_STOPPED"
  /\ streaming_enabled = FALSE /\ ota_display_active = FALSE
  /\ ble = "off"

\* The charger is unplugged and main() goes on: ble_setup initialises TMOS, and
\* the animations that spawn_tasks starts are stopped again.
main ==
  /\ ~running /\ running' = TRUE
  /\ ble' \in {"off", "advertised"}      \* ble_always_on
  /\ timers' = {} /\ pending' = {}
  /\ display' = "menu"
  /\ UNCHANGED <<hw_key_count, keys, menus, clocks, host>>

\* A reset, from the host, the bootloader keys, an upload or power.
Reset == running /\ Boot

-----------------------------------------------------------------------------
(* The menu.  The selections of the submenus keep no meaning there: each    *)
(* submenu sets its own to 0 when it is entered.                            *)
return_to_menu(stopped) ==
  /\ Stop(Animations \cup Clocks \cup stopped)
  /\ clock_active' = FALSE /\ sw_state' = "SW_STOPPED"
  /\ BindList("menu_up", "menu_down", "menu_select", "return_to_menu")
  /\ IF hw_key_count = 4
     THEN OnLongPress([KEY1 |-> "NULL", KEY2 |-> "NULL"])
     ELSE OnLongPress([KEY1 |-> "menu_select", KEY2 |-> "NULL"])
  /\ display' = "menu"
  /\ clock_submenu_sel' = 0 /\ games_submenu_sel' = 0

MenuMove(to) ==
  /\ menu_cursor' = to /\ display' = "menu"
  /\ UNCHANGED <<keys, tmos, clock_submenu_sel, games_submenu_sel, clocks, host, ble>>

\* Fault: the cursor does not wrap at the top.
menu_up_NoWrap == MenuMove(menu_cursor - 1)

menu_up == MenuMove((menu_cursor + 4) % 5)
menu_down == MenuMove((menu_cursor + 1) % 5)

start_ble_animation ==
  \/ /\ StopStart({"ANI_NEXT_STEP", "ANI_MARQUE"}, {"BLE_NEXT_STEP"})
     /\ display' = "picture" /\ UNCHANGED clocks
  \/ AfterRx({"BLE_NEXT_STEP"})

\* Fault: the Bluetooth animation is not stopped.
start_normal_animation_KeepsBle ==
  StopStart({}, {"ANI_NEXT_STEP", "ANI_MARQUE"}) /\ UNCHANGED <<display, clocks>>

start_normal_animation ==
  \/ /\ StopStart({"BLE_NEXT_STEP"}, {"ANI_NEXT_STEP", "ANI_MARQUE"})
     /\ UNCHANGED <<display, clocks>>
  \/ AfterRx({"ANI_NEXT_STEP"})

\* While connected the setting does not matter: a lost link turns it on.
Advertise(setting) == ble' = IF ble = "connected" THEN ble ELSE setting

SelectAnimation ==
  /\ menu_cursor = 0
  /\ OnOnePress([KEY1 |-> "NULL", KEY2 |-> "bm_transition"])
  /\ OnLongPress([KEY1 |-> "NULL", KEY2 |-> "return_to_menu"])
  /\ start_normal_animation
  /\ UNCHANGED <<pending, menus, host, ble>>

\* What KEY4, or the long press of KEY1, does while pairing.
PairingKeys(back) ==
  /\ OnOnePress([KEY2 |-> "NULL", KEY4 |-> back])
  /\ OnLongPress([KEY1 |-> IF hw_key_count = 4 THEN "NULL" ELSE back,
                  KEY2 |-> "return_to_menu"])

SelectBle ==
  /\ menu_cursor = 1
  /\ Advertise("advertised")
  /\ \/ /\ PairingKeys("bt_pairing_bypass")
        /\ display' = "auth_code" /\ UNCHANGED <<timers, clocks>>
     \/ PairingKeys("return_to_menu") /\ start_ble_animation
  /\ UNCHANGED <<pending, menus, host>>

bt_pairing_bypass ==
  /\ IF hw_key_count = 4
     THEN OnOnePress([KEY4 |-> "return_to_menu"]) /\ UNCHANGED longPress
     ELSE OnLongPress([KEY1 |-> "return_to_menu"]) /\ UNCHANGED onePress
  /\ start_ble_animation
  /\ UNCHANGED <<pending, menus, host, ble>>

-----------------------------------------------------------------------------
(* The clock.                                                               *)
enter_clock_submenu(stopped) ==
  /\ clock_active' = FALSE
  /\ Stop(Animations \cup {"CLOCK_TICK"} \cup stopped)
  /\ clock_submenu_sel' = 0
  /\ BindList("clock_submenu_nav", "clock_submenu_nav", "clock_submenu_select",
              "return_to_menu")
  /\ IF hw_key_count = 4
     THEN OnLongPress([KEY1 |-> "NULL", KEY2 |-> "NULL"])
     ELSE OnLongPress([KEY1 |-> "clock_submenu_select", KEY2 |-> "return_to_menu"])
  /\ display' = "clock_submenu"
  /\ UNCHANGED <<pending, menu_cursor, games_submenu_sel, host, ble>>

clock_submenu_nav ==
  /\ clock_submenu_sel' = 1 - clock_submenu_sel /\ display' = "clock_submenu"
  /\ UNCHANGED <<keys, tmos, menu_cursor, games_submenu_sel, clocks, host, ble>>

SelectTime ==
  /\ clock_submenu_sel = 0
  /\ \/ clock_active' = TRUE /\ StopStart({}, {"CLOCK_TICK"}) /\ UNCHANGED <<display, sw_state>>
     \/ AfterRx({"CLOCK_TICK"})
  /\ OnOnePress([KEY1 |-> "NULL", KEY2 |-> "NULL"])
  /\ OnLongPress([KEY1 |-> "NULL", KEY2 |-> "enter_clock_submenu"])
  /\ UNCHANGED <<pending, menus, host, ble>>

\* Fault: the long press of KEY2 is unbound like that of KEY1.
SelectStopwatch_NoBack ==
  /\ clock_submenu_sel = 1
  /\ sw_state' = "SW_STOPPED"
  /\ OnOnePress([KEY1 |-> "sw_startstop", KEY2 |-> "sw_reset"])
  /\ OnLongPress([KEY1 |-> "NULL", KEY2 |-> "NULL"])
  /\ display' = "stopwatch"
  /\ UNCHANGED <<tmos, menus, clock_active, host, ble>>

SelectStopwatch ==
  /\ clock_submenu_sel = 1
  /\ sw_state' = "SW_STOPPED"
  /\ OnOnePress([KEY1 |-> "sw_startstop", KEY2 |-> "sw_reset"])
  /\ OnLongPress([KEY1 |-> "NULL", KEY2 |-> "sw_back"])
  /\ display' = "stopwatch"
  /\ UNCHANGED <<tmos, menus, clock_active, host, ble>>

sw_startstop ==
  /\ \/ /\ IF sw_state = "SW_STOPPED"
           THEN sw_state' = "SW_RUNNING" /\ StopStart({}, {"STOPWATCH_TICK"})
           ELSE sw_state' = "SW_STOPPED" /\ Stop({"STOPWATCH_TICK"})
        /\ UNCHANGED <<display, clock_active>>
     \/ sw_state = "SW_STOPPED" /\ AfterRx({"STOPWATCH_TICK"})
  /\ UNCHANGED <<keys, pending, menus, host, ble>>

sw_reset == display' = "stopwatch" /\ UNCHANGED <<keys, tmos, menus, clocks, host, ble>>

\* Fault: the stopwatch is left with its timer running.
sw_back_KeepsTick == sw_state' = "SW_STOPPED" /\ enter_clock_submenu({})

sw_back == sw_state' = "SW_STOPPED" /\ enter_clock_submenu({"STOPWATCH_TICK"})

-----------------------------------------------------------------------------
\* Fault: the long presses are not bound, as with four keys.
enter_games_submenu_KeepsLong ==
  /\ games_submenu_sel' = 0
  /\ Stop(Animations)
  /\ BindList("games_submenu_nav", "games_submenu_nav", "games_submenu_select",
              "return_to_menu")
  /\ display' = "games_submenu"
  /\ UNCHANGED <<longPress, pending, menu_cursor, clock_submenu_sel, clocks, host, ble>>

(* The games.                                                               *)
enter_games_submenu ==
  /\ games_submenu_sel' = 0
  /\ Stop(Animations)
  /\ BindList("games_submenu_nav", "games_submenu_nav", "games_submenu_select",
              "return_to_menu")
  /\ IF hw_key_count = 4
     THEN UNCHANGED longPress
     ELSE OnLongPress([KEY1 |-> "games_submenu_select", KEY2 |-> "return_to_menu"])
  /\ display' = "games_submenu"
  /\ UNCHANGED <<pending, menu_cursor, clock_submenu_sel, clocks, host, ble>>

games_submenu_nav ==
  /\ games_submenu_sel' = (games_submenu_sel + 1) % 3 /\ display' = "games_submenu"
  /\ UNCHANGED <<keys, tmos, menu_cursor, clock_submenu_sel, clocks, host, ble>>

StartGame(tick) ==
  /\ StopStart(Animations, {tick})
  /\ display' = "game"
  /\ UNCHANGED <<pending, menus, clocks, host, ble>>

game_start ==
  /\ games_submenu_sel = 0
  /\ IF hw_key_count = 4
     THEN OnOnePress([KEY1 |-> "NULL", KEY2 |-> "NULL", KEY3 |-> "on_turn",
                      KEY4 |-> "on_turn"])
     ELSE OnOnePress([KEY1 |-> "on_turn", KEY2 |-> "on_turn"])
  /\ UNCHANGED longPress
  /\ StartGame("SNAKE_TICK")

flappy_start ==
  /\ games_submenu_sel = 1
  /\ IF hw_key_count = 4
     THEN OnOnePress([KEY1 |-> "NULL", KEY2 |-> "NULL", KEY3 |-> "on_flap",
                      KEY4 |-> "NULL"])
     ELSE OnOnePress([KEY1 |-> "on_flap", KEY2 |-> "on_flap"])
  /\ OnLongPress([KEY1 |-> "NULL", KEY2 |-> "NULL"])
  /\ StartGame("FLAPPY_TICK")

pong_start ==
  /\ games_submenu_sel = 2
  /\ OnOnePress([KEY1 |-> "on_key1_press", KEY2 |-> "on_key2_press", KEY3 |-> "NULL",
                 KEY4 |-> "NULL"])
  /\ OnLongPress([KEY1 |-> "on_key1_long", KEY2 |-> "on_key2_long"])
  /\ StartGame("BALL_TICK")

\* A press moves the paddle and ends a run the other way, a long press starts one.
PaddlePress ==
  /\ UNCHANGED timers \/ Stop({"PADDLE"})
  /\ display' = "game"
  /\ UNCHANGED <<keys, pending, menus, clocks, host, ble>>

PaddleRun ==
  /\ StopStart({}, {"PADDLE"})
  /\ UNCHANGED <<keys, pending, display, menus, clocks, host, ble>>

-----------------------------------------------------------------------------
(* Keys: btn_tick and auxbtn_tick call whatever is bound when they run.  A  *)
(* turn and a flap only steer the game.                                     *)
ToMenu == return_to_menu({}) /\ UNCHANGED <<pending, menu_cursor, host, ble>>

menu_select ==
  \/ SelectAnimation
  \/ SelectBle
  \/ menu_cursor = 2 /\ enter_clock_submenu({}) /\ UNCHANGED sw_state
  \/ menu_cursor = 3 /\ enter_games_submenu

Run(h) ==
  \/ h = "menu_up" /\ menu_up
  \/ h = "menu_down" /\ menu_down
  \/ h = "menu_select" /\ menu_select
  \/ h = "return_to_menu" /\ ToMenu
  \/ h = "bt_pairing_bypass" /\ bt_pairing_bypass
  \/ h = "clock_submenu_nav" /\ clock_submenu_nav
  \/ h = "clock_submenu_select" /\ (SelectTime \/ SelectStopwatch)
  \/ h = "enter_clock_submenu" /\ enter_clock_submenu({}) /\ UNCHANGED sw_state
  \/ h = "sw_startstop" /\ sw_startstop
  \/ h = "sw_reset" /\ sw_reset
  \/ h = "sw_back" /\ sw_back
  \/ h = "games_submenu_nav" /\ games_submenu_nav
  \/ h = "games_submenu_select" /\ (game_start \/ flappy_start \/ pong_start)
  \/ h \in {"on_key1_press", "on_key2_press"} /\ PaddlePress
  \/ h \in {"on_key1_long", "on_key2_long"} /\ PaddleRun

\* poweroff() wakes up as a reset does.
Press(h) ==
  /\ running \/ KeysWhileCharging
  /\ \/ Run(h) /\ UNCHANGED <<hw_key_count, running>>
     \/ h = "menu_select" /\ menu_cursor = 4 /\ Boot

btn_tick == \E k \in {"KEY1", "KEY2"} : Press(onePress[k]) \/ Press(longPress[k])
auxbtn_tick == running /\ \E k \in Keys \ {"KEY1", "KEY2"} : Press(onePress[k])

-----------------------------------------------------------------------------
(* The host: commands come over a BLE link, uploads over USB as well.       *)
HostStep == running /\ UNCHANGED <<hw_key_count, running>>

link_onEstablished ==
  /\ HostStep
  /\ ble = "advertised" /\ ble' = "connected"
  /\ UNCHANGED <<keys, tmos, display, menus, clocks, host>>

\* A cancelled update goes back to the menu; nothing happens without an update.
disp_ota_cancel ==
  /\ ota_display_active' = FALSE
  /\ IF ota_display_active
     THEN return_to_menu({})
     ELSE UNCHANGED <<keys, timers, clocks, display, submenus>>

\* Fault: an update is not cancelled when the link is lost.
link_onTerminated_KeepsUpdate ==
  /\ HostStep
  /\ ble = "connected" /\ ble' = "advertised"
  /\ UNCHANGED <<keys, tmos, display, menus, clocks, host>>

link_onTerminated ==
  /\ HostStep
  /\ ble = "connected" /\ ble' = "advertised"
  /\ disp_ota_cancel
  /\ UNCHANGED <<pending, menu_cursor, streaming_enabled>>

disp_ota_progress ==
  /\ HostStep /\ ble = "connected"
  /\ IF ota_display_active THEN UNCHANGED timers ELSE Stop(Animations)
  /\ ota_display_active' = TRUE
  /\ display' = "update"
  /\ UNCHANGED <<keys, pending, menus, clocks, streaming_enabled, ble>>

OtaFails ==
  /\ HostStep /\ ble = "connected"
  /\ disp_ota_cancel
  /\ UNCHANGED <<pending, menu_cursor, streaming_enabled, ble>>

StartStreaming ==
  /\ HostStep /\ ble = "connected"
  /\ Stop(Animations)
  /\ display' = "picture"
  /\ streaming_enabled' = TRUE
  /\ UNCHANGED <<keys, pending, menus, clocks, ota_display_active, ble>>

resume_from_streaming ==
  /\ HostStep /\ ble = "connected"
  /\ start_normal_animation \/ start_ble_animation
  /\ streaming_enabled' = FALSE
  /\ UNCHANGED <<keys, pending, menus, ota_display_active, ble>>

stream_bitmap ==
  /\ HostStep /\ ble = "connected"
  /\ streaming_enabled
  /\ display' = "picture"
  /\ UNCHANGED <<keys, tmos, menus, clocks, host, ble>>

\* An upload was saved and does not reset the badge.  It came over BLE, or the interrupt
\* of an upload over USB falls between two handlers, or into one that starts no timer after it.
handle_after_rx == HostStep /\ AfterRx({}) /\ UNCHANGED <<keys, pending, menus, host, ble>>

-----------------------------------------------------------------------------
(* Timers and the tasks that handle their events.                           *)
TimerExpires(e) ==
  /\ HostStep
  /\ e \in timers \ pending
  /\ Cardinality(pending) < MaxPending
  /\ pending' = pending \cup {e}
  /\ IF e \in Reloading THEN UNCHANGED timers ELSE Stop({e})
  /\ UNCHANGED <<keys, display, menus, clocks, host, ble>>

\* A task handles one event at a time, in the order its code asks for them.
Handles(tasks, e) ==
  /\ HostStep
  /\ e \in pending
  /\ \E i \in DOMAIN tasks : tasks[i] = e /\ \A j \in 1..(i-1) : tasks[j] \notin pending
  /\ pending' = pending \ {e}

Paints(shown) == display' \in shown /\ UNCHANGED <<keys, menus, clocks, host, ble>>

ANI_NEXT_STEP ==
  /\ Handles(CommonEvents, "ANI_NEXT_STEP")
  /\ \/ StopStart({}, {"ANI_NEXT_STEP"}) /\ Paints({"picture"})
     \/ AfterRx({"ANI_NEXT_STEP"}) /\ UNCHANGED <<keys, menus, host, ble>>

\* A marquee or a flash is drawn only for a bitmap that has it.
ANI_MARQUE ==
  Handles(CommonEvents, "ANI_MARQUE") /\ UNCHANGED timers /\ Paints({display, "picture"})
BLE_NEXT_STEP ==
  Handles(CommonEvents, "BLE_NEXT_STEP") /\ UNCHANGED timers /\ Paints({"picture"})
CLOCK_TICK ==
  Handles(CommonEvents, "CLOCK_TICK") /\ UNCHANGED timers /\ Paints({"clock"})
STOPWATCH_TICK ==
  Handles(CommonEvents, "STOPWATCH_TICK") /\ UNCHANGED timers /\ Paints({"stopwatch"})

BLE_OFF_DONE ==
  /\ Handles(CommonEvents, "BLE_OFF_DONE")
  /\ Advertise("off")
  /\ return_to_menu({})
  /\ UNCHANGED <<menu_cursor, host>>

\* The game goes on, or is over.
Playing(tick) == StopStart({}, {tick}) /\ Paints({"game"})
\* Fault: the timers stop and the menu does not come back.
GameOver_NoMenu(ticks) == Stop(ticks) /\ UNCHANGED <<keys, display, menus, clocks, host, ble>>

GameOver(ticks) == return_to_menu(ticks) /\ UNCHANGED <<menu_cursor, host, ble>>

game_task ==
  Handles(<<"SNAKE_TICK">>, "SNAKE_TICK") /\ (Playing("SNAKE_TICK") \/ GameOver({"SNAKE_TICK"}))
flappy_task ==
  Handles(<<"FLAPPY_TICK">>, "FLAPPY_TICK") /\ (Playing("FLAPPY_TICK") \/ GameOver({"FLAPPY_TICK"}))
ball_tick ==
  /\ Handles(PongEvents, "BALL_TICK")
  /\ Playing("BALL_TICK") \/ GameOver(InSeq(PongEvents))

\* The paddle goes on while its key is held.
PaddleTick ==
  /\ Handles(PongEvents, "PADDLE")
  /\ UNCHANGED timers \/ StopStart({}, {"PADDLE"})
  /\ Paints({"game"})

common_tasks ==
  \/ ANI_NEXT_STEP \/ ANI_MARQUE \/ BLE_NEXT_STEP
  \/ CLOCK_TICK \/ STOPWATCH_TICK \/ BLE_OFF_DONE
pong_task == ball_tick \/ PaddleTick

-----------------------------------------------------------------------------
Next ==
  \/ main \/ Reset
  \/ btn_tick \/ auxbtn_tick
  \/ link_onEstablished \/ link_onTerminated
  \/ disp_ota_progress \/ OtaFails
  \/ StartStreaming \/ resume_from_streaming \/ stream_bitmap
  \/ handle_after_rx
  \/ \E e \in Events : TimerExpires(e)
  \/ common_tasks \/ game_task \/ flappy_task \/ pong_task

Spec == Init /\ [][Next]_vars

-----------------------------------------------------------------------------
\* Type correctness.
TypeOK ==
  /\ hw_key_count \in HW_KEY_COUNTS
  /\ running \in BOOLEAN
  /\ onePress \in [Keys -> Handlers]
  /\ longPress \in [{"KEY1", "KEY2"} -> Handlers]
  /\ timers \subseteq Events /\ pending \subseteq Events
  /\ display \in Displays
  /\ menu_cursor \in 0..4 /\ clock_submenu_sel \in 0..1 /\ games_submenu_sel \in 0..2
  /\ clock_active \in BOOLEAN /\ sw_state \in {"SW_STOPPED", "SW_RUNNING"}
  /\ streaming_enabled \in BOOLEAN /\ ota_display_active \in BOOLEAN
  /\ ble \in {"off", "advertised", "connected"}

Expected == timers \cup pending
Bound == {longPress["KEY1"], longPress["KEY2"]} \cup {onePress[k] : k \in Keys}
Select == IF hw_key_count = 4 THEN onePress["KEY3"] ELSE longPress["KEY1"]

\* A list that stays on the display is the one the select key selects from: no way
\* out of a screen forgets to bind its keys.  Only KEY1 stays bound to menu_up while
\* pairing, and draws the menu over the code.
ListKeys ==
  running /\ Expected = {} =>
    /\ display = "clock_submenu" => Select = "clock_submenu_select"
    /\ display = "games_submenu" => Select = "games_submenu_select"
    /\ display = "menu" => \/ Select = "menu_select"
                           \/ longPress["KEY2"] = "return_to_menu"

\* No screen is a dead end: some key leads out of it, or a game that will end or the
\* end of "BLUETOOTH OFF" does, whatever uploads, updates and lost links did between.
WayBack ==
  running =>
    \/ Bound \cap {"menu_select", "return_to_menu", "enter_clock_submenu", "sw_back"} # {}
    \/ Expected \cap (GameTicks \cup {"BLE_OFF_DONE"}) # {}

\* The select key selects from the list that stays on the display, and some key, or an end
\* that comes by itself, leads out of every screen.  The other keys may do what the screen
\* does not show: KEY1 draws the menu over the pairing code, and with four keys KEY3 selects
\* the stopwatch again while it runs (main.c:500-850).
KeysMatchScreen == TypeOK /\ ListKeys /\ WayBack

\* The keys of a game are bound only while its clock ticks: it cannot freeze with
\* keys that do nothing, not even when the clock of an earlier game ends it.
GameGoesOn ==
  /\ "on_turn" \in Bound => "SNAKE_TICK" \in Expected
  /\ "on_flap" \in Bound => "FLAPPY_TICK" \in Expected
  /\ "on_key1_press" \in Bound => "BALL_TICK" \in Expected

\* The Bluetooth animation and the effects of the bitmaps never both draw.
OneAnimation == ~({"ANI_MARQUE", "BLE_NEXT_STEP"} \subseteq timers)

\* The clock ticks only while it is active, or over "BLUETOOTH OFF" when an upload ended
\* just before clock_submenu_select started the tick; and never beside the stopwatch.
ClockTicks ==
  "CLOCK_TICK" \in timers =>
    /\ clock_active \/ "BLE_OFF_DONE" \in Expected
    /\ "STOPWATCH_TICK" \notin timers

\* A running stopwatch has its timer, and with two keys a stopped one has none: the
\* key that stops it stops it, and what an upload within sw_startstop leaves ends with
\* "BLUETOOTH OFF".  With four keys KEY3 starts the screen over without stopping the timer.
StopwatchTicks ==
  /\ sw_state = "SW_RUNNING" => "STOPWATCH_TICK" \in timers
  /\ hw_key_count = 2 /\ "STOPWATCH_TICK" \in timers =>
       sw_state = "SW_RUNNING" \/ "BLE_OFF_DONE" \in Expected

\* No way out of a screen stops the timer of the game that is played, or leaves that of
\* the clock, of the stopwatch or of an animation running beside another: keys, updates, lost
\* links, the end of a game and uploads that end in the middle of a handler, up to the
\* moment when "BLUETOOTH OFF" ends.  The tick of a game that is no longer played is not
\* among them: Snake's may run over the menu (main.c:223-262, 500-850, 908-922).
TimersMatchScreen == GameGoesOn /\ OneAnimation /\ ClockTicks /\ StopwatchTicks

\* "UPDATING" is not left on the display without a host that updates.
UpdateNeedsLink == ota_display_active => ble = "connected"

=============================================================================
