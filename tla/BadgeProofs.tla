---------------------------- MODULE BadgeProofs -----------------------------
(***************************************************************************)
(* Badge.tla, proved.  The three properties of its run hold for every set  *)
(* of builds and every number of pending events.                           *)
(*                                                                         *)
(* The inductive invariant, BadgeInv, names the screens by what they bind  *)
(* to the keys, because the code has no variable that says which screen is *)
(* on (`mode` is written and never read): on each screen the bound handlers*)
(* lead to another screen of the list, the clock and the stopwatch tick    *)
(* only on theirs, a game that can be played has its tick, and a list on   *)
(* the display has the keys of that list.  It needs no key to be pressed   *)
(* while the badge charges: a game chosen on the charger is started, and   *)
(* main() then clears its timer and leaves its keys bound.                 *)
(***************************************************************************)
EXTENDS Badge, TLAPS

-----------------------------------------------------------------------------
(* The screens, as what they bind to the keys.                                *)

\* The short presses; those of KEY3 and KEY4 where the badge has them.
Short(a, b, c, d) ==
  /\ onePress["KEY1"] = a /\ onePress["KEY2"] = b
  /\ hw_key_count = 4 => onePress["KEY3"] = c /\ onePress["KEY4"] = d

Long(a, b) == longPress["KEY1"] = a /\ longPress["KEY2"] = b

\* Until the first return to it the menu has the keys of the start.
OnMenu ==
  /\ Short("menu_up", "menu_down", "menu_select", "return_to_menu")
  /\ Long("menu_select", "NULL") \/ (hw_key_count = 4 /\ Long("NULL", "NULL"))

\* KEY3 is still bound to menu_select, and the cursor cannot move.
OnAnimation ==
  /\ menu_cursor = 0
  /\ \E back \in {"return_to_menu", "bt_pairing_bypass"} :
       Short("NULL", "bm_transition", "menu_select", back)
  /\ Long("NULL", "return_to_menu")

OnPairing ==
  \E back \in {"return_to_menu", "bt_pairing_bypass"} :
    /\ Short("menu_up", "NULL", "menu_select", back)
    /\ Long(IF hw_key_count = 4 THEN "NULL" ELSE back, "return_to_menu")

OnClockMenu ==
  /\ Short("clock_submenu_nav", "clock_submenu_nav", "clock_submenu_select", "return_to_menu")
  /\ IF hw_key_count = 4 THEN Long("NULL", "NULL") ELSE Long("clock_submenu_select", "return_to_menu")

OnClock ==
  /\ clock_submenu_sel = 0
  /\ Short("NULL", "NULL", "clock_submenu_select", "return_to_menu")
  /\ Long("NULL", "enter_clock_submenu")

OnStopwatch ==
  /\ clock_submenu_sel = 1
  /\ Short("sw_startstop", "sw_reset", "clock_submenu_select", "return_to_menu")
  /\ Long("NULL", "sw_back")

\* Of four keys the long presses are left as the screen before had them.
LongFromMenu ==
  IF hw_key_count = 4
  THEN /\ menu_cursor = 3
       /\ Long("NULL", "NULL") \/ Long("NULL", "return_to_menu") \/ Long("menu_select", "NULL")
  ELSE Long("games_submenu_select", "return_to_menu")

OnGamesMenu ==
  /\ Short("games_submenu_nav", "games_submenu_nav", "games_submenu_select", "return_to_menu")
  /\ LongFromMenu

OnSnake ==
  /\ IF hw_key_count = 4 THEN Short("NULL", "NULL", "on_turn", "on_turn")
     ELSE Short("on_turn", "on_turn", "on_turn", "on_turn")
  /\ LongFromMenu

OnFlappy ==
  /\ IF hw_key_count = 4 THEN Short("NULL", "NULL", "on_flap", "NULL")
     ELSE Short("on_flap", "on_flap", "on_flap", "on_flap")
  /\ Long("NULL", "NULL")

OnPong ==
  /\ Short("on_key1_press", "on_key2_press", "NULL", "NULL")
  /\ Long("on_key1_long", "on_key2_long")

OnScreen ==
  \/ OnMenu \/ OnAnimation \/ OnPairing
  \/ OnClockMenu \/ OnClock \/ OnStopwatch
  \/ OnGamesMenu \/ OnSnake \/ OnFlappy \/ OnPong

\* The games that go on, the clocks of their screens, and the lists with their keys.
GamesTick ==
  /\ OnSnake => "SNAKE_TICK" \in Expected
  /\ OnFlappy => "FLAPPY_TICK" \in Expected
  /\ OnPong => "BALL_TICK" \in Expected

ClocksTick ==
  /\ "CLOCK_TICK" \in timers =>
       OnClock /\ (clock_active = TRUE \/ "BLE_OFF_DONE" \in Expected)
  /\ "STOPWATCH_TICK" \in timers => OnStopwatch
  /\ sw_state = "SW_RUNNING" => "STOPWATCH_TICK" \in timers
  /\ hw_key_count = 2 /\ "STOPWATCH_TICK" \in timers =>
       sw_state = "SW_RUNNING" \/ "BLE_OFF_DONE" \in Expected

\* What ends by itself: a game, and "BLUETOOTH OFF".
Ends == GameTicks \cup {"BLE_OFF_DONE"}

ListsShown ==
  /\ display = "clock_submenu" => OnClockMenu \/ (OnClock /\ "CLOCK_TICK" \in timers)
  /\ display = "games_submenu" => OnGamesMenu
  /\ display = "menu" => OnMenu \/ OnAnimation \/ OnPairing

\* While the badge charges it has the keys of the start.
Starting == ~running => OnMenu /\ sw_state = "SW_STOPPED"

BadgeInv ==
  /\ TypeOK /\ OnScreen
  /\ GamesTick /\ ClocksTick /\ ListsShown /\ OneAnimation /\ Starting
-----------------------------------------------------------------------------
(* The operators.                                                             *)

\* The events the tasks ask for are events of the badge.
LEMMA EventNames ==
  /\ {"ANI_NEXT_STEP", "ANI_MARQUE", "BLE_NEXT_STEP", "CLOCK_TICK", "STOPWATCH_TICK",
      "BLE_OFF_DONE"} \subseteq Events
  /\ {"SNAKE_TICK", "FLAPPY_TICK", "BALL_TICK", "PADDLE"} \subseteq Events
<1>1. {"ANI_NEXT_STEP", "ANI_MARQUE", "BLE_NEXT_STEP", "CLOCK_TICK", "STOPWATCH_TICK",
       "BLE_OFF_DONE"} \subseteq InSeq(CommonEvents)
  <2>1. /\ DOMAIN CommonEvents = 1..6
        /\ CommonEvents[1] = "ANI_NEXT_STEP" /\ CommonEvents[2] = "ANI_MARQUE"
        /\ CommonEvents[3] = "BLE_NEXT_STEP" /\ CommonEvents[4] = "CLOCK_TICK"
        /\ CommonEvents[5] = "STOPWATCH_TICK" /\ CommonEvents[6] = "BLE_OFF_DONE"
    BY DEF CommonEvents
  <2>2. \A j \in 1..6 : CommonEvents[j] \in InSeq(CommonEvents)
    BY <2>1 DEF InSeq
  <2> QED BY <2>1, <2>2
<1>2. {"BALL_TICK", "PADDLE"} \subseteq InSeq(PongEvents)
  <2>1. /\ DOMAIN PongEvents = 1..2
        /\ PongEvents[1] = "BALL_TICK" /\ PongEvents[2] = "PADDLE"
    BY DEF PongEvents
  <2>2. \A j \in 1..2 : PongEvents[j] \in InSeq(PongEvents)
    BY <2>1 DEF InSeq
  <2> QED BY <2>1, <2>2
<1> QED BY <1>1, <1>2 DEF Events, GameTicks

\* What a list binds: the presses it names, and nothing else.
LEMMA ListBinds ==
  ASSUME TypeOK, UNCHANGED hw_key_count,
         NEW a \in Handlers, NEW b \in Handlers, NEW c \in Handlers, NEW d \in Handlers,
         BindList(a, b, c, d)
  PROVE  Short(a, b, c, d)' /\ onePress' \in [Keys' -> Handlers]
<1>1. CASE hw_key_count = 4
  BY <1>1 DEF TypeOK, BindList, OnOnePress, Bind, Keys, Short
<1>2. CASE hw_key_count # 4
  BY <1>2 DEF TypeOK, BindList, OnOnePress, Bind, Keys, Short
<1> QED BY <1>1, <1>2

\* What binding both long presses does.
LEMMA LongBinds ==
  ASSUME TypeOK, NEW a \in Handlers, NEW b \in Handlers,
         OnLongPress([KEY1 |-> a, KEY2 |-> b])
  PROVE  Long(a, b)' /\ longPress' \in [{"KEY1", "KEY2"} -> Handlers]
BY DEF TypeOK, OnLongPress, Bind, Long

\* What binding both short presses of the front keys does.
LEMMA ShortBinds ==
  ASSUME TypeOK, UNCHANGED hw_key_count, NEW a \in Handlers, NEW b \in Handlers,
         OnOnePress([KEY1 |-> a, KEY2 |-> b])
  PROVE  /\ onePress' \in [Keys' -> Handlers]
         /\ \A c, d : (\E a2, b2 : Short(a2, b2, c, d)) => Short(a, b, c, d)'
<1>1. onePress' \in [Keys' -> Handlers]
  BY DEF TypeOK, OnOnePress, Bind, Keys
<1>2. /\ onePress'["KEY1"] = a /\ onePress'["KEY2"] = b
      /\ hw_key_count = 4 => /\ onePress'["KEY3"] = onePress["KEY3"]
                             /\ onePress'["KEY4"] = onePress["KEY4"]
  BY DEF TypeOK, OnOnePress, Bind, Keys
<1> QED BY <1>1, <1>2 DEF Short

\* No two of these screens are on at once.
LEMMA ScreensApart ==
  /\ OnMenu \/ OnAnimation \/ OnPairing \/ OnClockMenu \/ OnClock \/ OnStopwatch \/ OnGamesMenu
       => ~OnSnake /\ ~OnFlappy /\ ~OnPong
  /\ OnMenu \/ OnAnimation \/ OnPairing \/ OnClockMenu \/ OnGamesMenu \/ OnSnake \/ OnFlappy
     \/ OnPong => ~OnClock /\ ~OnStopwatch
  /\ ~(OnClock /\ OnStopwatch)
  /\ ~(OnSnake /\ OnFlappy) /\ ~(OnSnake /\ OnPong) /\ ~(OnFlappy /\ OnPong)
BY DEF OnMenu, OnAnimation, OnPairing, OnClockMenu, OnClock, OnStopwatch, OnGamesMenu,
       OnSnake, OnFlappy, OnPong, Short, Long, LongFromMenu

\* A step that touches neither the keys nor the selections leaves the screen on.
LEMMA ScreenStays ==
  ASSUME UNCHANGED <<hw_key_count, keys, menu_cursor, clock_submenu_sel>>
  PROVE  /\ OnMenu' = OnMenu /\ OnAnimation' = OnAnimation /\ OnPairing' = OnPairing
         /\ OnClockMenu' = OnClockMenu /\ OnClock' = OnClock /\ OnStopwatch' = OnStopwatch
         /\ OnGamesMenu' = OnGamesMenu /\ OnSnake' = OnSnake /\ OnFlappy' = OnFlappy
         /\ OnPong' = OnPong
BY DEF keys, OnMenu, OnAnimation, OnPairing, OnClockMenu, OnClock, OnStopwatch, OnGamesMenu,
       OnSnake, OnFlappy, OnPong, Short, Long, LongFromMenu

-----------------------------------------------------------------------------
(* Which screens bind a handler.                                              *)

\* The keys one by one.
LEMMA BoundKeys ==
  ASSUME TypeOK
  PROVE  /\ hw_key_count \in {2, 4}
         /\ Bound = {longPress["KEY1"], longPress["KEY2"], onePress["KEY1"], onePress["KEY2"]}
                    \cup (IF hw_key_count = 4 THEN {onePress["KEY3"], onePress["KEY4"]} ELSE {})
BY BuildsAssumption DEF TypeOK, Bound, Keys

LEMMA MenuKeysBound ==
  ASSUME TypeOK, OnScreen
  PROVE  /\ "menu_up" \in Bound \/ "menu_down" \in Bound => OnMenu \/ OnPairing
         /\ "menu_select" \in Bound =>
              \/ OnMenu \/ OnAnimation \/ OnPairing
              \/ hw_key_count = 4 /\ menu_cursor = 3 /\ (OnGamesMenu \/ OnSnake)
         /\ "bt_pairing_bypass" \in Bound => OnPairing \/ (hw_key_count = 4 /\ OnAnimation)
BY BoundKeys DEF OnScreen, OnMenu, OnAnimation, OnPairing, OnClockMenu, OnClock, OnStopwatch,
   OnGamesMenu, OnSnake, OnFlappy, OnPong, Short, Long, LongFromMenu

LEMMA ClockKeysBound ==
  ASSUME TypeOK, OnScreen
  PROVE  /\ "clock_submenu_nav" \in Bound => OnClockMenu
         /\ "clock_submenu_select" \in Bound =>
              OnClockMenu \/ (hw_key_count = 4 /\ (OnClock \/ OnStopwatch))
         /\ "enter_clock_submenu" \in Bound => OnClock
         /\ "sw_startstop" \in Bound \/ "sw_reset" \in Bound \/ "sw_back" \in Bound => OnStopwatch
BY BoundKeys DEF OnScreen, OnMenu, OnAnimation, OnPairing, OnClockMenu, OnClock, OnStopwatch,
   OnGamesMenu, OnSnake, OnFlappy, OnPong, Short, Long, LongFromMenu

LEMMA GameKeysBound ==
  ASSUME TypeOK, OnScreen
  PROVE  /\ "games_submenu_nav" \in Bound => OnGamesMenu
         /\ "games_submenu_select" \in Bound => OnGamesMenu \/ OnSnake
         /\ "on_turn" \in Bound => OnSnake
         /\ "on_flap" \in Bound => OnFlappy
         /\ "on_key1_press" \in Bound => OnPong
BY BoundKeys DEF OnScreen, OnMenu, OnAnimation, OnPairing, OnClockMenu, OnClock, OnStopwatch,
   OnGamesMenu, OnSnake, OnFlappy, OnPong, Short, Long, LongFromMenu

-----------------------------------------------------------------------------
(* Two kinds of steps: those that stay on the screen and those back to the     *)
(* menu.                                                                       *)

\* What a step that stays on the screen may change.
LEMMA StaysOnScreen ==
  ASSUME BadgeInv, running, HostStep,
         UNCHANGED <<keys, menus, clocks>>,
         timers' \subseteq Events, pending' \subseteq Events,
         Ends \cap Expected \subseteq Expected',
         Clocks \cap timers' = Clocks \cap timers,
         OneAnimation',
         display' = display
           \/ display' \in Displays \ {"clock_submenu", "games_submenu", "menu"},
         streaming_enabled' \in BOOLEAN, ota_display_active' \in BOOLEAN,
         ble' \in {"off", "advertised", "connected"}
  PROVE  BadgeInv'
<1>1. TypeOK'
  BY DEF BadgeInv, TypeOK, HostStep, keys, menus, submenus, clocks, Keys, Displays
<1>2. /\ OnMenu' = OnMenu /\ OnAnimation' = OnAnimation /\ OnPairing' = OnPairing
      /\ OnClockMenu' = OnClockMenu /\ OnClock' = OnClock /\ OnStopwatch' = OnStopwatch
      /\ OnGamesMenu' = OnGamesMenu /\ OnSnake' = OnSnake /\ OnFlappy' = OnFlappy
      /\ OnPong' = OnPong
  BY ScreenStays DEF HostStep, menus, submenus
<1>3. OnScreen'
  BY <1>2 DEF BadgeInv, OnScreen
<1>4. GamesTick'
  BY <1>2 DEF BadgeInv, GamesTick, Ends, GameTicks
<1>5. /\ ("CLOCK_TICK" \in timers') = ("CLOCK_TICK" \in timers)
      /\ ("STOPWATCH_TICK" \in timers') = ("STOPWATCH_TICK" \in timers)
  BY DEF Clocks
<1>6. ClocksTick'
  <2>1. "BLE_OFF_DONE" \in Expected => "BLE_OFF_DONE" \in Expected'
    BY DEF Ends
  <2> QED BY <1>2, <1>5, <2>1 DEF BadgeInv, ClocksTick, HostStep, clocks
<1>7. ListsShown'
  BY <1>2, <1>5 DEF BadgeInv, ListsShown
<1>8. Starting'
  BY DEF Starting, HostStep
<1> QED BY <1>1, <1>3, <1>4, <1>6, <1>7, <1>8 DEF BadgeInv

\* Back in the menu: its keys, no timer of another screen but the games'.
LEMMA ReturnToMenu ==
  ASSUME BadgeInv, running, HostStep, NEW stopped, return_to_menu(stopped),
         UNCHANGED menu_cursor,
         pending' \subseteq Events,
         streaming_enabled' \in BOOLEAN, ota_display_active' \in BOOLEAN,
         ble' \in {"off", "advertised", "connected"}
  PROVE  BadgeInv'
<1>1. Short("menu_up", "menu_down", "menu_select", "return_to_menu")'
      /\ onePress' \in [Keys' -> Handlers]
  <2>1. /\ "menu_up" \in Handlers /\ "menu_down" \in Handlers
        /\ "menu_select" \in Handlers /\ "return_to_menu" \in Handlers
    BY DEF Handlers
  <2> QED BY <2>1, ListBinds DEF return_to_menu, BadgeInv, HostStep
<1>2. /\ Long("menu_select", "NULL")' \/ (hw_key_count = 4 /\ Long("NULL", "NULL")')
      /\ longPress' \in [{"KEY1", "KEY2"} -> Handlers]
  <2>1. "NULL" \in Handlers /\ "menu_select" \in Handlers
    BY DEF Handlers
  <2>2. CASE hw_key_count = 4
    BY <2>1, <2>2, LongBinds DEF return_to_menu, BadgeInv
  <2>3. CASE hw_key_count # 4
    BY <2>1, <2>3, LongBinds DEF return_to_menu, BadgeInv
  <2> QED BY <2>2, <2>3
<1>3. OnMenu'
  BY <1>1, <1>2 DEF OnMenu, HostStep
<1>4. TypeOK'
  <2>1. /\ hw_key_count' \in HW_KEY_COUNTS /\ running' \in BOOLEAN
        /\ timers' \subseteq Events
        /\ menu_cursor' \in 0..4
    BY DEF BadgeInv, TypeOK, HostStep, return_to_menu, Stop
  <2>2. /\ display' \in Displays /\ clock_submenu_sel' \in 0..1 /\ games_submenu_sel' \in 0..2
        /\ sw_state' \in {"SW_STOPPED", "SW_RUNNING"}
    BY DEF return_to_menu, Displays
  <2>3. clock_active' = FALSE
    BY DEF return_to_menu
  <2> QED BY <1>1, <1>2, <2>1, <2>2, <2>3 DEF TypeOK
<1>5. /\ "CLOCK_TICK" \notin timers' /\ "STOPWATCH_TICK" \notin timers'
      /\ "BLE_NEXT_STEP" \notin timers'
  BY DEF return_to_menu, Stop, Clocks, Animations
<1>6. ~OnSnake' /\ ~OnFlappy' /\ ~OnPong'
  <2>1. (OnMenu => ~OnSnake /\ ~OnFlappy /\ ~OnPong)'
    BY ScreensApart, PTL
  <2> QED BY <2>1, <1>3
<1>7. GamesTick' /\ ClocksTick'
  BY <1>5, <1>6 DEF GamesTick, ClocksTick, return_to_menu
<1>8. ListsShown' /\ OneAnimation' /\ Starting'
  BY <1>3, <1>5 DEF ListsShown, OneAnimation, Starting, return_to_menu, HostStep
<1> QED BY <1>3, <1>4, <1>7, <1>8 DEF BadgeInv, OnScreen

\* Where neither the clock nor the stopwatch is on, neither ticks.
LEMMA QuietScreens ==
  ASSUME BadgeInv, ~OnClock, ~OnStopwatch
  PROVE  /\ "CLOCK_TICK" \notin timers /\ "STOPWATCH_TICK" \notin timers
         /\ sw_state = "SW_STOPPED"
BY DEF BadgeInv, ClocksTick, TypeOK

\* A step to a screen other than the clock and the stopwatch, where nothing of the
\* two goes on: a list, the animations, pairing, or a game with its tick.
LEMMA Arrives ==
  ASSUME running, HostStep, TypeOK', OneAnimation', ListsShown',
         "CLOCK_TICK" \notin timers', "STOPWATCH_TICK" \notin timers',
         sw_state' = "SW_STOPPED",
         \/ OnMenu' \/ OnAnimation' \/ OnPairing' \/ OnClockMenu' \/ OnGamesMenu'
         \/ OnSnake' /\ "SNAKE_TICK" \in timers'
         \/ OnFlappy' /\ "FLAPPY_TICK" \in timers'
         \/ OnPong' /\ "BALL_TICK" \in timers'
  PROVE  BadgeInv'
<1>1. /\ OnMenu' \/ OnAnimation' \/ OnPairing' \/ OnClockMenu' \/ OnGamesMenu'
           => ~OnSnake' /\ ~OnFlappy' /\ ~OnPong'
      /\ ~(OnSnake' /\ OnFlappy') /\ ~(OnSnake' /\ OnPong') /\ ~(OnFlappy' /\ OnPong')
  <2>1. (/\ OnMenu \/ OnAnimation \/ OnPairing \/ OnClockMenu \/ OnGamesMenu
              => ~OnSnake /\ ~OnFlappy /\ ~OnPong
         /\ ~(OnSnake /\ OnFlappy) /\ ~(OnSnake /\ OnPong) /\ ~(OnFlappy /\ OnPong))'
    BY ScreensApart, PTL
  <2> QED BY <2>1
<1>2. GamesTick'
  BY <1>1 DEF GamesTick, Expected
<1>3. ClocksTick' /\ Starting'
  BY DEF ClocksTick, Starting, HostStep
<1>4. OnScreen'
  BY DEF OnScreen
<1> QED BY <1>2, <1>3, <1>4 DEF BadgeInv

\* An animation starts, or an upload that ends just before it does stops the clocks.
LEMMA AnimationStarts ==
  ASSUME BadgeInv, start_normal_animation \/ start_ble_animation
  PROVE  /\ timers' \subseteq Events /\ OneAnimation'
         /\ display' \in {display, "picture", "ble_off"}
         /\ clock_active' \in BOOLEAN /\ sw_state' \in {sw_state, "SW_STOPPED"}
         /\ Clocks \cap timers' \subseteq Clocks \cap timers
<1>1. \/ timers' = (timers \ {"ANI_NEXT_STEP", "ANI_MARQUE"}) \cup {"BLE_NEXT_STEP"}
      \/ timers' = (timers \ {"BLE_NEXT_STEP"}) \cup {"ANI_NEXT_STEP", "ANI_MARQUE"}
      \/ timers' = (timers \ (Animations \cup Clocks)) \cup {"BLE_OFF_DONE", "BLE_NEXT_STEP"}
      \/ timers' = (timers \ (Animations \cup Clocks)) \cup {"BLE_OFF_DONE", "ANI_NEXT_STEP"}
  BY DEF start_normal_animation, start_ble_animation, AfterRx, StopStart
<1>2. timers' \subseteq Events
  BY <1>1, EventNames DEF BadgeInv, TypeOK
<1>3. OneAnimation' /\ Clocks \cap timers' \subseteq Clocks \cap timers
  BY <1>1 DEF OneAnimation, Animations, Clocks
<1>4. /\ display' \in {display, "picture", "ble_off"}
      /\ clock_active' = FALSE \/ clock_active' = clock_active
      /\ sw_state' \in {sw_state, "SW_STOPPED"}
  BY DEF start_normal_animation, start_ble_animation, AfterRx, clocks
<1>5. clock_active' \in BOOLEAN
  BY <1>4 DEF BadgeInv, TypeOK
<1> QED BY <1>2, <1>3, <1>4, <1>5

\* An upload that ends stops the clock and the stopwatch on whatever screen is on.
LEMMA UploadEnds ==
  ASSUME BadgeInv, running, HostStep, UNCHANGED <<keys, menus>>,
         NEW started, started \subseteq {"ANI_NEXT_STEP", "BLE_NEXT_STEP"}, AfterRx(started),
         pending' \subseteq Events, GameTicks \cap pending \subseteq pending',
         streaming_enabled' \in BOOLEAN, ota_display_active' \in BOOLEAN,
         ble' \in {"off", "advertised", "connected"}
  PROVE  BadgeInv'
<1>1. /\ timers' = (timers \ (Animations \cup Clocks)) \cup ({"BLE_OFF_DONE"} \cup started)
      /\ sw_state' = "SW_STOPPED" /\ display' = "ble_off"
  BY DEF AfterRx, StopStart
<1>2. clock_active' = FALSE
  BY DEF AfterRx
<1>3. TypeOK'
  <2>1. /\ hw_key_count' \in HW_KEY_COUNTS /\ running' \in BOOLEAN
        /\ onePress' \in [Keys' -> Handlers] /\ longPress' \in [{"KEY1", "KEY2"} -> Handlers]
    BY DEF BadgeInv, TypeOK, HostStep, keys, Keys
  <2>2. timers' \subseteq Events
    BY <1>1, EventNames DEF BadgeInv, TypeOK
  <2>3. /\ menu_cursor' \in 0..4 /\ clock_submenu_sel' \in 0..1 /\ games_submenu_sel' \in 0..2
    BY DEF BadgeInv, TypeOK, menus, submenus
  <2>4. display' \in Displays /\ sw_state' \in {"SW_STOPPED", "SW_RUNNING"}
    BY <1>1 DEF Displays
  <2> QED BY <1>2, <2>1, <2>2, <2>3, <2>4 DEF TypeOK
<1>4. /\ OnMenu' = OnMenu /\ OnAnimation' = OnAnimation /\ OnPairing' = OnPairing
      /\ OnClockMenu' = OnClockMenu /\ OnClock' = OnClock /\ OnStopwatch' = OnStopwatch
      /\ OnGamesMenu' = OnGamesMenu /\ OnSnake' = OnSnake /\ OnFlappy' = OnFlappy
      /\ OnPong' = OnPong
  BY ScreenStays DEF HostStep, menus, submenus
<1>5. OnScreen' /\ Starting'
  BY <1>4 DEF BadgeInv, OnScreen, Starting, HostStep
<1>6. GamesTick'
  BY <1>1, <1>4 DEF BadgeInv, GamesTick, Expected, Animations, Clocks, GameTicks
<1>7. ClocksTick' /\ ListsShown' /\ OneAnimation'
  BY <1>1 DEF ClocksTick, ListsShown, OneAnimation, Animations, Clocks
<1> QED BY <1>3, <1>5, <1>6, <1>7 DEF BadgeInv

-----------------------------------------------------------------------------
(* The keys of the menu.                                                      *)

\* The cursor moves, and the screen draws the menu.
LEMMA MenuMoves ==
  ASSUME BadgeInv, running, HostStep, OnMenu \/ OnPairing, menu_up \/ menu_down
  PROVE  BadgeInv'
<1>1. /\ UNCHANGED <<keys, tmos, clock_submenu_sel, games_submenu_sel, clocks, host, ble>>
      /\ display' = "menu"
  BY DEF menu_up, menu_down, MenuMove
<1>2. menu_cursor' \in 0..4
  BY DEF menu_up, menu_down, MenuMove, BadgeInv, TypeOK
<1>3. TypeOK'
  BY <1>1, <1>2 DEF BadgeInv, TypeOK, HostStep, keys, tmos, clocks, host, Keys, Displays
<1>4. OnMenu' \/ OnPairing'
  BY <1>1 DEF OnMenu, OnPairing, Short, Long, HostStep, keys
<1>5. /\ "CLOCK_TICK" \notin timers /\ "STOPWATCH_TICK" \notin timers
      /\ sw_state = "SW_STOPPED"
  BY QuietScreens, ScreensApart
<1>6. OneAnimation' /\ ListsShown'
  BY <1>1, <1>4 DEF BadgeInv, OneAnimation, ListsShown, tmos
<1>7. /\ "CLOCK_TICK" \notin timers' /\ "STOPWATCH_TICK" \notin timers'
      /\ sw_state' = "SW_STOPPED"
  BY <1>1, <1>5 DEF tmos, clocks
<1> QED BY <1>3, <1>4, <1>6, <1>7, Arrives

\* Select on the first line starts the animations.
LEMMA SelectsAnimation ==
  ASSUME BadgeInv, running, HostStep, OnMenu \/ OnAnimation \/ OnPairing, SelectAnimation
  PROVE  BadgeInv'
<1> USE DEF SelectAnimation
<1>1. "NULL" \in Handlers /\ "bm_transition" \in Handlers /\ "return_to_menu" \in Handlers
  BY DEF Handlers
<1>2. /\ onePress' \in [Keys' -> Handlers]
      /\ \A c, d : (\E a2, b2 : Short(a2, b2, c, d)) => Short("NULL", "bm_transition", c, d)'
  BY <1>1, ShortBinds DEF BadgeInv, HostStep
<1>3. Long("NULL", "return_to_menu")' /\ longPress' \in [{"KEY1", "KEY2"} -> Handlers]
  BY <1>1, LongBinds DEF BadgeInv
<1>4. \E back \in {"return_to_menu", "bt_pairing_bypass"} :
         Short("NULL", "bm_transition", "menu_select", back)'
  <2>1. \E back \in {"return_to_menu", "bt_pairing_bypass"} :
           \E a2, b2 : Short(a2, b2, "menu_select", back)
    BY DEF OnMenu, OnAnimation, OnPairing
  <2> QED BY <2>1, <1>2
<1>5. OnAnimation'
  BY <1>3, <1>4 DEF OnAnimation, menus
<1>6. /\ timers' \subseteq Events /\ OneAnimation'
      /\ display' \in {display, "ble_off"}
      /\ clock_active' \in BOOLEAN /\ sw_state' \in {sw_state, "SW_STOPPED"}
      /\ Clocks \cap timers' \subseteq Clocks \cap timers
  <2>1. display' \in {display, "ble_off"}
    BY DEF start_normal_animation, AfterRx
  <2> QED BY <2>1, AnimationStarts
<1>7. TypeOK'
  <2>1. /\ hw_key_count' \in HW_KEY_COUNTS /\ running' \in BOOLEAN
        /\ pending' \subseteq Events /\ ble' \in {"off", "advertised", "connected"}
        /\ menu_cursor' \in 0..4 /\ clock_submenu_sel' \in 0..1 /\ games_submenu_sel' \in 0..2
        /\ streaming_enabled' \in BOOLEAN /\ ota_display_active' \in BOOLEAN
    BY DEF BadgeInv, TypeOK, HostStep, menus, submenus, host
  <2>2. display' \in Displays /\ sw_state' \in {"SW_STOPPED", "SW_RUNNING"}
    BY <1>6 DEF BadgeInv, TypeOK, Displays
  <2> QED BY <1>2, <1>3, <1>6, <2>1, <2>2 DEF TypeOK
<1>8. /\ "CLOCK_TICK" \notin timers /\ "STOPWATCH_TICK" \notin timers
      /\ sw_state = "SW_STOPPED"
  BY QuietScreens, ScreensApart
<1>9. ListsShown'
  <2>1. display # "clock_submenu" /\ display # "games_submenu"
    BY <1>8 DEF BadgeInv, ListsShown, OnMenu, OnAnimation, OnPairing, OnClockMenu, OnGamesMenu,
       Short
  <2> QED BY <1>5, <1>6, <2>1 DEF ListsShown
<1>10. /\ "CLOCK_TICK" \notin timers' /\ "STOPWATCH_TICK" \notin timers'
       /\ sw_state' = "SW_STOPPED"
  BY <1>6, <1>8 DEF Clocks
<1> QED BY <1>5, <1>6, <1>7, <1>9, <1>10, Arrives

\* What the pairing keys are, coming from the menu or from pairing.
LEMMA PairingBinds ==
  ASSUME BadgeInv, HostStep, UNCHANGED menu_cursor, OnMenu \/ OnPairing,
         NEW back \in {"return_to_menu", "bt_pairing_bypass"}, PairingKeys(back)
  PROVE  /\ OnPairing'
         /\ onePress' \in [Keys' -> Handlers]
         /\ longPress' \in [{"KEY1", "KEY2"} -> Handlers]
<1>1. "NULL" \in Handlers /\ "return_to_menu" \in Handlers /\ back \in Handlers
  BY DEF Handlers
<1>2. /\ longPress'["KEY1"] = (IF hw_key_count = 4 THEN "NULL" ELSE back)
      /\ longPress'["KEY2"] = "return_to_menu"
  BY DEF PairingKeys, OnLongPress, Bind, BadgeInv, TypeOK
<1>3. longPress' \in [{"KEY1", "KEY2"} -> Handlers]
  BY <1>1 DEF PairingKeys, OnLongPress, Bind, BadgeInv, TypeOK
<1>4. onePress' \in [Keys' -> Handlers]
  BY <1>1 DEF BadgeInv, TypeOK, HostStep, PairingKeys, OnOnePress, Bind, Keys
<1>5. /\ onePress'["KEY1"] = onePress["KEY1"] /\ onePress'["KEY2"] = "NULL"
      /\ hw_key_count = 4 => onePress'["KEY3"] = onePress["KEY3"] /\ onePress'["KEY4"] = back
  BY DEF BadgeInv, TypeOK, PairingKeys, OnOnePress, Bind, Keys
<1>6. /\ onePress["KEY1"] = "menu_up"
      /\ hw_key_count = 4 => onePress["KEY3"] = "menu_select"
  BY DEF OnMenu, OnPairing, Short
<1>7. Short("menu_up", "NULL", "menu_select", back)'
  BY <1>5, <1>6 DEF Short, HostStep
<1>8. Long(IF hw_key_count = 4 THEN "NULL" ELSE back, "return_to_menu")'
  BY <1>2 DEF HostStep, Long
<1> QED BY <1>3, <1>4, <1>7, <1>8 DEF OnPairing

\* Select on the second line shows the pairing code, or the Bluetooth animation.
LEMMA SelectsBle ==
  ASSUME BadgeInv, running, HostStep, OnMenu \/ OnPairing, SelectBle
  PROVE  BadgeInv'
<1>1. UNCHANGED <<pending, menus, host>>
  BY DEF SelectBle
<1>2. /\ OnPairing'
      /\ onePress' \in [Keys' -> Handlers]
      /\ longPress' \in [{"KEY1", "KEY2"} -> Handlers]
  <2>1. PairingKeys("bt_pairing_bypass") \/ PairingKeys("return_to_menu")
    BY DEF SelectBle
  <2>2. UNCHANGED menu_cursor
    BY <1>1 DEF menus
  <2> QED BY <2>1, <2>2, PairingBinds
<1>3. /\ timers' \subseteq Events /\ OneAnimation'
      /\ display' \in {"auth_code", "picture", "ble_off"}
      /\ clock_active' \in BOOLEAN /\ sw_state' \in {sw_state, "SW_STOPPED"}
      /\ Clocks \cap timers' \subseteq Clocks \cap timers
  <2>1. CASE display' = "auth_code" /\ UNCHANGED <<timers, clocks>>
    BY <2>1 DEF BadgeInv, TypeOK, OneAnimation, clocks
  <2>2. CASE start_ble_animation
    <3>1. display' \in {"picture", "ble_off"}
      BY <2>2 DEF start_ble_animation, AfterRx
    <3> QED BY <2>2, <3>1, AnimationStarts
  <2> QED BY <2>1, <2>2 DEF SelectBle
<1>4. ble' \in {"off", "advertised", "connected"}
  BY DEF SelectBle, Advertise, BadgeInv, TypeOK
<1>5. TypeOK'
  <2>1. /\ hw_key_count' \in HW_KEY_COUNTS /\ running' \in BOOLEAN /\ pending' \subseteq Events
        /\ menu_cursor' \in 0..4 /\ clock_submenu_sel' \in 0..1 /\ games_submenu_sel' \in 0..2
        /\ streaming_enabled' \in BOOLEAN /\ ota_display_active' \in BOOLEAN
    BY <1>1 DEF BadgeInv, TypeOK, HostStep, menus, submenus, host
  <2>2. display' \in Displays /\ sw_state' \in {"SW_STOPPED", "SW_RUNNING"}
    BY <1>3 DEF BadgeInv, TypeOK, Displays
  <2> QED BY <1>2, <1>3, <1>4, <2>1, <2>2 DEF TypeOK
<1>6. /\ "CLOCK_TICK" \notin timers /\ "STOPWATCH_TICK" \notin timers
      /\ sw_state = "SW_STOPPED"
  BY QuietScreens, ScreensApart
<1>7. /\ "CLOCK_TICK" \notin timers' /\ "STOPWATCH_TICK" \notin timers'
      /\ sw_state' = "SW_STOPPED"
  BY <1>3, <1>6 DEF Clocks
<1>8. ListsShown'
  BY <1>3 DEF ListsShown
<1> QED BY <1>2, <1>3, <1>5, <1>7, <1>8, Arrives

\* Pairing skipped: the same screen, or the animations with KEY4 to leave them.
LEMMA BypassesPairing ==
  ASSUME BadgeInv, running, HostStep, OnPairing \/ (hw_key_count = 4 /\ OnAnimation),
         bt_pairing_bypass
  PROVE  BadgeInv'
<1>1. /\ UNCHANGED <<pending, menus, host, ble>>
      /\ timers' \subseteq Events /\ OneAnimation'
      /\ display' \in {"picture", "ble_off"}
      /\ clock_active' \in BOOLEAN /\ sw_state' \in {sw_state, "SW_STOPPED"}
      /\ Clocks \cap timers' \subseteq Clocks \cap timers
  <2>1. UNCHANGED <<pending, menus, host, ble>> /\ start_ble_animation
    BY DEF bt_pairing_bypass
  <2>2. display' \in {"picture", "ble_off"}
    BY <2>1 DEF start_ble_animation, AfterRx
  <2> QED BY <2>1, <2>2, AnimationStarts
<1>2. "return_to_menu" \in Handlers
  BY DEF Handlers
<1>3. /\ onePress' \in [Keys' -> Handlers]
      /\ longPress' \in [{"KEY1", "KEY2"} -> Handlers]
      /\ OnPairing' \/ OnAnimation'
  <2>1. CASE hw_key_count = 4
    <3>1. OnOnePress([KEY4 |-> "return_to_menu"]) /\ UNCHANGED longPress
      BY <2>1 DEF bt_pairing_bypass
    <3>2. onePress' \in [Keys' -> Handlers]
      BY <1>2, <2>1, <3>1 DEF BadgeInv, TypeOK, HostStep, OnOnePress, Bind, Keys
    <3>3. /\ onePress'["KEY1"] = onePress["KEY1"] /\ onePress'["KEY2"] = onePress["KEY2"]
          /\ onePress'["KEY3"] = onePress["KEY3"] /\ onePress'["KEY4"] = "return_to_menu"
      BY <2>1, <3>1 DEF BadgeInv, TypeOK, OnOnePress, Bind, Keys
    <3>4. CASE OnPairing
      <4>1. Short("menu_up", "NULL", "menu_select", "return_to_menu")'
        BY <3>3, <3>4 DEF OnPairing, Short, HostStep
      <4>2. Long("NULL", "return_to_menu")'
        BY <2>1, <3>1, <3>4 DEF OnPairing, Long
      <4> QED BY <2>1, <3>1, <3>2, <4>1, <4>2 DEF OnPairing, HostStep, BadgeInv, TypeOK
    <3>5. CASE OnAnimation
      <4>1. Short("NULL", "bm_transition", "menu_select", "return_to_menu")'
        BY <3>3, <3>5 DEF OnAnimation, Short, HostStep
      <4> QED BY <1>1, <3>1, <3>2, <3>5, <4>1
              DEF OnAnimation, Long, menus, BadgeInv, TypeOK
    <3> QED BY <3>4, <3>5
  <2>2. CASE hw_key_count # 4
    <3>1. OnLongPress([KEY1 |-> "return_to_menu"]) /\ UNCHANGED onePress
      BY <2>2 DEF bt_pairing_bypass
    <3>2. /\ longPress' \in [{"KEY1", "KEY2"} -> Handlers]
          /\ longPress'["KEY1"] = "return_to_menu" /\ longPress'["KEY2"] = longPress["KEY2"]
      BY <1>2, <3>1 DEF BadgeInv, TypeOK, OnLongPress, Bind
    <3>3. Short("menu_up", "NULL", "menu_select", "return_to_menu")'
      BY <2>2, <3>1 DEF OnPairing, OnAnimation, Short, HostStep
    <3>4. Long("return_to_menu", "return_to_menu")'
      BY <2>2, <3>2 DEF OnPairing, Long
    <3> QED BY <2>2, <3>1, <3>2, <3>3, <3>4 DEF OnPairing, HostStep, BadgeInv, TypeOK, Keys
  <2> QED BY <2>1, <2>2
<1>4. TypeOK'
  <2>1. /\ hw_key_count' \in HW_KEY_COUNTS /\ running' \in BOOLEAN /\ pending' \subseteq Events
        /\ menu_cursor' \in 0..4 /\ clock_submenu_sel' \in 0..1 /\ games_submenu_sel' \in 0..2
        /\ streaming_enabled' \in BOOLEAN /\ ota_display_active' \in BOOLEAN
        /\ ble' \in {"off", "advertised", "connected"}
    BY <1>1 DEF BadgeInv, TypeOK, HostStep, menus, submenus, host
  <2>2. display' \in Displays /\ sw_state' \in {"SW_STOPPED", "SW_RUNNING"}
    BY <1>1 DEF BadgeInv, TypeOK, Displays
  <2> QED BY <1>1, <1>3, <2>1, <2>2 DEF TypeOK
<1>5. /\ "CLOCK_TICK" \notin timers /\ "STOPWATCH_TICK" \notin timers
      /\ sw_state = "SW_STOPPED"
  BY QuietScreens, ScreensApart
<1>6. /\ "CLOCK_TICK" \notin timers' /\ "STOPWATCH_TICK" \notin timers'
      /\ sw_state' = "SW_STOPPED"
  BY <1>1, <1>5 DEF Clocks
<1>7. ListsShown'
  BY <1>1 DEF ListsShown
<1> QED BY <1>1, <1>3, <1>4, <1>6, <1>7, Arrives

-----------------------------------------------------------------------------
(* The keys of the clock.                                                     *)

LEMMA EntersClockMenu ==
  ASSUME BadgeInv, running, HostStep, NEW stopped, enter_clock_submenu(stopped),
         "STOPWATCH_TICK" \notin timers \ stopped, sw_state' = "SW_STOPPED"
  PROVE  BadgeInv'
<1>1. /\ UNCHANGED <<pending, menu_cursor, games_submenu_sel, host, ble>>
      /\ timers' = timers \ (Animations \cup {"CLOCK_TICK"} \cup stopped)
      /\ display' = "clock_submenu" /\ clock_submenu_sel' = 0
  BY DEF enter_clock_submenu, Stop
<1>2. clock_active' = FALSE
  BY DEF enter_clock_submenu
<1>3. /\ "NULL" \in Handlers /\ "return_to_menu" \in Handlers
      /\ "clock_submenu_nav" \in Handlers /\ "clock_submenu_select" \in Handlers
  BY DEF Handlers
<1>4. /\ Short("clock_submenu_nav", "clock_submenu_nav", "clock_submenu_select",
               "return_to_menu")'
      /\ onePress' \in [Keys' -> Handlers]
  BY <1>3, ListBinds DEF enter_clock_submenu, BadgeInv, HostStep
<1>5. /\ IF hw_key_count = 4 THEN Long("NULL", "NULL")'
         ELSE Long("clock_submenu_select", "return_to_menu")'
      /\ longPress' \in [{"KEY1", "KEY2"} -> Handlers]
  <2>1. CASE hw_key_count = 4
    BY <1>3, <2>1, LongBinds DEF enter_clock_submenu, BadgeInv
  <2>2. CASE hw_key_count # 4
    BY <1>3, <2>2, LongBinds DEF enter_clock_submenu, BadgeInv
  <2> QED BY <2>1, <2>2
<1>6. OnClockMenu'
  BY <1>4, <1>5 DEF OnClockMenu, HostStep
<1>7. TypeOK'
  <2>1. /\ hw_key_count' \in HW_KEY_COUNTS /\ running' \in BOOLEAN
        /\ timers' \subseteq Events /\ pending' \subseteq Events
        /\ menu_cursor' \in 0..4 /\ games_submenu_sel' \in 0..2
    BY <1>1 DEF BadgeInv, TypeOK, HostStep
  <2>2. /\ streaming_enabled' \in BOOLEAN /\ ota_display_active' \in BOOLEAN
        /\ ble' \in {"off", "advertised", "connected"}
    BY <1>1 DEF BadgeInv, TypeOK, host
  <2>3. display' \in Displays /\ clock_submenu_sel' \in 0..1
    BY <1>1 DEF Displays
  <2> QED BY <1>2, <1>4, <1>5, <2>1, <2>2, <2>3 DEF TypeOK
<1>8. OneAnimation' /\ ListsShown'
  BY <1>1, <1>6 DEF BadgeInv, OneAnimation, ListsShown
<1>9. "CLOCK_TICK" \notin timers' /\ "STOPWATCH_TICK" \notin timers'
  BY <1>1
<1> QED BY <1>6, <1>7, <1>8, <1>9, Arrives

LEMMA MovesInClockMenu ==
  ASSUME BadgeInv, running, HostStep, OnClockMenu, clock_submenu_nav
  PROVE  BadgeInv'
<1>1. /\ UNCHANGED <<keys, tmos, menu_cursor, games_submenu_sel, clocks, host, ble>>
      /\ display' = "clock_submenu"
      /\ clock_submenu_sel' = 1 - clock_submenu_sel
  BY DEF clock_submenu_nav
<1>2. clock_submenu_sel' \in 0..1
  BY <1>1 DEF BadgeInv, TypeOK
<1>3. TypeOK'
  BY <1>1, <1>2 DEF BadgeInv, TypeOK, HostStep, keys, tmos, clocks, host, Keys, Displays
<1>4. OnClockMenu'
  BY <1>1 DEF OnClockMenu, Short, Long, HostStep, keys
<1>5. /\ "CLOCK_TICK" \notin timers /\ "STOPWATCH_TICK" \notin timers
      /\ sw_state = "SW_STOPPED"
  BY QuietScreens, ScreensApart
<1>6. /\ "CLOCK_TICK" \notin timers' /\ "STOPWATCH_TICK" \notin timers'
      /\ sw_state' = "SW_STOPPED"
  BY <1>1, <1>5 DEF tmos, clocks
<1>7. OneAnimation' /\ ListsShown'
  BY <1>1, <1>4 DEF BadgeInv, OneAnimation, ListsShown, tmos
<1> QED BY <1>3, <1>4, <1>6, <1>7, Arrives

\* On the clock's screens no other list is on, and none is shown as such.
LEMMA ClockListsShown ==
  ASSUME BadgeInv, OnClockMenu \/ OnClock \/ OnStopwatch
  PROVE  display # "games_submenu" /\ display # "menu"
BY DEF BadgeInv, ListsShown, OnMenu, OnAnimation, OnPairing, OnClockMenu, OnClock, OnStopwatch,
   OnGamesMenu, Short, Long

LEMMA StartsClock ==
  ASSUME BadgeInv, running, HostStep, OnClockMenu \/ OnClock \/ OnStopwatch, SelectTime
  PROVE  BadgeInv'
<1>1. /\ UNCHANGED <<pending, menus, host, ble>>
      /\ clock_submenu_sel = 0
  BY DEF SelectTime
<1>2. /\ clock_active' = TRUE \/ (clock_active' = FALSE /\ "BLE_OFF_DONE" \in timers')
      /\ sw_state' \in {sw_state, "SW_STOPPED"}
      /\ display' \in {display, "ble_off"}
      /\ "CLOCK_TICK" \in timers'
      /\ timers' \subseteq timers \cup {"CLOCK_TICK", "BLE_OFF_DONE"}
  BY DEF SelectTime, AfterRx, StopStart
<1>3. ~OnStopwatch
  BY <1>1 DEF OnStopwatch
<1>4. /\ "NULL" \in Handlers /\ "enter_clock_submenu" \in Handlers
  BY DEF Handlers
<1>5. /\ onePress' \in [Keys' -> Handlers]
      /\ \A c, d : (\E a2, b2 : Short(a2, b2, c, d)) => Short("NULL", "NULL", c, d)'
  BY <1>4, ShortBinds DEF SelectTime, BadgeInv, HostStep
<1>6. Long("NULL", "enter_clock_submenu")' /\ longPress' \in [{"KEY1", "KEY2"} -> Handlers]
  BY <1>4, LongBinds DEF SelectTime, BadgeInv
<1>7. Short("NULL", "NULL", "clock_submenu_select", "return_to_menu")'
  BY <1>3, <1>5 DEF OnClockMenu, OnClock
<1>8. OnClock'
  BY <1>1, <1>6, <1>7 DEF OnClock, menus, submenus
<1>9. TypeOK'
  <2>1. /\ hw_key_count' \in HW_KEY_COUNTS /\ running' \in BOOLEAN
        /\ timers' \subseteq Events /\ pending' \subseteq Events
    BY <1>1, <1>2, EventNames DEF BadgeInv, TypeOK, HostStep
  <2>2. /\ menu_cursor' \in 0..4 /\ clock_submenu_sel' \in 0..1 /\ games_submenu_sel' \in 0..2
        /\ streaming_enabled' \in BOOLEAN /\ ota_display_active' \in BOOLEAN
        /\ ble' \in {"off", "advertised", "connected"}
    BY <1>1 DEF BadgeInv, TypeOK, menus, submenus, host
  <2>3. display' \in Displays /\ sw_state' \in {"SW_STOPPED", "SW_RUNNING"}
    BY <1>2 DEF BadgeInv, TypeOK, Displays
  <2>4. clock_active' \in BOOLEAN
    BY <1>2
  <2> QED BY <1>5, <1>6, <2>1, <2>2, <2>3, <2>4 DEF TypeOK
<1>10. "STOPWATCH_TICK" \notin timers /\ sw_state = "SW_STOPPED"
  BY <1>3 DEF BadgeInv, ClocksTick, TypeOK
<1>11. ClocksTick'
  BY <1>2, <1>8, <1>10 DEF ClocksTick, Expected
<1>12. GamesTick'
  <2>1. (OnClock => ~OnSnake /\ ~OnFlappy /\ ~OnPong)'
    BY ScreensApart, PTL
  <2> QED BY <1>8, <2>1 DEF GamesTick
<1>13. ListsShown' /\ OneAnimation'
  BY <1>2, <1>8, ClockListsShown DEF BadgeInv, ListsShown, OneAnimation
<1>14. Starting' /\ OnScreen'
  BY <1>8 DEF Starting, HostStep, OnScreen
<1> QED BY <1>9, <1>11, <1>12, <1>13, <1>14 DEF BadgeInv

\* With two keys the stopwatch is only opened from its list.
LEMMA OpensStopwatch ==
  ASSUME BadgeInv, running, HostStep, SelectStopwatch,
         OnClockMenu \/ (hw_key_count = 4 /\ (OnClock \/ OnStopwatch))
  PROVE  BadgeInv'
<1>1. /\ UNCHANGED <<tmos, menus, clock_active, host, ble>>
      /\ display' = "stopwatch" /\ sw_state' = "SW_STOPPED"
      /\ clock_submenu_sel = 1
  BY DEF SelectStopwatch
<1>2. ~OnClock
  BY <1>1 DEF OnClock
<1>3. /\ "NULL" \in Handlers /\ "sw_startstop" \in Handlers /\ "sw_reset" \in Handlers
      /\ "sw_back" \in Handlers
  BY DEF Handlers
<1>4. /\ onePress' \in [Keys' -> Handlers]
      /\ \A c, d : (\E a2, b2 : Short(a2, b2, c, d)) => Short("sw_startstop", "sw_reset", c, d)'
  BY <1>3, ShortBinds DEF SelectStopwatch, BadgeInv, HostStep
<1>5. Long("NULL", "sw_back")' /\ longPress' \in [{"KEY1", "KEY2"} -> Handlers]
  BY <1>3, LongBinds DEF SelectStopwatch, BadgeInv
<1>6. Short("sw_startstop", "sw_reset", "clock_submenu_select", "return_to_menu")'
  BY <1>2, <1>4 DEF OnClockMenu, OnStopwatch
<1>7. OnStopwatch'
  BY <1>1, <1>5, <1>6 DEF OnStopwatch, menus, submenus
<1>8. TypeOK'
  BY <1>1, <1>4, <1>5 DEF BadgeInv, TypeOK, HostStep, tmos, menus, submenus, host, Displays
<1>9. "CLOCK_TICK" \notin timers
  BY <1>2 DEF BadgeInv, ClocksTick
<1>10. hw_key_count = 2 => "STOPWATCH_TICK" \notin timers
  BY ScreensApart, QuietScreens
<1>11. ClocksTick'
  BY <1>1, <1>7, <1>9, <1>10 DEF ClocksTick, tmos, HostStep
<1>12. GamesTick'
  <2>1. (OnStopwatch => ~OnSnake /\ ~OnFlappy /\ ~OnPong)'
    BY ScreensApart, PTL
  <2> QED BY <1>7, <2>1 DEF GamesTick
<1>13. ListsShown' /\ OneAnimation'
  BY <1>1 DEF BadgeInv, ListsShown, OneAnimation, tmos
<1>14. Starting' /\ OnScreen'
  BY <1>7 DEF Starting, HostStep, OnScreen
<1> QED BY <1>8, <1>11, <1>12, <1>13, <1>14 DEF BadgeInv

LEMMA StartsStopwatch ==
  ASSUME BadgeInv, running, HostStep, OnStopwatch, sw_startstop
  PROVE  BadgeInv'
<1>1. UNCHANGED <<keys, pending, menus, host, ble>>
  BY DEF sw_startstop
<1>2. /\ \/ sw_state' = "SW_RUNNING" /\ "STOPWATCH_TICK" \in timers'
         \/ sw_state' = "SW_STOPPED" /\ "STOPWATCH_TICK" \notin timers'
         \/ sw_state' = "SW_STOPPED" /\ "BLE_OFF_DONE" \in timers'
      /\ timers' \subseteq timers \cup {"STOPWATCH_TICK", "BLE_OFF_DONE"}
      /\ display' \in {display, "ble_off"}
      /\ clock_active' = clock_active \/ clock_active' = FALSE
  BY DEF sw_startstop, StopStart, Stop, AfterRx
<1>3. TypeOK'
  <2>1. /\ hw_key_count' \in HW_KEY_COUNTS /\ running' \in BOOLEAN
        /\ onePress' \in [Keys' -> Handlers] /\ longPress' \in [{"KEY1", "KEY2"} -> Handlers]
        /\ timers' \subseteq Events /\ pending' \subseteq Events
    BY <1>1, <1>2, EventNames DEF BadgeInv, TypeOK, HostStep, keys, Keys
  <2>2. /\ menu_cursor' \in 0..4 /\ clock_submenu_sel' \in 0..1 /\ games_submenu_sel' \in 0..2
        /\ streaming_enabled' \in BOOLEAN /\ ota_display_active' \in BOOLEAN
        /\ ble' \in {"off", "advertised", "connected"}
    BY <1>1 DEF BadgeInv, TypeOK, menus, submenus, host
  <2>3. display' \in Displays /\ sw_state' \in {"SW_STOPPED", "SW_RUNNING"}
    BY <1>2 DEF BadgeInv, TypeOK, Displays
  <2>4. clock_active' \in BOOLEAN
    BY <1>2 DEF BadgeInv, TypeOK
  <2> QED BY <2>1, <2>2, <2>3, <2>4 DEF TypeOK
<1>4. OnStopwatch'
  BY <1>1, ScreenStays DEF HostStep, menus, submenus
<1>5. "CLOCK_TICK" \notin timers
  BY ScreensApart DEF BadgeInv, ClocksTick
<1>6. ClocksTick'
  BY <1>2, <1>4, <1>5 DEF ClocksTick, Expected
<1>7. GamesTick'
  <2>1. (OnStopwatch => ~OnSnake /\ ~OnFlappy /\ ~OnPong)'
    BY ScreensApart, PTL
  <2> QED BY <1>4, <2>1 DEF GamesTick
<1>8. ListsShown'
  <2>1. display # "games_submenu" /\ display # "menu" /\ display # "clock_submenu"
    BY <1>5, ClockListsShown
       DEF BadgeInv, ListsShown, OnStopwatch, OnClockMenu, Short
  <2> QED BY <1>2, <2>1 DEF ListsShown
<1>9. OneAnimation'
  BY <1>2 DEF BadgeInv, OneAnimation
<1>10. Starting' /\ OnScreen'
  BY <1>4 DEF Starting, HostStep, OnScreen
<1> QED BY <1>3, <1>6, <1>7, <1>8, <1>9, <1>10 DEF BadgeInv

-----------------------------------------------------------------------------
(* The keys of the games.                                                     *)

\* Of four keys the long presses stay those of the screen before.
LEMMA EntersGames ==
  ASSUME BadgeInv, running, HostStep, menu_cursor = 3, enter_games_submenu,
         OnMenu \/ OnPairing \/ (hw_key_count = 4 /\ (OnGamesMenu \/ OnSnake))
  PROVE  BadgeInv'
<1>1. /\ UNCHANGED <<pending, menu_cursor, clock_submenu_sel, clocks, host, ble>>
      /\ timers' = timers \ Animations
      /\ display' = "games_submenu" /\ games_submenu_sel' = 0
  BY DEF enter_games_submenu, Stop
<1>2. /\ "return_to_menu" \in Handlers
      /\ "games_submenu_nav" \in Handlers /\ "games_submenu_select" \in Handlers
  BY DEF Handlers
<1>3. /\ Short("games_submenu_nav", "games_submenu_nav", "games_submenu_select",
               "return_to_menu")'
      /\ onePress' \in [Keys' -> Handlers]
  BY <1>2, ListBinds DEF enter_games_submenu, BadgeInv, HostStep
<1>4. LongFromMenu' /\ longPress' \in [{"KEY1", "KEY2"} -> Handlers]
  <2>1. CASE hw_key_count = 4
    <3>1. UNCHANGED longPress
      BY <2>1 DEF enter_games_submenu
    <3>2. Long("NULL", "NULL") \/ Long("NULL", "return_to_menu") \/ Long("menu_select", "NULL")
      BY <2>1 DEF OnMenu, OnPairing, OnGamesMenu, OnSnake, LongFromMenu
    <3> QED BY <1>1, <2>1, <3>1, <3>2 DEF LongFromMenu, Long, HostStep, BadgeInv, TypeOK
  <2>2. CASE hw_key_count # 4
    <3>1. OnLongPress([KEY1 |-> "games_submenu_select", KEY2 |-> "return_to_menu"])
      BY <2>2 DEF enter_games_submenu
    <3>2. /\ Long("games_submenu_select", "return_to_menu")'
          /\ longPress' \in [{"KEY1", "KEY2"} -> Handlers]
      BY <1>2, <3>1, LongBinds DEF BadgeInv
    <3> QED BY <2>2, <3>2 DEF LongFromMenu, HostStep
  <2> QED BY <2>1, <2>2
<1>5. OnGamesMenu'
  BY <1>3, <1>4 DEF OnGamesMenu
<1>6. TypeOK'
  BY <1>1, <1>3, <1>4 DEF BadgeInv, TypeOK, HostStep, clocks, host, Displays
<1>7. /\ "CLOCK_TICK" \notin timers /\ "STOPWATCH_TICK" \notin timers
      /\ sw_state = "SW_STOPPED"
  BY QuietScreens, ScreensApart
<1>8. /\ "CLOCK_TICK" \notin timers' /\ "STOPWATCH_TICK" \notin timers'
      /\ sw_state' = "SW_STOPPED"
  BY <1>1, <1>7 DEF clocks
<1>9. OneAnimation' /\ ListsShown'
  BY <1>1, <1>5 DEF BadgeInv, OneAnimation, ListsShown
<1> QED BY <1>5, <1>6, <1>8, <1>9, Arrives

LEMMA MovesInGamesMenu ==
  ASSUME BadgeInv, running, HostStep, OnGamesMenu, games_submenu_nav
  PROVE  BadgeInv'
<1>1. /\ UNCHANGED <<keys, tmos, menu_cursor, clock_submenu_sel, clocks, host, ble>>
      /\ display' = "games_submenu"
      /\ games_submenu_sel' = (games_submenu_sel + 1) % 3
  BY DEF games_submenu_nav
<1>2. games_submenu_sel' \in 0..2
  BY <1>1 DEF BadgeInv, TypeOK
<1>3. TypeOK'
  BY <1>1, <1>2 DEF BadgeInv, TypeOK, HostStep, keys, tmos, clocks, host, Keys, Displays
<1>4. OnGamesMenu'
  BY <1>1, ScreenStays DEF HostStep
<1>5. /\ "CLOCK_TICK" \notin timers /\ "STOPWATCH_TICK" \notin timers
      /\ sw_state = "SW_STOPPED"
  BY QuietScreens, ScreensApart
<1>6. /\ "CLOCK_TICK" \notin timers' /\ "STOPWATCH_TICK" \notin timers'
      /\ sw_state' = "SW_STOPPED"
  BY <1>1, <1>5 DEF tmos, clocks
<1>7. OneAnimation' /\ ListsShown'
  BY <1>1, <1>4 DEF BadgeInv, OneAnimation, ListsShown, tmos
<1> QED BY <1>3, <1>4, <1>6, <1>7, Arrives

\* A game that starts has its tick, and the keys it is played with.
LEMMA StartsGame ==
  ASSUME BadgeInv, running, HostStep, OnGamesMenu \/ OnSnake,
         NEW tick \in GameTicks, StartGame(tick),
         onePress' \in [Keys' -> Handlers],
         longPress' \in [{"KEY1", "KEY2"} -> Handlers],
         \/ OnSnake' /\ tick = "SNAKE_TICK"
         \/ OnFlappy' /\ tick = "FLAPPY_TICK"
         \/ OnPong' /\ tick = "BALL_TICK"
  PROVE  BadgeInv'
<1>1. /\ UNCHANGED <<pending, menus, clocks, host, ble>>
      /\ timers' = (timers \ Animations) \cup {tick}
      /\ display' = "game"
  BY DEF StartGame, StopStart
<1>2. tick \in Events
  BY DEF Events
<1>3. TypeOK'
  BY <1>1, <1>2 DEF BadgeInv, TypeOK, HostStep, menus, submenus, clocks, host, Displays
<1>4. /\ "CLOCK_TICK" \notin timers /\ "STOPWATCH_TICK" \notin timers
      /\ sw_state = "SW_STOPPED"
  BY QuietScreens, ScreensApart
<1>5. /\ "CLOCK_TICK" \notin timers' /\ "STOPWATCH_TICK" \notin timers'
      /\ sw_state' = "SW_STOPPED"
  BY <1>1, <1>4 DEF clocks, GameTicks
<1>6. OneAnimation' /\ ListsShown'
  BY <1>1 DEF OneAnimation, ListsShown, Animations, GameTicks
<1> QED BY <1>1, <1>3, <1>5, <1>6, Arrives

LEMMA StartsSnake ==
  ASSUME BadgeInv, running, HostStep, OnGamesMenu \/ OnSnake, game_start
  PROVE  BadgeInv'
<1>1. onePress' \in [Keys' -> Handlers]
  <2>1. "NULL" \in Handlers /\ "on_turn" \in Handlers
    BY DEF Handlers
  <2>2. CASE hw_key_count = 4
    BY <2>1, <2>2 DEF game_start, OnOnePress, Bind, BadgeInv, TypeOK, HostStep, Keys
  <2>3. CASE hw_key_count # 4
    BY <2>1, <2>3 DEF game_start, OnOnePress, Bind, BadgeInv, TypeOK, HostStep, Keys
  <2> QED BY <2>2, <2>3
<1>2. IF hw_key_count = 4 THEN Short("NULL", "NULL", "on_turn", "on_turn")'
      ELSE Short("on_turn", "on_turn", "on_turn", "on_turn")'
  <2>1. CASE hw_key_count = 4
    BY <2>1 DEF game_start, OnOnePress, Bind, BadgeInv, TypeOK, Keys, Short
  <2>2. CASE hw_key_count # 4
    BY <2>2 DEF game_start, OnOnePress, Bind, BadgeInv, TypeOK, HostStep, Keys, Short
  <2> QED BY <2>1, <2>2
<1>3. UNCHANGED <<longPress, menu_cursor>>
  BY DEF game_start, StartGame, menus
<1>4. LongFromMenu'
  BY <1>3 DEF OnGamesMenu, OnSnake, LongFromMenu, Long, HostStep
<1>5. OnSnake'
  BY <1>2, <1>4 DEF OnSnake, HostStep
<1>6. StartGame("SNAKE_TICK") /\ "SNAKE_TICK" \in GameTicks
  BY DEF game_start, GameTicks
<1> QED BY <1>1, <1>3, <1>5, <1>6, StartsGame DEF BadgeInv, TypeOK

LEMMA StartsFlappy ==
  ASSUME BadgeInv, running, HostStep, OnGamesMenu \/ OnSnake, flappy_start
  PROVE  BadgeInv'
<1>1. "NULL" \in Handlers /\ "on_flap" \in Handlers
  BY DEF Handlers
<1>2. onePress' \in [Keys' -> Handlers]
  <2>1. CASE hw_key_count = 4
    BY <1>1, <2>1 DEF flappy_start, OnOnePress, Bind, BadgeInv, TypeOK, HostStep, Keys
  <2>2. CASE hw_key_count # 4
    BY <1>1, <2>2 DEF flappy_start, OnOnePress, Bind, BadgeInv, TypeOK, HostStep, Keys
  <2> QED BY <2>1, <2>2
<1>3. IF hw_key_count = 4 THEN Short("NULL", "NULL", "on_flap", "NULL")'
      ELSE Short("on_flap", "on_flap", "on_flap", "on_flap")'
  <2>1. CASE hw_key_count = 4
    BY <2>1 DEF flappy_start, OnOnePress, Bind, BadgeInv, TypeOK, Keys, Short
  <2>2. CASE hw_key_count # 4
    BY <2>2 DEF flappy_start, OnOnePress, Bind, BadgeInv, TypeOK, HostStep, Keys, Short
  <2> QED BY <2>1, <2>2
<1>4. Long("NULL", "NULL")' /\ longPress' \in [{"KEY1", "KEY2"} -> Handlers]
  BY <1>1, LongBinds DEF flappy_start, BadgeInv
<1>5. OnFlappy'
  BY <1>3, <1>4 DEF OnFlappy, HostStep
<1>6. StartGame("FLAPPY_TICK") /\ "FLAPPY_TICK" \in GameTicks
  BY DEF flappy_start, GameTicks
<1> QED BY <1>2, <1>4, <1>5, <1>6, StartsGame

LEMMA StartsPong ==
  ASSUME BadgeInv, running, HostStep, OnGamesMenu \/ OnSnake, pong_start
  PROVE  BadgeInv'
<1>1. /\ "NULL" \in Handlers /\ "on_key1_press" \in Handlers /\ "on_key2_press" \in Handlers
      /\ "on_key1_long" \in Handlers /\ "on_key2_long" \in Handlers
  BY DEF Handlers
<1>2. onePress' \in [Keys' -> Handlers]
  BY <1>1 DEF pong_start, OnOnePress, Bind, BadgeInv, TypeOK, HostStep, Keys
<1>3. Short("on_key1_press", "on_key2_press", "NULL", "NULL")'
  BY DEF pong_start, OnOnePress, Bind, BadgeInv, TypeOK, HostStep, Keys, Short
<1>4. Long("on_key1_long", "on_key2_long")'
      /\ longPress' \in [{"KEY1", "KEY2"} -> Handlers]
  BY <1>1, LongBinds DEF pong_start, BadgeInv
<1>5. OnPong'
  BY <1>3, <1>4 DEF OnPong
<1>6. StartGame("BALL_TICK") /\ "BALL_TICK" \in GameTicks
  BY DEF pong_start, GameTicks
<1> QED BY <1>2, <1>4, <1>5, <1>6, StartsGame

\* The paddles move and the stopwatch is redrawn: the screen stays.
LEMMA RedrawsScreen ==
  ASSUME BadgeInv, running, HostStep, PaddlePress \/ PaddleRun \/ sw_reset
  PROVE  BadgeInv'
<1>1. UNCHANGED <<keys, pending, menus, clocks, host, ble>>
  BY DEF PaddlePress, PaddleRun, sw_reset, tmos
<1>2. timers' = timers \/ timers' = timers \ {"PADDLE"} \/ timers' = timers \cup {"PADDLE"}
  BY DEF PaddlePress, PaddleRun, sw_reset, tmos, Stop, StopStart
<1>3. display' = display \/ display' \in Displays \ {"clock_submenu", "games_submenu", "menu"}
  BY DEF PaddlePress, PaddleRun, sw_reset, Displays
<1>4. timers' \subseteq Events /\ pending' \subseteq Events
  BY <1>1, <1>2, EventNames DEF BadgeInv, TypeOK
<1>5. Ends \cap Expected \subseteq Expected'
  BY <1>1, <1>2 DEF Ends, GameTicks, Expected
<1>6. Clocks \cap timers' = Clocks \cap timers /\ OneAnimation'
  BY <1>2 DEF Clocks, BadgeInv, OneAnimation
<1>7. /\ streaming_enabled' \in BOOLEAN /\ ota_display_active' \in BOOLEAN
      /\ ble' \in {"off", "advertised", "connected"}
  BY <1>1 DEF BadgeInv, TypeOK, host
<1> QED BY <1>1, <1>3, <1>4, <1>5, <1>6, <1>7, StaysOnScreen

\* What any bound handler does.
LEMMA RunsHandler ==
  ASSUME BadgeInv, running, HostStep, NEW h \in Bound, Run(h)
  PROVE  BadgeInv'
<1>1. TypeOK /\ OnScreen
  BY DEF BadgeInv
<1>2. CASE (h = "menu_up" /\ menu_up) \/ (h = "menu_down" /\ menu_down)
  <2>1. OnMenu \/ OnPairing
    BY <1>1, <1>2, MenuKeysBound
  <2> QED BY <1>2, <2>1, MenuMoves
<1>3. CASE h = "menu_select" /\ menu_select
  <2>1. OnMenu \/ OnAnimation \/ OnPairing
           \/ (hw_key_count = 4 /\ menu_cursor = 3 /\ (OnGamesMenu \/ OnSnake))
    BY <1>1, <1>3, MenuKeysBound
  <2>2. OnAnimation => menu_cursor = 0
    BY DEF OnAnimation
  <2>3. CASE SelectAnimation
    <3>1. menu_cursor = 0
      BY <2>3 DEF SelectAnimation
    <3> QED BY <2>1, <2>3, <3>1, SelectsAnimation
  <2>4. CASE SelectBle
    <3>1. menu_cursor = 1
      BY <2>4 DEF SelectBle
    <3> QED BY <2>1, <2>2, <2>4, <3>1, SelectsBle
  <2>5. CASE menu_cursor = 2 /\ enter_clock_submenu({}) /\ UNCHANGED sw_state
    <3>1. OnMenu \/ OnPairing
      BY <2>1, <2>2, <2>5
    <3>2. "STOPWATCH_TICK" \notin timers /\ sw_state = "SW_STOPPED"
      BY <3>1, QuietScreens, ScreensApart
    <3>3. sw_state' = "SW_STOPPED" /\ "STOPWATCH_TICK" \notin timers \ {}
      BY <2>5, <3>2
    <3> QED BY <2>5, <3>3, EntersClockMenu
  <2>6. CASE menu_cursor = 3 /\ enter_games_submenu
    BY <2>1, <2>2, <2>6, EntersGames
  <2> QED BY <1>3, <2>3, <2>4, <2>5, <2>6 DEF menu_select
<1>4. CASE h = "return_to_menu" /\ ToMenu
  <2>1. /\ UNCHANGED menu_cursor /\ pending' \subseteq Events
        /\ streaming_enabled' \in BOOLEAN /\ ota_display_active' \in BOOLEAN
        /\ ble' \in {"off", "advertised", "connected"}
    BY <1>4 DEF ToMenu, BadgeInv, TypeOK, host
  <2>2. return_to_menu({})
    BY <1>4 DEF ToMenu
  <2> QED BY <2>1, <2>2, ReturnToMenu
<1>5. CASE h = "bt_pairing_bypass" /\ bt_pairing_bypass
  <2>1. OnPairing \/ (hw_key_count = 4 /\ OnAnimation)
    BY <1>1, <1>5, MenuKeysBound
  <2> QED BY <1>5, <2>1, BypassesPairing
<1>6. CASE h = "clock_submenu_nav" /\ clock_submenu_nav
  <2>1. OnClockMenu
    BY <1>1, <1>6, ClockKeysBound
  <2> QED BY <1>6, <2>1, MovesInClockMenu
<1>7. CASE h = "clock_submenu_select" /\ (SelectTime \/ SelectStopwatch)
  <2>1. OnClockMenu \/ (hw_key_count = 4 /\ (OnClock \/ OnStopwatch))
    BY <1>1, <1>7, ClockKeysBound
  <2> QED BY <1>7, <2>1, StartsClock, OpensStopwatch
<1>8. CASE h = "enter_clock_submenu" /\ enter_clock_submenu({}) /\ UNCHANGED sw_state
  <2>1. OnClock
    BY <1>1, <1>8, ClockKeysBound
  <2>2. "STOPWATCH_TICK" \notin timers /\ sw_state = "SW_STOPPED"
    BY <2>1, ScreensApart DEF BadgeInv, ClocksTick, TypeOK
  <2>3. sw_state' = "SW_STOPPED" /\ "STOPWATCH_TICK" \notin timers \ {}
    BY <1>8, <2>2
  <2> QED BY <1>8, <2>3, EntersClockMenu
<1>9. CASE h = "sw_startstop" /\ sw_startstop
  <2>1. OnStopwatch
    BY <1>1, <1>9, ClockKeysBound
  <2> QED BY <1>9, <2>1, StartsStopwatch
<1>10. CASE h = "sw_back" /\ sw_back
  <2>1. /\ enter_clock_submenu({"STOPWATCH_TICK"}) /\ sw_state' = "SW_STOPPED"
        /\ "STOPWATCH_TICK" \notin timers \ {"STOPWATCH_TICK"}
    BY <1>10 DEF sw_back
  <2> QED BY <2>1, EntersClockMenu
<1>11. CASE h = "games_submenu_nav" /\ games_submenu_nav
  <2>1. OnGamesMenu
    BY <1>1, <1>11, GameKeysBound
  <2> QED BY <1>11, <2>1, MovesInGamesMenu
<1>12. CASE h = "games_submenu_select" /\ (game_start \/ flappy_start \/ pong_start)
  <2>1. OnGamesMenu \/ OnSnake
    BY <1>1, <1>12, GameKeysBound
  <2> QED BY <1>12, <2>1, StartsSnake, StartsFlappy, StartsPong
<1>13. CASE PaddlePress \/ PaddleRun \/ sw_reset
  BY <1>13, RedrawsScreen
<1> QED BY <1>2, <1>3, <1>4, <1>5, <1>6, <1>7, <1>8, <1>9, <1>10, <1>11, <1>12, <1>13 DEF Run

-----------------------------------------------------------------------------
(* The start, the host, the timers and the tasks.                             *)

\* The keys of the start are those of the menu.
LEMMA MenuOfTheStart ==
  ASSUME NEW h, Keys = {"KEY1", "KEY2"} \cup IF h = 4 THEN {"KEY3", "KEY4"} ELSE {}
  PROVE  /\ MenuPress \in [Keys -> Handlers]
         /\ MenuPress["KEY1"] = "menu_up" /\ MenuPress["KEY2"] = "menu_down"
         /\ h = 4 => /\ MenuPress["KEY3"] = "menu_select"
                     /\ MenuPress["KEY4"] = "return_to_menu"
         /\ MenuLong \in [{"KEY1", "KEY2"} -> Handlers]
         /\ MenuLong["KEY1"] = "menu_select" /\ MenuLong["KEY2"] = "NULL"
<1>1. \A k \in Keys : (CASE k = "KEY1" -> "menu_up"
                         [] k = "KEY2" -> "menu_down"
                         [] k = "KEY3" -> "menu_select"
                         [] k = "KEY4" -> "return_to_menu") \in Handlers
  BY DEF Handlers
<1>2. MenuPress \in [Keys -> Handlers]
  BY <1>1 DEF MenuPress
<1>3. /\ MenuPress["KEY1"] = "menu_up" /\ MenuPress["KEY2"] = "menu_down"
      /\ h = 4 => MenuPress["KEY3"] = "menu_select" /\ MenuPress["KEY4"] = "return_to_menu"
  BY DEF MenuPress
<1>4. /\ MenuLong \in [{"KEY1", "KEY2"} -> Handlers]
      /\ MenuLong["KEY1"] = "menu_select" /\ MenuLong["KEY2"] = "NULL"
  BY DEF MenuLong, Handlers
<1> QED BY <1>2, <1>3, <1>4

LEMMA InitBadge == Init => BadgeInv
<1> SUFFICES ASSUME Init PROVE BadgeInv
  OBVIOUS
<1>1. /\ MenuPress \in [Keys -> Handlers]
      /\ MenuPress["KEY1"] = "menu_up" /\ MenuPress["KEY2"] = "menu_down"
      /\ hw_key_count = 4 => /\ MenuPress["KEY3"] = "menu_select"
                             /\ MenuPress["KEY4"] = "return_to_menu"
      /\ MenuLong \in [{"KEY1", "KEY2"} -> Handlers]
      /\ MenuLong["KEY1"] = "menu_select" /\ MenuLong["KEY2"] = "NULL"
  BY MenuOfTheStart DEF Keys
<1>2. OnMenu
  BY <1>1 DEF Init, OnMenu, Short, Long
<1>3. clock_active = FALSE /\ streaming_enabled = FALSE /\ ota_display_active = FALSE
      /\ running = FALSE
  BY DEF Init
<1>4. TypeOK
  <2>1. /\ hw_key_count \in HW_KEY_COUNTS
        /\ onePress \in [Keys -> Handlers] /\ longPress \in [{"KEY1", "KEY2"} -> Handlers]
    BY <1>1 DEF Init
  <2>2. /\ timers \subseteq Events /\ pending \subseteq Events
        /\ display \in Displays
        /\ menu_cursor \in 0..4 /\ clock_submenu_sel \in 0..1 /\ games_submenu_sel \in 0..2
        /\ sw_state \in {"SW_STOPPED", "SW_RUNNING"}
        /\ ble \in {"off", "advertised", "connected"}
    BY DEF Init, Displays
  <2> QED BY <1>3, <2>1, <2>2 DEF TypeOK
<1>5. ~OnSnake /\ ~OnFlappy /\ ~OnPong
  BY <1>2, ScreensApart
<1> QED BY <1>2, <1>4, <1>5
        DEF Init, BadgeInv, OnScreen, GamesTick, ClocksTick, ListsShown, OneAnimation, Starting

LEMMA BootsBadge ==
  ASSUME BadgeInv, Boot
  PROVE  BadgeInv'
<1>1. UNCHANGED hw_key_count /\ hw_key_count \in HW_KEY_COUNTS
  BY DEF Boot, BadgeInv, TypeOK
<1>2. Init'
  BY <1>1 DEF Boot, Init, MenuPress, Keys
<1>3. (Init => BadgeInv)'
  BY InitBadge, PTL
<1> QED BY <1>2, <1>3

\* The badge starts with the keys of the start.
LEMMA MainStarts ==
  ASSUME BadgeInv, main
  PROVE  BadgeInv'
<1>1. /\ ~running /\ running' = TRUE
      /\ ble' \in {"off", "advertised"} /\ timers' = {} /\ pending' = {} /\ display' = "menu"
      /\ UNCHANGED <<hw_key_count, keys, menus, clocks, host>>
  BY DEF main
<1>2. OnMenu /\ sw_state = "SW_STOPPED"
  BY <1>1 DEF BadgeInv, Starting
<1>3. OnMenu'
  BY <1>1, <1>2, ScreenStays DEF menus, submenus
<1>4. TypeOK'
  BY <1>1 DEF BadgeInv, TypeOK, keys, menus, submenus, clocks, host, Keys, Displays
<1>5. GamesTick'
  <2>1. (OnMenu => ~OnSnake /\ ~OnFlappy /\ ~OnPong)'
    BY ScreensApart, PTL
  <2> QED BY <1>3, <2>1 DEF GamesTick
<1>6. ClocksTick' /\ ListsShown' /\ OneAnimation' /\ Starting'
  BY <1>1, <1>2, <1>3 DEF ClocksTick, ListsShown, OneAnimation, Starting, clocks
<1> QED BY <1>3, <1>4, <1>5, <1>6 DEF BadgeInv, OnScreen

\* An update that ends goes back to the menu; without one nothing happens.
LEMMA UpdateEnds ==
  ASSUME BadgeInv, link_onTerminated \/ OtaFails
  PROVE  BadgeInv'
<1>1. /\ running /\ HostStep /\ disp_ota_cancel
      /\ UNCHANGED <<pending, menu_cursor, streaming_enabled>>
      /\ ble' \in {"advertised", ble}
  BY DEF link_onTerminated, OtaFails, HostStep
<1>2. ota_display_active' = FALSE
  BY <1>1 DEF disp_ota_cancel
<1>3. /\ pending' \subseteq Events /\ streaming_enabled' \in BOOLEAN
      /\ ble' \in {"off", "advertised", "connected"}
  BY <1>1 DEF BadgeInv, TypeOK
<1>4. CASE ota_display_active
  <2>1. return_to_menu({})
    BY <1>1, <1>4 DEF disp_ota_cancel
  <2> QED BY <1>1, <1>2, <1>3, <2>1, ReturnToMenu
<1>5. CASE ~ota_display_active
  <2>1. UNCHANGED <<keys, timers, clocks, display, submenus>>
    BY <1>1, <1>5 DEF disp_ota_cancel
  <2>2. UNCHANGED <<keys, menus, clocks>> /\ display' = display
    BY <1>1, <2>1 DEF menus
  <2>3. /\ timers' \subseteq Events /\ Ends \cap Expected \subseteq Expected'
        /\ Clocks \cap timers' = Clocks \cap timers /\ OneAnimation'
    BY <1>1, <2>1 DEF BadgeInv, TypeOK, Expected, OneAnimation
  <2> QED BY <1>1, <1>2, <1>3, <2>2, <2>3, StaysOnScreen
<1> QED BY <1>4, <1>5

\* What a link, an update that goes on and a stream change: pictures and animations.
LEMMA HostSteps ==
  ASSUME BadgeInv,
         \/ link_onEstablished \/ disp_ota_progress
         \/ StartStreaming \/ resume_from_streaming \/ stream_bitmap
  PROVE  BadgeInv'
<1>1. running /\ HostStep /\ UNCHANGED <<keys, pending, menus>>
  BY DEF link_onEstablished, disp_ota_progress, StartStreaming, resume_from_streaming,
         stream_bitmap, HostStep, tmos
<1>2. ble' \in {"off", "advertised", "connected"}
  BY DEF link_onEstablished, disp_ota_progress, StartStreaming, resume_from_streaming,
         stream_bitmap, BadgeInv, TypeOK
<1>3. streaming_enabled' \in BOOLEAN /\ ota_display_active' \in BOOLEAN
  <2>1. streaming_enabled' = TRUE \/ streaming_enabled' = FALSE
          \/ streaming_enabled' = streaming_enabled
    BY DEF link_onEstablished, disp_ota_progress, StartStreaming, resume_from_streaming,
           stream_bitmap, host
  <2>2. ota_display_active' = TRUE \/ ota_display_active' = ota_display_active
    BY DEF link_onEstablished, disp_ota_progress, StartStreaming, resume_from_streaming,
           stream_bitmap, host
  <2> QED BY <2>1, <2>2 DEF BadgeInv, TypeOK
<1>4. CASE AfterRx({"ANI_NEXT_STEP"}) \/ AfterRx({"BLE_NEXT_STEP"})
  <2>1. pending' \subseteq Events /\ GameTicks \cap pending \subseteq pending'
    BY <1>1 DEF BadgeInv, TypeOK
  <2> QED BY <1>1, <1>2, <1>3, <1>4, <2>1, UploadEnds
<1>5. CASE ~AfterRx({"ANI_NEXT_STEP"}) /\ ~AfterRx({"BLE_NEXT_STEP"})
  <2>1. UNCHANGED clocks
    BY <1>5 DEF link_onEstablished, disp_ota_progress, StartStreaming, resume_from_streaming,
           stream_bitmap, start_normal_animation, start_ble_animation
  <2>2. \/ timers' = timers \/ timers' = timers \ Animations
        \/ timers' = (timers \ {"BLE_NEXT_STEP"}) \cup {"ANI_NEXT_STEP", "ANI_MARQUE"}
        \/ timers' = (timers \ {"ANI_NEXT_STEP", "ANI_MARQUE"}) \cup {"BLE_NEXT_STEP"}
    BY <1>5 DEF link_onEstablished, disp_ota_progress, StartStreaming, resume_from_streaming,
           stream_bitmap, start_normal_animation, start_ble_animation, Stop, StopStart, tmos
  <2>3. display' = display \/ display' \in Displays \ {"clock_submenu", "games_submenu", "menu"}
    BY <1>5 DEF link_onEstablished, disp_ota_progress, StartStreaming, resume_from_streaming,
           stream_bitmap, start_normal_animation, start_ble_animation, Displays
  <2>4. timers' \subseteq Events /\ pending' \subseteq Events
    BY <1>1, <2>2, EventNames DEF BadgeInv, TypeOK
  <2>5. Ends \cap Expected \subseteq Expected' /\ Clocks \cap timers' = Clocks \cap timers
    BY <1>1, <2>2 DEF Ends, GameTicks, Expected, Clocks, Animations
  <2>6. OneAnimation'
    BY <2>2 DEF BadgeInv, OneAnimation, Animations
  <2> QED BY <1>1, <1>2, <1>3, <2>1, <2>3, <2>4, <2>5, <2>6, StaysOnScreen
<1> QED BY <1>4, <1>5

\* An upload that ends between two handlers.
LEMMA AfterUpload ==
  ASSUME BadgeInv, handle_after_rx
  PROVE  BadgeInv'
<1>1. running /\ HostStep /\ AfterRx({}) /\ UNCHANGED <<keys, pending, menus, host, ble>>
  BY DEF handle_after_rx, HostStep
<1>2. /\ streaming_enabled' \in BOOLEAN /\ ota_display_active' \in BOOLEAN
      /\ ble' \in {"off", "advertised", "connected"}
      /\ pending' \subseteq Events /\ GameTicks \cap pending \subseteq pending'
  BY <1>1 DEF BadgeInv, TypeOK, host
<1> QED BY <1>1, <1>2, UploadEnds

\* A timer that expires leaves its event to its task.
LEMMA TimersExpire ==
  ASSUME BadgeInv, NEW e \in Events, TimerExpires(e)
  PROVE  BadgeInv'
<1>1. /\ running /\ HostStep /\ UNCHANGED <<keys, display, menus, clocks, host, ble>>
      /\ pending' = pending \cup {e} /\ e \in timers
  BY DEF TimerExpires, HostStep
<1>2. timers' = timers \/ (timers' = timers \ {e} /\ e \notin Reloading)
  BY DEF TimerExpires, Stop
<1>3. timers' \subseteq Events /\ pending' \subseteq Events
  BY <1>1, <1>2 DEF BadgeInv, TypeOK
<1>4. Ends \cap Expected \subseteq Expected'
  BY <1>1, <1>2 DEF Expected
<1>5. Clocks \cap timers' = Clocks \cap timers /\ OneAnimation'
  BY <1>2 DEF Clocks, Reloading, BadgeInv, OneAnimation
<1>6. /\ streaming_enabled' \in BOOLEAN /\ ota_display_active' \in BOOLEAN
      /\ ble' \in {"off", "advertised", "connected"}
  BY <1>1 DEF BadgeInv, TypeOK, host
<1> QED BY <1>1, <1>3, <1>4, <1>5, <1>6, StaysOnScreen

\* A task that draws, and starts its own timer again or not.
LEMMA TaskDraws ==
  ASSUME BadgeInv, running, HostStep, NEW e \in Events, pending' = pending \ {e},
         \/ timers' = timers /\ e \notin Ends
         \/ timers' = timers \cup {e} /\ e \notin Clocks \cup {"ANI_MARQUE", "BLE_NEXT_STEP"},
         NEW shown, Paints(shown),
         shown \subseteq {display} \cup (Displays \ {"clock_submenu", "games_submenu", "menu"})
  PROVE  BadgeInv'
<1>1. UNCHANGED <<keys, menus, clocks, host, ble>> /\ display' \in shown
  BY DEF Paints
<1>2. display' = display \/ display' \in Displays \ {"clock_submenu", "games_submenu", "menu"}
  BY <1>1
<1>3. timers' \subseteq Events /\ pending' \subseteq Events
  BY DEF BadgeInv, TypeOK
<1>4. Ends \cap Expected \subseteq Expected'
  BY DEF Expected
<1>5. Clocks \cap timers' = Clocks \cap timers /\ OneAnimation'
  BY DEF BadgeInv, OneAnimation
<1>6. /\ streaming_enabled' \in BOOLEAN /\ ota_display_active' \in BOOLEAN
      /\ ble' \in {"off", "advertised", "connected"}
  BY <1>1 DEF BadgeInv, TypeOK, host
<1> QED BY <1>1, <1>2, <1>3, <1>4, <1>5, <1>6, StaysOnScreen

\* The tasks of the animations and the clocks.
LEMMA TasksDraw ==
  ASSUME BadgeInv,
         ANI_NEXT_STEP \/ ANI_MARQUE \/ BLE_NEXT_STEP \/ CLOCK_TICK \/ STOPWATCH_TICK
  PROVE  BadgeInv'
<1>1. running /\ HostStep
  BY DEF ANI_NEXT_STEP, ANI_MARQUE, BLE_NEXT_STEP, CLOCK_TICK, STOPWATCH_TICK, Handles, HostStep
<1>2. "picture" \in Displays \ {"clock_submenu", "games_submenu", "menu"}
      /\ "clock" \in Displays \ {"clock_submenu", "games_submenu", "menu"}
      /\ "stopwatch" \in Displays \ {"clock_submenu", "games_submenu", "menu"}
  BY DEF Displays
<1>3. CASE ANI_NEXT_STEP
  <2>1. pending' = pending \ {"ANI_NEXT_STEP"}
    BY <1>3 DEF ANI_NEXT_STEP, Handles
  <2>2. CASE StopStart({}, {"ANI_NEXT_STEP"}) /\ Paints({"picture"})
    <3>1. timers' = timers \cup {"ANI_NEXT_STEP"} /\ Paints({"picture"})
      BY <2>2 DEF StopStart
    <3>2. "ANI_NEXT_STEP" \notin Clocks \cup {"ANI_MARQUE", "BLE_NEXT_STEP"}
      BY DEF Clocks
    <3> QED BY <1>1, <1>2, <2>1, <3>1, <3>2, EventNames, TaskDraws
  <2>3. CASE AfterRx({"ANI_NEXT_STEP"}) /\ UNCHANGED <<keys, menus, host, ble>>
    <3>1. /\ streaming_enabled' \in BOOLEAN /\ ota_display_active' \in BOOLEAN
          /\ ble' \in {"off", "advertised", "connected"}
          /\ pending' \subseteq Events /\ GameTicks \cap pending \subseteq pending'
      BY <2>1, <2>3 DEF BadgeInv, TypeOK, host, GameTicks
    <3> QED BY <1>1, <2>3, <3>1, UploadEnds
  <2> QED BY <1>3, <2>2, <2>3 DEF ANI_NEXT_STEP
<1>4. CASE ANI_MARQUE
  <2>1. /\ pending' = pending \ {"ANI_MARQUE"} /\ timers' = timers
        /\ Paints({display, "picture"}) /\ "ANI_MARQUE" \notin Ends
    BY <1>4 DEF ANI_MARQUE, Handles, Ends, GameTicks
  <2> QED BY <1>1, <1>2, <2>1, EventNames, TaskDraws
<1>5. CASE BLE_NEXT_STEP
  <2>1. /\ pending' = pending \ {"BLE_NEXT_STEP"} /\ timers' = timers
        /\ Paints({"picture"}) /\ "BLE_NEXT_STEP" \notin Ends
    BY <1>5 DEF BLE_NEXT_STEP, Handles, Ends, GameTicks
  <2> QED BY <1>1, <1>2, <2>1, EventNames, TaskDraws
<1>6. CASE CLOCK_TICK
  <2>1. /\ pending' = pending \ {"CLOCK_TICK"} /\ timers' = timers
        /\ Paints({"clock"}) /\ "CLOCK_TICK" \notin Ends
    BY <1>6 DEF CLOCK_TICK, Handles, Ends, GameTicks
  <2> QED BY <1>1, <1>2, <2>1, EventNames, TaskDraws
<1>7. CASE STOPWATCH_TICK
  <2>1. /\ pending' = pending \ {"STOPWATCH_TICK"} /\ timers' = timers
        /\ Paints({"stopwatch"}) /\ "STOPWATCH_TICK" \notin Ends
    BY <1>7 DEF STOPWATCH_TICK, Handles, Ends, GameTicks
  <2> QED BY <1>1, <1>2, <2>1, EventNames, TaskDraws
<1> QED BY <1>3, <1>4, <1>5, <1>6, <1>7

\* "BLUETOOTH OFF" ends in the menu.
LEMMA BleOffEnds ==
  ASSUME BadgeInv, BLE_OFF_DONE
  PROVE  BadgeInv'
<1>1. /\ running /\ HostStep /\ return_to_menu({})
      /\ UNCHANGED <<menu_cursor, host>>
      /\ pending' = pending \ {"BLE_OFF_DONE"}
  BY DEF BLE_OFF_DONE, Handles, HostStep
<1>2. ble' \in {"off", "advertised", "connected"}
  BY DEF BLE_OFF_DONE, Advertise, BadgeInv, TypeOK
<1>3. /\ pending' \subseteq Events
      /\ streaming_enabled' \in BOOLEAN /\ ota_display_active' \in BOOLEAN
  BY <1>1 DEF BadgeInv, TypeOK, host
<1> QED BY <1>1, <1>2, <1>3, ReturnToMenu

\* A game goes on with its tick, or is over and the menu comes back.
LEMMA GamesGoOn ==
  ASSUME BadgeInv, game_task \/ flappy_task \/ pong_task
  PROVE  BadgeInv'
<1>1. running /\ HostStep
  BY DEF game_task, flappy_task, pong_task, ball_tick, PaddleTick, Handles, HostStep
<1>2. PICK e \in GameTicks \cup {"PADDLE"} : pending' = pending \ {e}
  BY DEF game_task, flappy_task, pong_task, ball_tick, PaddleTick, Handles, GameTicks
<1>3. pending' \subseteq Events
  BY <1>2 DEF BadgeInv, TypeOK
<1>4. ASSUME NEW ticks, GameOver(ticks)
      PROVE  BadgeInv'
  <2>1. return_to_menu(ticks) /\ UNCHANGED <<menu_cursor, host, ble>>
    BY <1>4 DEF GameOver
  <2>2. /\ streaming_enabled' \in BOOLEAN /\ ota_display_active' \in BOOLEAN
        /\ ble' \in {"off", "advertised", "connected"}
    BY <2>1 DEF BadgeInv, TypeOK, host
  <2> QED BY <1>1, <1>3, <2>1, <2>2, ReturnToMenu
<1>5. "game" \in Displays \ {"clock_submenu", "games_submenu", "menu"}
  BY DEF Displays
<1>6. ASSUME NEW tick \in GameTicks, pending' = pending \ {tick}, Playing(tick)
      PROVE  BadgeInv'
  <2>1. timers' = timers \cup {tick} /\ Paints({"game"})
    BY <1>6 DEF Playing, StopStart
  <2>2. tick \in Events /\ tick \notin Clocks \cup {"ANI_MARQUE", "BLE_NEXT_STEP"}
    BY <1>6, EventNames DEF GameTicks, Clocks
  <2> QED BY <1>1, <1>5, <1>6, <2>1, <2>2, TaskDraws
<1>7. CASE game_task
  <2>1. /\ pending' = pending \ {"SNAKE_TICK"} /\ "SNAKE_TICK" \in GameTicks
        /\ Playing("SNAKE_TICK") \/ GameOver({"SNAKE_TICK"})
    BY <1>7 DEF game_task, Handles, GameTicks
  <2> QED BY <1>4, <1>6, <2>1
<1>8. CASE flappy_task
  <2>1. /\ pending' = pending \ {"FLAPPY_TICK"} /\ "FLAPPY_TICK" \in GameTicks
        /\ Playing("FLAPPY_TICK") \/ GameOver({"FLAPPY_TICK"})
    BY <1>8 DEF flappy_task, Handles, GameTicks
  <2> QED BY <1>4, <1>6, <2>1
<1>9. CASE ball_tick
  <2>1. /\ pending' = pending \ {"BALL_TICK"} /\ "BALL_TICK" \in GameTicks
        /\ Playing("BALL_TICK") \/ GameOver(InSeq(PongEvents))
    BY <1>9 DEF ball_tick, Handles, GameTicks
  <2> QED BY <1>4, <1>6, <2>1
<1>10. CASE PaddleTick
  <2>1. /\ pending' = pending \ {"PADDLE"}
        /\ timers' = timers \/ timers' = timers \cup {"PADDLE"}
        /\ Paints({"game"})
    BY <1>10 DEF PaddleTick, Handles, StopStart
  <2>2. /\ "PADDLE" \notin Ends
        /\ "PADDLE" \notin Clocks \cup {"ANI_MARQUE", "BLE_NEXT_STEP"}
    BY DEF Ends, GameTicks, Clocks
  <2> QED BY <1>1, <1>5, <2>1, <2>2, EventNames, TaskDraws
<1> QED BY <1>7, <1>8, <1>9, <1>10 DEF pong_task

\* A key runs what is bound to it, or powers the badge off.
LEMMA KeysPress ==
  ASSUME BadgeInv, KeysWhileCharging = FALSE, btn_tick \/ auxbtn_tick
  PROVE  BadgeInv'
<1>1. PICK h \in Bound : Press(h)
  <2>1. CASE btn_tick
    <3>1. PICK k \in {"KEY1", "KEY2"} : Press(onePress[k]) \/ Press(longPress[k])
      BY <2>1 DEF btn_tick
    <3>2. onePress[k] \in Bound /\ longPress[k] \in Bound
      BY DEF Bound, Keys
    <3> QED BY <3>1, <3>2
  <2>2. CASE auxbtn_tick
    <3>1. PICK k \in Keys \ {"KEY1", "KEY2"} : Press(onePress[k])
      BY <2>2 DEF auxbtn_tick
    <3>2. onePress[k] \in Bound
      BY DEF Bound
    <3> QED BY <3>1, <3>2
  <2> QED BY <2>1, <2>2
<1>2. running
  BY <1>1 DEF Press
<1>3. CASE Run(h) /\ UNCHANGED <<hw_key_count, running>>
  <2>1. HostStep
    BY <1>2, <1>3 DEF HostStep
  <2> QED BY <1>2, <1>3, <2>1, RunsHandler
<1>4. CASE Boot
  BY <1>4, BootsBadge
<1> QED BY <1>1, <1>3, <1>4 DEF Press

\* The invariant is kept by every step of the badge.
LEMMA StepBadge ==
  ASSUME BadgeInv, KeysWhileCharging = FALSE, [Next]_vars
  PROVE  BadgeInv'
<1>1. CASE main
  BY <1>1, MainStarts
<1>2. CASE Reset
  BY <1>2, BootsBadge DEF Reset
<1>3. CASE btn_tick \/ auxbtn_tick
  BY <1>3, KeysPress
<1>4. CASE link_onTerminated \/ OtaFails
  BY <1>4, UpdateEnds
<1>5. CASE \/ link_onEstablished \/ disp_ota_progress
           \/ StartStreaming \/ resume_from_streaming \/ stream_bitmap
  BY <1>5, HostSteps
<1>6. CASE handle_after_rx
  BY <1>6, AfterUpload
<1>7. CASE \E e \in Events : TimerExpires(e)
  BY <1>7, TimersExpire
<1>8. CASE common_tasks
  BY <1>8, TasksDraw, BleOffEnds DEF common_tasks
<1>9. CASE game_task \/ flappy_task \/ pong_task
  BY <1>9, GamesGoOn
<1>10. CASE UNCHANGED vars
  <2>1. UNCHANGED <<hw_key_count, running, onePress, longPress, timers, pending, display,
                    menu_cursor, clock_submenu_sel, games_submenu_sel, clock_active, sw_state,
                    streaming_enabled, ota_display_active, ble>>
    BY <1>10 DEF vars, keys, tmos, menus, submenus, clocks, host
  <2>2. TypeOK'
    BY <2>1 DEF BadgeInv, TypeOK, Keys
  <2>3. OnScreen' /\ GamesTick' /\ ClocksTick' /\ ListsShown' /\ Starting'
    BY <2>1, ScreenStays
       DEF BadgeInv, OnScreen, GamesTick, ClocksTick, ListsShown, Starting, Expected, keys
  <2>4. OneAnimation'
    BY <2>1 DEF BadgeInv, OneAnimation
  <2> QED BY <2>2, <2>3, <2>4 DEF BadgeInv
<1> QED BY <1>1, <1>2, <1>3, <1>4, <1>5, <1>6, <1>7, <1>8, <1>9, <1>10 DEF Next

-----------------------------------------------------------------------------
\* What the invariant says of the keys: every screen has a way out.
LEMMA InvGivesKeys == BadgeInv => KeysMatchScreen
<1> SUFFICES ASSUME BadgeInv PROVE KeysMatchScreen
  OBVIOUS
<1>1. /\ hw_key_count \in {2, 4}
      /\ Bound = {longPress["KEY1"], longPress["KEY2"], onePress["KEY1"], onePress["KEY2"]}
                 \cup (IF hw_key_count = 4 THEN {onePress["KEY3"], onePress["KEY4"]} ELSE {})
  BY BoundKeys DEF BadgeInv
<1>2. ListKeys
  <2> SUFFICES ASSUME Expected = {} PROVE
        /\ display = "clock_submenu" => Select = "clock_submenu_select"
        /\ display = "games_submenu" => Select = "games_submenu_select"
        /\ display = "menu" => Select = "menu_select" \/ longPress["KEY2"] = "return_to_menu"
    BY DEF ListKeys
  <2>1. "CLOCK_TICK" \notin timers
    BY DEF Expected
  <2>2. display = "clock_submenu" => OnClockMenu
    BY <2>1 DEF BadgeInv, ListsShown
  <2>3. display = "games_submenu" => OnGamesMenu
    BY DEF BadgeInv, ListsShown
  <2>4. display = "menu" => OnMenu \/ OnAnimation \/ OnPairing
    BY DEF BadgeInv, ListsShown
  <2>5. OnClockMenu => Select = "clock_submenu_select"
    BY DEF OnClockMenu, Short, Long, Select
  <2>6. OnGamesMenu => Select = "games_submenu_select"
    BY DEF OnGamesMenu, LongFromMenu, Short, Long, Select
  <2>7. OnMenu => Select = "menu_select"
    BY DEF OnMenu, Short, Long, Select
  <2>8. OnAnimation \/ OnPairing => longPress["KEY2"] = "return_to_menu"
    BY DEF OnAnimation, OnPairing, Long
  <2> QED BY <2>2, <2>3, <2>4, <2>5, <2>6, <2>7, <2>8
<1>3. WayBack
  <2>1. \/ OnSnake \/ OnFlappy \/ OnPong
        \/ Bound \cap {"menu_select", "return_to_menu", "enter_clock_submenu", "sw_back"} # {}
    <3>1. OnMenu \/ OnAnimation \/ OnPairing \/ OnClockMenu \/ OnGamesMenu
            => "menu_select" \in Bound \/ "return_to_menu" \in Bound
      BY <1>1 DEF OnMenu, OnAnimation, OnPairing, OnClockMenu, OnGamesMenu, LongFromMenu,
                  Short, Long
    <3>2. OnClock \/ OnStopwatch => "enter_clock_submenu" \in Bound \/ "sw_back" \in Bound
      BY <1>1 DEF OnClock, OnStopwatch, Long
    <3> QED BY <3>1, <3>2 DEF BadgeInv, OnScreen
  <2>2. OnSnake \/ OnFlappy \/ OnPong => Expected \cap (GameTicks \cup {"BLE_OFF_DONE"}) # {}
    BY DEF BadgeInv, GamesTick, GameTicks
  <2> QED BY <2>1, <2>2 DEF WayBack
<1> QED BY <1>2, <1>3 DEF BadgeInv, KeysMatchScreen

\* What it says of the timers.
LEMMA InvGivesTimers == BadgeInv => TimersMatchScreen
<1> SUFFICES ASSUME BadgeInv PROVE TimersMatchScreen
  OBVIOUS
<1>1. GameGoesOn
  BY GameKeysBound DEF BadgeInv, GamesTick, GameGoesOn
<1>2. ClockTicks
  BY ScreensApart DEF BadgeInv, ClocksTick, ClockTicks
<1>3. StopwatchTicks
  BY DEF BadgeInv, ClocksTick, StopwatchTicks
<1> QED BY <1>1, <1>2, <1>3 DEF BadgeInv, TimersMatchScreen

\* While no key is pressed on the charger, the invariant always holds.
LEMMA BadgeInvHolds ==
  ASSUME KeysWhileCharging = FALSE
  PROVE  Spec => []BadgeInv
<1>1. Init => BadgeInv
  BY InitBadge
<1>2. BadgeInv /\ [Next]_vars => BadgeInv'
  BY StepBadge
<1> QED BY <1>1, <1>2, PTL DEF Spec

\* The keys of a badge that is not pressed while it charges always do what its screen
\* shows, and lead out of it (main.c:500-860).
THEOREM KeysMatchScreenHolds ==
  ASSUME KeysWhileCharging = FALSE
  PROVE  Spec => []KeysMatchScreen
<1>1. Spec => []BadgeInv
  BY BadgeInvHolds
<1> QED BY <1>1, InvGivesKeys, PTL

\* Its timers fit the screen: a game whose keys are bound ticks, the two animations never
\* both draw, and a clock or a stopwatch that was left does not tick, or only until
\* "BLUETOOTH OFF" ends when an upload over USB ended within its handler.
THEOREM TimersMatchScreenHolds ==
  ASSUME KeysWhileCharging = FALSE
  PROVE  Spec => []TimersMatchScreen
<1>1. Spec => []BadgeInv
  BY BadgeInvHolds
<1> QED BY <1>1, InvGivesTimers, PTL

\* A badge that still waits on the charger shows no update.
UpdatingInv == UpdateNeedsLink /\ (ota_display_active => running)

\* "UPDATING" is shown only to a connected host, on every build and with any keys.
THEOREM UpdateNeedsLinkHolds == Spec => []UpdateNeedsLink
<1>1. Init => UpdatingInv
  BY DEF Init, UpdatingInv, UpdateNeedsLink
<1>2. UpdatingInv /\ [Next]_vars => UpdatingInv'
  <2> SUFFICES ASSUME UpdatingInv, [Next]_vars PROVE UpdatingInv'
    OBVIOUS
  <2>1. ASSUME Boot PROVE UpdatingInv'
    BY <2>1 DEF Boot, UpdatingInv, UpdateNeedsLink
  <2>2. ASSUME NEW h, Run(h), UNCHANGED running PROVE UpdatingInv'
    <3>1. UNCHANGED <<ota_display_active, ble>> \/ SelectBle
      BY <2>2 DEF Run, menu_up, menu_down, MenuMove, menu_select, SelectAnimation, ToMenu,
         bt_pairing_bypass, clock_submenu_nav, SelectTime, SelectStopwatch,
         enter_clock_submenu, sw_startstop, sw_reset, sw_back, games_submenu_nav,
         game_start, flappy_start, pong_start, StartGame, enter_games_submenu,
         PaddlePress, PaddleRun, host
    <3>2. SelectBle => ota_display_active' = ota_display_active
                       /\ (ble = "connected" => ble' = "connected")
      BY DEF SelectBle, Advertise, host
    <3> QED BY <2>2, <3>1, <3>2 DEF UpdatingInv, UpdateNeedsLink
  <2>3. ASSUME NEW h, Press(h) PROVE UpdatingInv'
    BY <2>1, <2>2, <2>3 DEF Press
  <2>4. CASE main
    BY <2>4 DEF main, UpdatingInv, UpdateNeedsLink, host
  <2>5. CASE Reset
    BY <2>1, <2>5 DEF Reset
  <2>6. CASE btn_tick \/ auxbtn_tick
    BY <2>3, <2>6 DEF btn_tick, auxbtn_tick
  <2>7. CASE link_onEstablished \/ link_onTerminated \/ disp_ota_progress \/ OtaFails
    BY <2>7 DEF HostStep, link_onEstablished, link_onTerminated, disp_ota_progress, OtaFails,
       disp_ota_cancel, UpdatingInv, UpdateNeedsLink, host
  <2>8. CASE StartStreaming \/ resume_from_streaming \/ stream_bitmap \/ handle_after_rx
    BY <2>8 DEF HostStep, StartStreaming, resume_from_streaming, stream_bitmap, handle_after_rx,
       UpdatingInv, UpdateNeedsLink, host
  <2>9. CASE \E e \in Events : TimerExpires(e)
    BY <2>9 DEF HostStep, TimerExpires, UpdatingInv, UpdateNeedsLink, host
  <2>10. CASE common_tasks
    <3>1. /\ UNCHANGED <<ota_display_active, running>>
          /\ ble = "connected" => ble' = "connected"
      BY <2>10 DEF HostStep, Handles, common_tasks, ANI_NEXT_STEP, ANI_MARQUE,
         BLE_NEXT_STEP, CLOCK_TICK, STOPWATCH_TICK, BLE_OFF_DONE, Advertise, Paints, host
    <3> QED BY <3>1 DEF UpdatingInv, UpdateNeedsLink
  <2>11. CASE game_task \/ flappy_task \/ pong_task
    BY <2>11 DEF HostStep, Handles, game_task, flappy_task, pong_task, ball_tick, PaddleTick,
       Playing, GameOver, Paints, UpdatingInv, UpdateNeedsLink, host
  <2>12. CASE UNCHANGED vars
    BY <2>12 DEF vars, UpdatingInv, UpdateNeedsLink, host
  <2> QED BY <2>4, <2>5, <2>6, <2>7, <2>8, <2>9, <2>10, <2>11, <2>12 DEF Next
<1>3. UpdatingInv => UpdateNeedsLink
  BY DEF UpdatingInv
<1> QED BY <1>1, <1>2, <1>3, PTL DEF Spec
=============================================================================
