-------------------------------- MODULE Pong --------------------------------
(***************************************************************************)
(* Pong against the badge (src/pong.c).  Every tick of the ball moves the  *)
(* ball and then the badge's paddle; the keys, and the timers that repeat  *)
(* a held key, move the player's paddle at any time in between.            *)
(***************************************************************************)
EXTENDS FrameBuffer

CONSTANTS
  PongCols, PongRows,         \* LED_COLS and LED_ROWS
  BALL_TICK_INIT_MS, BALL_TICK_MIN_MS,
  PongLeftover

PADDLE_LEN == 3
BALL_ACCEL_HITS == 4
BALL_ACCEL_STEP_MS == 8

ASSUME PongAssumption ==
  /\ PongCols \in Nat /\ PongCols >= 4
  /\ PongRows \in Nat /\ PongRows >= PADDLE_LEN
  /\ BALL_TICK_MIN_MS \in Nat /\ BALL_TICK_INIT_MS \in Nat
  /\ BALL_TICK_MIN_MS <= BALL_TICK_INIT_MS
  /\ (BALL_TICK_INIT_MS - BALL_TICK_MIN_MS) % BALL_ACCEL_STEP_MS = 0

VARIABLES
  ball_x, ball_y, ball_dx, ball_dy,
  ball_ms,
  hit_count,        \* modulo BALL_ACCEL_HITS
  player_y, cpu_y,
  rally,            \* a game is played
  served,           \* the ball_dx it started with
  winner            \* of the last game

ball == <<ball_x, ball_y, ball_dx, ball_dy>>
tempo == <<ball_ms, hit_count>>
paddles == <<player_y, cpu_y>>
pongVars == <<ball, tempo, paddles, rally, served, winner>>

PongBoard == Box(PongCols, PongRows)
COL_PLAYER_PADDLE == PongCols - 1
COL_CPU_PADDLE == 0
COL_BALL_SPAWN == PongCols \div 2
Middle == (PongRows - PADDLE_LEN) \div 2

Paddle(col, top) == {col} \X (top..top + PADDLE_LEN - 1)
Meets(y, top) == y >= top /\ y < top + PADDLE_LEN

pongRests ==
  /\ ball_x = COL_BALL_SPAWN /\ ball_y = PongRows \div 2
  /\ ball_dx = 1 /\ ball_dy = 1
  /\ ball_ms = BALL_TICK_INIT_MS /\ hit_count = 0
  /\ player_y = Middle /\ cpu_y = Middle
  /\ rally = FALSE /\ served = 1 /\ winner = "nobody"

pongInit == pongRests /\ fb = PongLeftover

pong_start ==
  /\ ~rally /\ rally' = TRUE
  /\ ball_x' = COL_BALL_SPAWN /\ ball_y' = PongRows \div 2
  /\ ball_dx' \in {1, -1} /\ ball_dy' \in {1, -1}
  /\ ball_ms' = BALL_TICK_INIT_MS /\ hit_count' = 0
  /\ player_y' = Middle /\ cpu_y' = Middle
  /\ served' = ball_dx'
  /\ fb' = Drawn({}, Paddle(COL_CPU_PADDLE, Middle) \cup Paddle(COL_PLAYER_PADDLE, Middle)
                       \cup {<<ball_x', ball_y'>>}, PongBoard)
  /\ UNCHANGED winner

-----------------------------------------------------------------------------
(* The player's paddle: on_key1_press, on_key2_press, or the timer of a held *)
(* key.                                                                      *)

PlayerMoves(to) ==
  /\ player_y' = to
  /\ fb' = Drawn(Erased(fb, Paddle(COL_PLAYER_PADDLE, player_y)),
                 Paddle(COL_PLAYER_PADDLE, to), PongBoard)
  /\ UNCHANGED <<ball, tempo, cpu_y, rally, served, winner>>

move_paddle_up == rally /\ player_y > 0 /\ PlayerMoves(player_y - 1)

\* Fault: the paddle is stopped one row too late.
move_paddle_down_OffByOne ==
  rally /\ player_y + PADDLE_LEN <= PongRows /\ PlayerMoves(player_y + 1)

move_paddle_down == rally /\ player_y + PADDLE_LEN < PongRows /\ PlayerMoves(player_y + 1)

-----------------------------------------------------------------------------
(* The ball.                                                               *)

\* A wall sends the ball back from the outermost row.
BouncedY(y) == IF y < 0 THEN 0 ELSE IF y >= PongRows THEN PongRows - 1 ELSE y
BouncedDy(y) == IF y < 0 THEN 1 ELSE IF y >= PongRows THEN -1 ELSE ball_dy

\* Fault: the paddle keeps to every second tick.
cpu_move_Lazy(y, dx) ==
  LET center == cpu_y + PADDLE_LEN \div 2
  IN CASE dx < 0 /\ y < center /\ cpu_y > 0 /\ ball_x % 2 = 0 -> cpu_y - 1
       [] dx < 0 /\ y > center /\ cpu_y + PADDLE_LEN < PongRows /\ ball_x % 2 = 0 -> cpu_y + 1
       [] OTHER -> cpu_y

\* At most one row in a tick, and only while the ball comes.
cpu_move(y, dx) ==
  LET center == cpu_y + PADDLE_LEN \div 2
  IN CASE dx < 0 /\ y < center /\ cpu_y > 0 -> cpu_y - 1
       [] dx < 0 /\ y > center /\ cpu_y + PADDLE_LEN < PongRows -> cpu_y + 1
       [] OTHER -> cpu_y

\* Fault: the hits of both paddles make the ball faster.
Accelerates_Both(by) == (hit_count + 1) % BALL_ACCEL_HITS = 0

\* Every fourth hit, when it is the player's.
Accelerates(by) == by = "player" /\ (hit_count + 1) % BALL_ACCEL_HITS = 0

\* The ball flies on from column x and row y, and cpu_move follows it.  cpu_move redraws
\* the badge's paddle only when it moves: one that stays is drawn already.
BallAt(x, y, dx) ==
  /\ ball_x' = x /\ ball_y' = y
  /\ ball_dx' = dx /\ ball_dy' = BouncedDy(ball_y + ball_dy)
  /\ cpu_y' = cpu_move(y, dx)
  /\ fb' = Drawn(Drawn(Erased(Erased(fb, {<<ball_x, ball_y>>}), Paddle(COL_CPU_PADDLE, cpu_y)),
                       Paddle(COL_CPU_PADDLE, cpu_y'), PongBoard),
                 {<<x, y>>}, PongBoard)
  /\ UNCHANGED <<player_y, rally, served, winner>>

\* Fault: the ball turns in the column of the paddle, and erases a pixel of it.
Returned_InPaddle(by, y) ==
  /\ IF by = "player" THEN BallAt(COL_PLAYER_PADDLE, y, -1) ELSE BallAt(COL_CPU_PADDLE, y, 1)
  /\ hit_count' = (hit_count + 1) % BALL_ACCEL_HITS
  /\ ball_ms' = IF Accelerates(by) /\ ball_ms > BALL_TICK_MIN_MS
                THEN ball_ms - BALL_ACCEL_STEP_MS ELSE ball_ms

Returned(by, y) ==
  /\ IF by = "player" THEN BallAt(COL_PLAYER_PADDLE - 1, y, -1) ELSE BallAt(COL_CPU_PADDLE + 1, y, 1)
  /\ hit_count' = (hit_count + 1) % BALL_ACCEL_HITS
  /\ ball_ms' = IF Accelerates(by) /\ ball_ms > BALL_TICK_MIN_MS
                THEN ball_ms - BALL_ACCEL_STEP_MS ELSE ball_ms

pong_exit(won) ==
  /\ ball_x' = COL_BALL_SPAWN /\ ball_y' = PongRows \div 2
  /\ ball_dx' = 1 /\ ball_dy' = 1
  /\ ball_ms' = BALL_TICK_INIT_MS /\ hit_count' = 0
  /\ player_y' = Middle /\ cpu_y' = Middle
  /\ rally' = FALSE /\ served' = 1 /\ winner' = won
  /\ fb' = PongLeftover

ball_tick ==
  LET x == ball_x + ball_dx
      y == BouncedY(ball_y + ball_dy)
  IN
  /\ rally
  /\ IF COL_CPU_PADDLE < x /\ x < COL_PLAYER_PADDLE
     THEN BallAt(x, y, ball_dx) /\ UNCHANGED tempo
     ELSE LET by == IF x >= COL_PLAYER_PADDLE THEN "player" ELSE "badge"
              other == IF by = "player" THEN "badge" ELSE "player"
              top == IF by = "player" THEN player_y ELSE cpu_y
          IN IF Meets(y, top) THEN Returned(by, y) ELSE pong_exit(other)

pongNext == pong_start \/ move_paddle_up \/ move_paddle_down \/ ball_tick

pongSpec == pongInit /\ [][pongNext]_<<fb, pongVars>>

-----------------------------------------------------------------------------
(* Properties.                                                             *)

\* Type correctness: the ball stays between the paddles and the paddles on the board.
PongTypeOK ==
  /\ ball_x \in COL_CPU_PADDLE + 1..COL_PLAYER_PADDLE - 1 /\ ball_y \in 0..PongRows - 1
  /\ ball_dx \in {1, -1} /\ ball_dy \in {1, -1}
  /\ ball_ms \in BALL_TICK_MIN_MS..BALL_TICK_INIT_MS
  /\ hit_count \in 0..BALL_ACCEL_HITS - 1
  /\ player_y \in 0..PongRows - PADDLE_LEN /\ cpu_y \in 0..PongRows - PADDLE_LEN
  /\ rally \in BOOLEAN /\ served \in {1, -1} /\ winner \in {"nobody", "badge", "player"}

\* The ball and both paddles are drawn whole and nothing else is, though the ball, the
\* badge and the player redraw their parts in any order.
PongPicture ==
  rally => fb = Paddle(COL_CPU_PADDLE, cpu_y) \cup Paddle(COL_PLAYER_PADDLE, player_y)
                  \cup {<<ball_x, ball_y>>}

(* The badge's paddle moves with the ticks of the ball, so it does not get    *)
(* slower when the ball gets faster: the badge never misses, and the player   *)
(* cannot win, though pong.c:106 means the badge to be beatable.              *)
BadgeNeverMisses == winner # "player"

(* The hits of the two alternate and every fourth counts only when it is the  *)
(* player's: a ball served to the player, whose hits are then the odd ones,   *)
(* never gets faster.  pong.c says otherwise: see AcceleratesEveryN.          *)
ServedToPlayerNeverFaster == served = 1 => ball_ms = BALL_TICK_INIT_MS

\* The rally is drawn as it is played, and played as the two sides' moves allow.
PongSafe == PongTypeOK /\ PongPicture /\ BadgeNeverMisses /\ ServedToPlayerNeverFaster

\* pong.c:19 and 152 say of BALL_ACCEL_HITS that the ball speeds up every N paddle hits.
\* It does not when the hit is the badge's.
AcceleratesEveryN ==
  [][rally /\ rally' /\ hit_count = BALL_ACCEL_HITS - 1 /\ hit_count' = 0
       /\ ball_ms > BALL_TICK_MIN_MS
       => ball_ms' = ball_ms - BALL_ACCEL_STEP_MS]_<<fb, pongVars>>

=============================================================================
