------------------------------- MODULE Snake -------------------------------
(***************************************************************************)
(* The snake (src/game.c).  A tick moves it by one cell and draws only     *)
(* what changed; the keys turn it in between.  The score shown at the end, *)
(* the high score and the way back to the menu are not repeated here.      *)
(***************************************************************************)
EXTENDS FrameBuffer, Sequences

CONSTANTS
  SnakeCols, SnakeRows,   \* the board, LED_COLS and LED_ROWS
  SNAKE_MAX_LEN,
  SPEED_INITIAL_MS, SPEED_MIN_MS, SPEED_STEP_MS,
  SnakeLeftover           \* what other screens leave in fb

ASSUME SnakeAssumption ==
  /\ SnakeCols \in Nat \ {0} /\ SnakeRows \in Nat \ {0}
  /\ SNAKE_MAX_LEN \in Nat \ {0} /\ SNAKE_MAX_LEN < SnakeCols * SnakeRows
  /\ {SPEED_INITIAL_MS, SPEED_MIN_MS, SPEED_STEP_MS} \subseteq Nat
  /\ SPEED_STEP_MS <= SPEED_MIN_MS

VARIABLES
  snake,              \* the cells, head first; <<>> while no game is played
  food,
  cur_dir, next_dir,
  speed_ms, odd,      \* odd: the score is
  dark                \* cells of the snake that its head has eaten in, or
                      \* started from

heading == <<cur_dir, next_dir>>
pace == <<speed_ms, odd>>
snakeVars == <<snake, food, heading, pace, dark>>

SnakeBoard == Box(SnakeCols, SnakeRows)
DIR_UP == 0
DIR_RIGHT == 1
DIR_DOWN == 2
DIR_LEFT == 3
Direction == 0..3
Start == <<SnakeCols \div 2, SnakeRows \div 2>>

Playing == snake # <<>>
Body == {snake[i] : i \in DOMAIN snake}

snakeRests ==
  /\ snake = <<>> /\ food = Start
  /\ cur_dir = DIR_RIGHT /\ next_dir = DIR_RIGHT
  /\ speed_ms = SPEED_INITIAL_MS /\ odd = FALSE
  /\ dark = {}

snakeInit == snakeRests /\ fb = SnakeLeftover

-----------------------------------------------------------------------------
\* Walls, and the cells of the snake behind its head.
check_collision(s, cell) ==
  \/ cell \notin SnakeBoard
  \/ \E i \in 2..Len(s) : s[i] = cell

\* generate_food: a free cell, or that of the head.
FoodFor(s) == {cell \in SnakeBoard : ~check_collision(s, cell)}

\* Fault: fb is not cleared.
game_start_OverOld ==
  /\ ~Playing
  /\ snake' = <<Start>>
  /\ cur_dir' = DIR_RIGHT /\ next_dir' = DIR_RIGHT
  /\ speed_ms' = SPEED_INITIAL_MS /\ odd' = FALSE
  /\ food' \in FoodFor(snake')
  /\ fb' = Drawn(fb, {food'}, SnakeBoard)
  /\ dark' = {Start}

\* The head is not drawn before it moves.
game_start ==
  /\ ~Playing
  /\ snake' = <<Start>>
  /\ cur_dir' = DIR_RIGHT /\ next_dir' = DIR_RIGHT
  /\ speed_ms' = SPEED_INITIAL_MS /\ odd' = FALSE
  /\ food' \in FoodFor(snake')
  /\ fb' = Drawn({}, {food'}, SnakeBoard)
  /\ dark' = {Start}

on_turn_left ==
  /\ Playing
  /\ next_dir' = (cur_dir + 3) % 4
  /\ UNCHANGED <<fb, snake, food, cur_dir, pace, dark>>

on_turn_right ==
  /\ Playing
  /\ next_dir' = (cur_dir + 1) % 4
  /\ UNCHANGED <<fb, snake, food, cur_dir, pace, dark>>

-----------------------------------------------------------------------------
\* A turn is not taken when it is a reversal.
Committed == IF next_dir # (cur_dir + 2) % 4 THEN next_dir ELSE cur_dir

NewHead ==
  LET x == snake[1][1]
      y == snake[1][2]
  IN CASE Committed = DIR_UP -> <<x, y - 1>>
       [] Committed = DIR_DOWN -> <<x, y + 1>>
       [] Committed = DIR_LEFT -> <<x - 1, y>>
       [] OTHER -> <<x + 1, y>>

OldTail == snake[Len(snake)]
Ate == NewHead = food
Shifted == [i \in 1..Len(snake) |-> IF i = 1 THEN NewHead ELSE snake[i - 1]]

\* Fault: the cell to grow by is read after the snake has moved.
Grown_AfterShift == Append(Shifted, Shifted[Len(snake)])

Grown == Append(Shifted, OldTail)

\* Fault: the array is taken to be endless.
Moved_NoLimit == IF Ate THEN Grown ELSE Shifted

\* A snake of the greatest length does not grow, and its old tail stays drawn.
Moved == IF Ate /\ Len(snake) < SNAKE_MAX_LEN THEN Grown ELSE Shifted

TailErased == IF Ate THEN fb ELSE Erased(fb, {OldTail})

\* Eating erases the pixel of the food, which is that of the head.
Redrawn ==
  LET drawn == Drawn(TailErased, {NewHead}, SnakeBoard)
  IN IF Ate THEN Erased(drawn, {food}) ELSE drawn

\* move_snake after a free cell was found ahead, and game_task after it.
SnakeMoves ==
  /\ cur_dir' = Committed /\ UNCHANGED next_dir
  /\ snake' = Moved
  /\ IF Ate THEN food' \in FoodFor(Moved) ELSE food' = food
  /\ odd' = (odd # Ate)
  /\ speed_ms' = IF Ate /\ odd /\ speed_ms > SPEED_MIN_MS THEN speed_ms - SPEED_STEP_MS
                 ELSE speed_ms
  /\ fb' = Drawn(Redrawn, {food'}, SnakeBoard)
  /\ dark' = IF Ate THEN (dark \cup {NewHead}) \cap {Moved[i] : i \in DOMAIN Moved}
             ELSE dark \ {OldTail}

game_exit ==
  /\ snake' = <<>> /\ food' = Start
  /\ cur_dir' = DIR_RIGHT /\ next_dir' = DIR_RIGHT
  /\ speed_ms' = SPEED_INITIAL_MS /\ odd' = FALSE
  /\ dark' = {}
  /\ fb' = SnakeLeftover

game_task ==
  /\ Playing
  /\ IF check_collision(snake, NewHead) THEN game_exit ELSE SnakeMoves

snakeNext == game_start \/ on_turn_left \/ on_turn_right \/ game_task

snakeSpec == snakeInit /\ [][snakeNext]_<<fb, snakeVars>>

-----------------------------------------------------------------------------
(* Properties.                                                             *)

\* Type correctness; the index of the array never passes its end.
SnakeTypeOK ==
  /\ snake \in Seq(SnakeBoard) /\ Len(snake) <= SNAKE_MAX_LEN
  /\ food \in SnakeBoard
  /\ cur_dir \in Direction /\ next_dir \in Direction
  /\ speed_ms \in Nat /\ odd \in BOOLEAN
  /\ dark \subseteq SnakeBoard

Neighbours(a, b) ==
  \/ a[1] = b[1] /\ (a[2] = b[2] + 1 \/ b[2] = a[2] + 1)
  \/ a[2] = b[2] /\ (a[1] = b[1] + 1 \/ b[1] = a[1] + 1)

\* The snake is one connected line that never crosses itself, however fast the keys
\* turn it between two ticks and wherever it eats.
SnakeIntact ==
  /\ \A i, j \in DOMAIN snake : i # j => snake[i] # snake[j]
  /\ \A i \in 1..Len(snake) - 1 : Neighbours(snake[i], snake[i + 1])

(* What is drawn piece by piece is the snake and the food, nothing that other *)
(* screens or earlier positions left: only the cells it ate in stay dark      *)
(* until its tail has passed them.  At the greatest length eating leaves the  *)
(* old tail on the display.                                                   *)
SnakePicture ==
  Playing /\ Len(snake) < SNAKE_MAX_LEN => fb = (Body \ dark) \cup {food}

\* The snake lies on the board as it is drawn, and as one line.
SnakeSafe == SnakeTypeOK /\ SnakeIntact /\ SnakePicture

=============================================================================
