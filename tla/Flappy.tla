------------------------------- MODULE Flappy -------------------------------
(***************************************************************************)
(* The bird between the pipes (src/flappy.c).  One tick moves the bird and *)
(* then one pipe after the other, and redraws each in the place it has.    *)
(***************************************************************************)
EXTENDS FrameBuffer, Sequences

CONSTANTS
  FlappyCols, FlappyRows,     \* LED_COLS and LED_ROWS
  PIPE_SPACING,
  Gaps,                       \* the gaps that random_gap may give
  TICK_INIT_MS, TICK_MIN_MS,
  FlappyLeftover

BIRD_COL == 5
PIPE_WIDTH == 2
GAP_SIZE == 5
GAP_MIN == 2
GAP_MAX == FlappyRows - GAP_SIZE - GAP_MIN
FLAP_STRENGTH == 6
TICK_ACCEL_MS == 3

ASSUME FlappyAssumption ==
  /\ FlappyRows \in Nat /\ GAP_MIN <= GAP_MAX
  /\ FlappyCols \in Nat /\ PIPE_SPACING \in PIPE_WIDTH + 1..FlappyCols - BIRD_COL - 2
  /\ Gaps \subseteq GAP_MIN..GAP_MAX
  /\ TICK_MIN_MS \in Nat /\ TICK_INIT_MS \in Nat /\ TICK_MIN_MS <= TICK_INIT_MS
  /\ (TICK_INIT_MS - TICK_MIN_MS) % TICK_ACCEL_MS = 0

VARIABLES
  bird_y, bird_vel,   \* in quarters of a row
  tick_ms,
  pipes,              \* the two pipes
  flying              \* a game is played

flappyVars == <<bird_y, bird_vel, tick_ms, pipes, flying>>

FlappyBoard == Box(FlappyCols, FlappyRows)
Gone == [x |-> 0, gap_top |-> GAP_MIN]
Grounded ==
  /\ bird_y' = 0 /\ bird_vel' = 0 /\ tick_ms' = TICK_INIT_MS
  /\ pipes' = <<Gone, Gone>> /\ flying' = FALSE
  /\ fb' = FlappyLeftover

flappyRests ==
  /\ bird_y = 0 /\ bird_vel = 0 /\ tick_ms = TICK_INIT_MS
  /\ pipes = <<Gone, Gone>> /\ flying = FALSE

flappyInit == flappyRests /\ fb = FlappyLeftover

-----------------------------------------------------------------------------
Columns(p) == p.x..p.x + PIPE_WIDTH - 1
InGap(row, p) == row >= p.gap_top /\ row < p.gap_top + GAP_SIZE

\* The pixels of draw_pipe.
PipePixels(p) == {c \in Columns(p) \X (0..FlappyRows - 1) : ~InGap(c[2], p)}

BirdRow(y) == y \div 4      \* of the bird: >> 2
Bird(y) == <<BIRD_COL, BirdRow(y)>>

flappy_start ==
  /\ ~flying /\ flying' = TRUE
  /\ bird_y' = (FlappyRows \div 2) * 4 /\ bird_vel' = 0
  /\ tick_ms' = TICK_INIT_MS
  /\ \E g, h \in Gaps :
       pipes' = <<[x |-> FlappyCols - 1, gap_top |-> g],
                  [x |-> FlappyCols - 1 - PIPE_SPACING, gap_top |-> h]>>
  /\ fb' = Drawn({}, {Bird(bird_y')} \cup PipePixels(pipes'[1]) \cup PipePixels(pipes'[2]),
                 FlappyBoard)

on_flap ==
  /\ flying
  /\ bird_vel' = -FLAP_STRENGTH
  /\ UNCHANGED <<fb, bird_y, tick_ms, pipes, flying>>

-----------------------------------------------------------------------------
\* A pipe that has left the board: its right column is at -1.
PassedLeft(p) == p.x + PIPE_WIDTH <= 0

\* The pipe one column to the left, or back at the right edge with another gap.
PipeSteps(p) ==
  LET next == [p EXCEPT !.x = @ - 1]
  IN IF PassedLeft(next) THEN {[x |-> FlappyCols - 1, gap_top |-> g] : g \in Gaps}
     ELSE {next}

\* Fault: only the left column of a pipe kills.
Hits_LeftColumn(row, p) == BIRD_COL = p.x /\ ~InGap(row, p)

Hits(row, p) == BIRD_COL \in Columns(p) /\ ~InGap(row, p)

\* Fault: the limit is not looked at.
Faster_NoLimit(ms, scored) == IF scored THEN ms - TICK_ACCEL_MS ELSE ms

Faster(ms, scored) == IF scored /\ ms > TICK_MIN_MS THEN ms - TICK_ACCEL_MS ELSE ms

Scores(p) == PassedLeft([p EXCEPT !.x = @ - 1])

\* A pipe is erased where it was and drawn where it is.
Repainted(f, old, new) == Drawn(Erased(f, PipePixels(old)), PipePixels(new), FlappyBoard)

\* Fault: the bird is erased where it is going to be.
BirdMoved_ErasedLate(y) == Drawn(Erased(fb, {Bird(y)}), {Bird(y)}, FlappyBoard)

BirdMoved(y) == Drawn(Erased(fb, {Bird(bird_y)}), {Bird(y)}, FlappyBoard)

\* Fault: after a pipe came back at the right edge, the loop ends.
SecondSteps_NotAfterScore == IF Scores(pipes[1]) THEN {pipes[2]} ELSE PipeSteps(pipes[2])

SecondSteps == PipeSteps(pipes[2])

\* The bird at y, and the loop over the pipes.  What the second pipe would have
\* painted is cleared with the rest when the first one kills.
BirdFlies(y, vel) ==
  \E p \in PipeSteps(pipes[1]), q \in SecondSteps :
    IF Hits(BirdRow(y), p) \/ Hits(BirdRow(y), q)
    THEN Grounded
    ELSE /\ bird_y' = y /\ bird_vel' = vel
         /\ pipes' = <<p, q>>
         /\ tick_ms' = Faster(Faster(tick_ms, Scores(pipes[1])), Scores(pipes[2]))
         /\ fb' = Repainted(Repainted(BirdMoved(y), pipes[1], p), pipes[2], q)
         /\ UNCHANGED flying

flappy_tick ==
  LET vel == bird_vel + 1
      y == bird_y + vel
  IN flying /\ IF BirdRow(y) \in 0..FlappyRows - 1 THEN BirdFlies(y, vel) ELSE Grounded

flappyNext == flappy_start \/ on_flap \/ flappy_tick

flappySpec == flappyInit /\ [][flappyNext]_<<fb, flappyVars>>

-----------------------------------------------------------------------------
(* Properties.                                                             *)

\* Type correctness; the clock never gets faster than its limit.
FlappyTypeOK ==
  /\ bird_y \in 0..4 * FlappyRows - 1
  /\ bird_vel \in -FLAP_STRENGTH..4 * FlappyRows
  /\ tick_ms \in TICK_MIN_MS..TICK_INIT_MS
  /\ pipes \in Seq([x : 1 - PIPE_WIDTH..FlappyCols - 1, gap_top : GAP_MIN..GAP_MAX])
  /\ flying \in BOOLEAN

\* A bird that flies on is not in a pipe, also while the pipe passes over it with
\* both its columns and the bird rises or falls in between.
AliveIsClear ==
  flying => \A i \in 1..2 : BIRD_COL \in Columns(pipes[i]) => InGap(BirdRow(bird_y), pipes[i])

\* The pipes stay as far apart as they started, however often they came around: there
\* is always room between them to change height in.
PipesApart ==
  flying => pipes[1].x - pipes[2].x \in {PIPE_SPACING, PIPE_SPACING - (FlappyCols + 1)}

(* The bird is drawn before the pipes are, and a pipe is erased with all its  *)
(* rows: the bird is not to be seen in the tick in which a pipe has just left *)
(* its column, when it has left the rows of the gap in that same tick.  All   *)
(* else on the display is exactly the bird and the pipes.                     *)
BirdErased ==
  \E i \in 1..2 : pipes[i].x = BIRD_COL - PIPE_WIDTH /\ ~InGap(BirdRow(bird_y), pipes[i])

FlappyPicture ==
  flying =>
    fb = Drawn({}, PipePixels(pipes[1]) \cup PipePixels(pipes[2])
                     \cup (IF BirdErased THEN {} ELSE {Bird(bird_y)}), FlappyBoard)

\* A bird that is still flying had room to, and is shown where it is.
FlappySafe == FlappyTypeOK /\ AliveIsClear /\ PipesApart /\ FlappyPicture

=============================================================================
