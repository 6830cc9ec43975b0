------------------------------ MODULE Animation ------------------------------
(***************************************************************************)
(* The nine animations of a bitmap (src/animation.c) and the events that   *)
(* drive them (common_tasks of src/main.c).  Each step paints the frame    *)
(* buffer over; only ani_picture keeps what the step before left in it.    *)
(*                                                                         *)
(* A column is the set of its lit rows.  anim_step is kept modulo the      *)
(* period that every use of it takes it by.                                *)
(***************************************************************************)
EXTENDS FrameBuffer, FiniteSets, Sequences

CONSTANTS
  AniCols, AniRows,   \* LED_COLS and LED_ROWS
  Bitmaps,            \* the list
  MaxPresses,         \* bound on presses of the key that goes to another bitmap
  AniLeftover

AniRow == 0..AniRows - 1

AniNames == {"scroll_left", "scroll_right", "scroll_up", "scroll_down", "fixed",
             "animation", "snowflake", "picture", "laser"}
Screen == Box(AniCols, AniRows)

\* A mode of 9 or more would index past animations[].
ASSUME AniAssumption ==
  /\ AniCols \in Nat \ {0, 1} /\ AniRows \in Nat \ {0}
  /\ Bitmaps \in Seq([buf : Seq(SUBSET AniRow) \ {<<>>}, ani : AniNames,
                      is_flash : BOOLEAN, is_marquee : BOOLEAN]) \ {<<>>}
  /\ AniLeftover \subseteq Screen /\ MaxPresses \in Nat

VARIABLES
  current,       \* the place of bmlist_current()
  is_play_sequentially,
  anim_step,
  flash_step,    \* modulo 2
  marque_step,   \* modulo 4
  seen,          \* frames shown whole since anim_step was 0
  age,           \* steps since the bitmap was started
  presses

effects == <<flash_step, marque_step>>
aniVars == <<current, is_play_sequentially, anim_step, effects, seen, age, presses>>

Col == 0..AniCols - 1

aniRests ==
  /\ current \in DOMAIN Bitmaps /\ is_play_sequentially = TRUE /\ anim_step = 0
  /\ flash_step = 0 /\ marque_step = 0
  /\ seen = {} /\ age = 0 /\ presses = 0

aniInit == aniRests /\ fb = AniLeftover

-----------------------------------------------------------------------------
(* Columns of the bitmap and pixels of the display.                        *)

bm == Bitmaps[current]
width == Len(bm.buf)

Lower(a, b) == IF a <= b THEN a ELSE b

Pixels(g) == UNION {{i} \X (g[i] \cap AniRow) : i \in DOMAIN g}
ColumnOf(f, i) == {r \in AniRow : <<i, r>> \in f}

\* bm->buf[i], and an empty column behind its end.
At(i) == IF i < width THEN bm.buf[i + 1] ELSE {}

\* ALIGN(width, LED_COLS) / LED_COLS
Frames == (width + AniCols - 1) \div AniCols

\* The columns of a frame up to the last one that is not empty.
ContentWidth(frame) ==
  Cardinality({k \in Col : \E l \in Col : l >= k /\ At(frame * AniCols + l) # {}})

\* Only a single frame is centred.
get_x_offset(frame) == IF Frames > 1 THEN 0 ELSE (AniCols - ContentWidth(frame)) \div 2

\* A frame in its place.
still(frame) ==
  LET start == frame * AniCols
      left == get_x_offset(frame)
      size == Lower(AniCols - left, width - start)
  IN [j \in Col |-> IF j >= left /\ j < left + size THEN bm.buf[start + j - left + 1] ELSE {}]

\* >> n, and << -n for a negative one.
SIGNED_SHIFT(column, n) == {r - n : r \in {s \in column : s >= n}}

-----------------------------------------------------------------------------
(* One animation each: the columns painted at step s.                      *)

\* Fault: the columns of the display are scrolled past one too few.
ScrollSteps_OneLess == width + AniCols - 1

ScrollSteps == width + AniCols

ani_scroll_x(s) ==
  LET x == s - AniCols
  IN [i \in Col |-> IF i + x >= 0 THEN At(i + x) ELSE {}]

\* In, still and out.
ani_scroll_y(s) ==
  LET steps == 3 * AniRows
      y == s % steps
      by == CASE y < AniRows -> y - AniRows
              [] y >= AniRows /\ y < 2 * AniRows -> 0
              [] OTHER -> y - 2 * AniRows
      shown == still(s \div steps)
  IN [j \in Col |-> SIGNED_SHIFT(shown[j], by)]

\* Columns of a frame from c on are drawn as its column c.
laser_in(step, frame) ==
  LET start == frame * AniCols
      left == get_x_offset(frame)
      c == step % (AniCols - left)
      end == left + Lower(AniCols - left, width - start)
  IN [i \in Col |-> CASE i >= left /\ i < left + c -> At(start + i - left)
                      [] i >= left + c /\ i < end -> At(start + c)
                      [] OTHER -> {}]

\* Fault: what has left comes back at the left.
laser_out_Wraps(step, frame) ==
  LET start == frame * AniCols
      left == get_x_offset(frame)
      c == (step + 1) % (AniCols - left)
      end == left + Lower(AniCols - left, width - start)
  IN [i \in Col |-> IF i >= left + c /\ i < end THEN At(start + i - left) ELSE {}]

laser_out(step, frame) ==
  LET start == frame * AniCols
      left == get_x_offset(frame)
      c == step % (AniCols - left)
      end == left + Lower(AniCols - left, width - start)
  IN [i \in Col |-> IF i >= left + c /\ i < end THEN At(start + i - left) ELSE {}]

ani_laser(s) ==
  LET frame == s \div (3 * AniCols)
      c == s % (3 * AniCols)
  IN CASE c < AniCols -> laser_in(c - AniCols, frame)
       [] c >= AniCols /\ c < 2 * AniCols -> still(frame)
       [] OTHER -> laser_out(c - 2 * AniCols, frame)

\* Rows from..to-1 move apart, those after them follow.
b16dialate(column, from, to) ==
  {CASE r < from -> r
     [] r >= from /\ r < to -> from + 2 * (r - from)
     [] OTHER -> r + to - from : r \in column}

snowflake_in(step, frame) ==
  LET y == (step % (2 * AniRows)) - AniRows
      to == IF y < 0 THEN AniRows ELSE AniRows - y
      shown == still(frame)
  IN [j \in Col |-> SIGNED_SHIFT(b16dialate(shown[j], 0, to), AniRows - y)]

snowflake_out(step, frame) ==
  LET y == (step % (2 * AniRows)) - AniRows
      shown == still(frame)
  IN [j \in Col |-> IF y <= 0 THEN SIGNED_SHIFT(b16dialate(shown[j], 0, AniRows), y)
                    ELSE b16dialate(shown[j], y, AniRows)]

ani_snowflake(s) ==
  LET frame == s \div (6 * AniRows)
      c == s % (6 * AniRows)
  IN CASE c < 2 * AniRows -> snowflake_in(c - 2 * AniRows, frame)
       [] c >= 2 * AniRows /\ c <= 4 * AniRows -> still(frame)
       [] OTHER -> snowflake_out(-(c - 4 * AniRows), frame)

-----------------------------------------------------------------------------
(* ani_picture: a curtain that opens from the middle.                      *)

hc == AniCols \div 2

\* The columns up to range from the middle, and the bright edge of the curtain, which
\* is drawn last.
Within(range) == UNION {{hc + i - 1, hc - i} : i \in 0..range}

\* Fault: the edge is drawn also when it has passed the border.
Edge_Always(range) == {hc + range, hc - range - 1}

Edge(range) == IF range + 1 >= hc THEN {} ELSE {hc + range, hc - range - 1}
Wiped(range) == Within(range) \cup Edge(range)

picture(f, step, frame) ==
  LET range == (step - 1) % AniCols
  IN IF range > hc THEN still(frame)
     ELSE [i \in Col \cup Wiped(range) |->
             CASE i \in Edge(range) -> AniRow
               [] i \in Within(range) \ Edge(range) -> At(i + frame * AniCols)
               [] OTHER -> ColumnOf(f, i)]

picture_out(f, step) ==
  [i \in Col \cup (IF step <= hc THEN Wiped(step) ELSE {}) |->
     CASE step <= hc /\ i \in Edge(step) -> AniRow
       [] step <= hc /\ i \in Within(step) \ Edge(step) -> {}
       [] OTHER -> ColumnOf(f, i)]

\* Fault: the last, shorter, round is taken for a whole one.
PictureEnds_Whole(step) == (step - 1) \div AniCols = Frames /\ step % AniCols >= AniCols

\* The round after the last frame closes the curtain, in half the steps.
PictureEnds(step) == (step - 1) \div AniCols = Frames /\ step % AniCols >= hc

-----------------------------------------------------------------------------
(* The step of an animation: what it paints, the step after it, and whether *)
(* it returns 0.                                                            *)

Stepped(columns, next) == [f |-> Pixels(columns), step |-> next, ended |-> next = 0]

Forward(columns, total) == Stepped(columns, (anim_step + 1) % total)
Backward(columns, total) == Stepped(columns, (anim_step - 1) % total)

ani_picture ==
  LET step == anim_step + 1
      out == anim_step \div AniCols = Frames
      columns == IF out THEN picture_out(fb, step % AniCols)
                 ELSE picture(fb, step, anim_step \div AniCols)
  IN Stepped(columns, IF PictureEnds(step) THEN 0 ELSE step)

ANI_ANIMATION_STEPS == 5
ANI_FIXED_STEPS == AniCols

animations ==
  CASE bm.ani = "scroll_left" -> Forward(ani_scroll_x(anim_step), ScrollSteps)
    [] bm.ani = "scroll_right" -> Backward(ani_scroll_x(anim_step), ScrollSteps)
    [] bm.ani = "scroll_up" -> Forward(ani_scroll_y(anim_step), 3 * AniRows * Frames)
    [] bm.ani = "scroll_down" -> Backward(ani_scroll_y(anim_step), 3 * AniRows * Frames)
    [] bm.ani = "fixed" -> Forward(still(anim_step \div ANI_FIXED_STEPS), ANI_FIXED_STEPS * Frames)
    [] bm.ani = "animation" ->
         Forward(still(anim_step \div ANI_ANIMATION_STEPS), ANI_ANIMATION_STEPS * Frames)
    [] bm.ani = "snowflake" -> Forward(ani_snowflake(anim_step), 6 * AniRows * Frames)
    [] bm.ani = "picture" -> ani_picture
    [] bm.ani = "laser" -> Forward(ani_laser(anim_step), 3 * AniCols * Frames)

-----------------------------------------------------------------------------
(* Flash and marquee, over what the animation painted.                     *)

ani_flash(f, step) == IF step % 2 = 0 THEN {} ELSE f

\* tpl, shifted by n.
Dashes(n) == {r + n : r \in {0, 4, 8}}

\* A dashed line around the display.
ani_marque(f, step) ==
  LET last == AniRows - 1
      inner(i) == {r \in ColumnOf(f, i) : r # 0 /\ r # last}
      top(i) == IF (step + i) % 4 = 0 THEN {0} ELSE {}
      bottom(i) == IF (i - step - 2) % 4 = 0 THEN {last} ELSE {}
  IN Pixels([i \in Col |-> CASE i = 0 -> Dashes(step % 4)
                             [] i = AniCols - 1 -> Dashes(-((step + 3) % 4))
                             [] OTHER -> inner(i) \cup top(i) \cup bottom(i)])

Flashed(f, step) == IF bm.is_flash THEN ani_flash(f, step) ELSE f
Framed(f, step) == IF bm.is_marquee THEN ani_marque(f, step) ELSE f

-----------------------------------------------------------------------------
(* A frame is shown whole when its pixels are, at the left or further right,  *)
(* and no others.                                                             *)
FramePixels(frame) ==
  UNION {{k} \X At(frame * AniCols + k) : k \in Col}
ShownWhole(frame, f) ==
  \E whole \in {FramePixels(frame)}, right \in 0..hc :
    f = {<<p[1] + right, p[2]>> : p \in whole}
NewlySeen(f) == {frame \in 0..Frames - 1 : ShownWhole(frame, f)}

Goto(place) == current' = place /\ anim_step' = 0 /\ seen' = {} /\ age' = 0
Following == (current % Len(Bitmaps)) + 1

\* While the list is played in sequence, a bitmap that has ended gives way to the next;
\* otherwise it begins again.
ANI_NEXT_STEP ==
  \E next \in {animations} :
    /\ fb' \in {Framed(f, marque_step) : f \in {Flashed(next.f, flash_step)}}
    /\ IF next.ended
       THEN Goto(IF is_play_sequentially THEN Following ELSE current)
       ELSE /\ anim_step' = next.step /\ seen' = seen \cup NewlySeen(next.f)
            /\ age' = age + 1 /\ UNCHANGED current
    /\ UNCHANGED <<effects, presses, is_play_sequentially>>

ANI_MARQUE ==
  /\ marque_step' = (marque_step + 1) % 4
  /\ fb' = Framed(fb, marque_step')
  /\ UNCHANGED <<current, is_play_sequentially, anim_step, flash_step, seen, age, presses>>

ANI_FLASH ==
  /\ flash_step' = (flash_step + 1) % 2
  /\ fb' = Framed(Flashed(fb, flash_step'), marque_step)
  /\ UNCHANGED <<current, is_play_sequentially, anim_step, marque_step, seen, age, presses>>

\* The key ends the sequence and goes to the head of the list, then on by one; the head
\* comes up again with the sequence.
bm_transition ==
  /\ presses < MaxPresses /\ presses' = presses + 1
  /\ Goto(IF is_play_sequentially THEN 1 ELSE Following)
  /\ is_play_sequentially' = (~is_play_sequentially /\ Following = 1)
  /\ UNCHANGED <<fb, effects>>

\* The menu was opened, and left again: anim_step is not reset.
Resumed ==
  /\ presses < MaxPresses /\ presses' = presses + 1
  /\ fb' = AniLeftover
  /\ UNCHANGED <<current, is_play_sequentially, anim_step, effects, seen, age>>

aniNext == ANI_NEXT_STEP \/ ANI_MARQUE \/ ANI_FLASH \/ bm_transition \/ Resumed

aniSpec == aniInit /\ [][aniNext]_<<fb, aniVars>>

-----------------------------------------------------------------------------
(* Properties.                                                             *)

\* Type correctness, and no step paints outside the display.
AniTypeOK ==
  /\ age > 0 => fb \subseteq Screen
  /\ current \in DOMAIN Bitmaps /\ is_play_sequentially \in BOOLEAN
  /\ anim_step \in Nat
  /\ flash_step \in 0..1 /\ marque_step \in 0..3
  /\ seen \subseteq 0..Frames - 1 /\ presses \in 0..MaxPresses

(* Whatever was on the display before, and wherever the animation was         *)
(* interrupted, a bitmap that is played to its end has shown each of its      *)
(* frames whole once: no column is left out, none is left over.               *)
EveryFrameShown ==
  [][age > 0 /\ age' = 0 /\ presses' = presses =>
       seen \cup NewlySeen(animations.f) = 0..Frames - 1]_<<fb, aniVars>>

(* Each animation ends, however it was interrupted, and the next bitmap gets  *)
(* its turn or it begins anew: no frame of it takes longer than that of a     *)
(* laser and a snowflake together.                                            *)
EndsInTime == age < (3 * AniCols + 6 * AniRows) * Frames

(* A frame as wide as the display that a laser takes away does not come back, *)
(* but where the menu was left in between.  A narrower one is centred, and    *)
(* then the count of columns starts over.                                     *)
LaserLeaves ==
  LET frame == anim_step \div (3 * AniCols)
      c == anim_step % (3 * AniCols)
  IN bm.ani = "laser" /\ ~bm.is_marquee /\ ~bm.is_flash /\ get_x_offset(frame) = 0 /\ c > 2 * AniCols

GoneStaysGone ==
  [][LaserLeaves /\ anim_step' = anim_step + 1 =>
       fb' \subseteq fb \/ fb = AniLeftover]_<<fb, aniVars>>

(* An animation that began before a key, a flash or a border interrupted it    *)
(* paints its bitmap and comes to its end.                                    *)
AnimationEnds == AniTypeOK /\ EndsInTime

(* Each frame is painted whole, and painted away whole.                       *)
FramesPainted == EveryFrameShown /\ GoneStaysGone

=============================================================================
