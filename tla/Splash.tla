-------------------------------- MODULE Splash --------------------------------
(***************************************************************************)
(* The splash screen of a start: play_splash of src/main.c, the scrolling  *)
(* of src/animation.c and the cropping and painting of src/xbm.c.          *)
(*                                                                         *)
(* The picture comes in from below, moves up and leaves at the top, in     *)
(* three functions that each count with a static of their own; the call in *)
(* which one ends paints the first frame of the next.  A configured        *)
(* picture may have any size up to 48x44: the model has the ones that fit  *)
(* fb and fill the display but for a row, see the assumption.              *)
(***************************************************************************)
EXTENDS FrameBuffer, Sequences

CONSTANTS
  SplashCols, SplashRows,   \* LED_COLS, and LED_ROWS, which play_splash gives as 11
  SplashPictures,           \* a sequence of records [w, rows], a row as its lit columns
  SplashLeftover

\* A wider picture is painted past the end of fb, and of a lower one scroll_pb_next
\* paints what lies before it in memory.
ASSUME SplashAssumption ==
  /\ SplashCols \in Nat /\ SplashRows \in Nat \ {0}
  /\ \A n \in DOMAIN SplashPictures :
       LET p == SplashPictures[n]
       IN /\ p.w \in 0..SplashCols
          /\ p.rows \in Seq(SUBSET (0..p.w - 1)) /\ Len(p.rows) >= SplashRows - 1

VARIABLES
  splash_bm,           \* which of the pictures badge_cfg has
  pad_i,               \* i of ani_xbm_scrollup_pad
  pt_i, up_i, pb_i,    \* i of scroll_pt_next, ani_xbm_scroll_up and scroll_pb_next
  splash_over,         \* play_splash has returned
  frames,              \* calls that went on, each with its frame
  painted              \* the last of those frames that xbm2fb had memory for

splashVars == <<splash_bm, pad_i, pt_i, up_i, pb_i, splash_over, frames, painted>>

splashRests ==
  /\ splash_bm \in DOMAIN SplashPictures
  /\ pad_i = 0 /\ pt_i = 0 /\ up_i = 0 /\ pb_i = 0
  /\ splash_over = FALSE /\ frames = 0 /\ painted = 0

splashInit == splashRests /\ fb = SplashLeftover

-----------------------------------------------------------------------------
spl == SplashPictures[splash_bm]
height == Len(spl.rows)

\* Fault: a frame that ends with the last row is taken to be outside.
xbm_croph_Early(to_row) == to_row < height

\* Whether there is a frame that ends there.
xbm_croph(to_row) == to_row <= height

\* The frame of some rows, its first at row.
FrameAt(from_row, to_row, row) ==
  UNION {spl.rows[r + 1] \X {row + r - from_row} : r \in from_row..to_row - 1}

Beside(f, w) == {p \in f : p[1] >= w}

\* All columns of the picture are painted, unless calloc fails.
xbm2fb(from_row, to_row, row) ==
  /\ frames' = frames + 1
  /\ \/ /\ fb' = Beside(fb, spl.w) \cup FrameAt(from_row, to_row, row)
        /\ painted' = frames + 1
     \/ UNCHANGED <<fb, painted>>

scroll_pt_ends == pt_i >= SplashRows \/ ~xbm_croph(pt_i)
scroll_up_ends == ~xbm_croph(up_i + SplashRows)
scroll_pb_ends == pb_i >= SplashRows

\* Fault: the last part begins one row too far into the picture.
scroll_pb_from_Skips == height - (SplashRows - 2 - pb_i)

scroll_pb_from == height - (SplashRows - 1 - pb_i)

scroll_pt_next ==
  /\ pad_i \in {0, 1} /\ ~scroll_pt_ends
  /\ pad_i' = 1 /\ pt_i' = pt_i + 1
  /\ xbm2fb(0, pt_i, SplashRows - pt_i)
  /\ UNCHANGED <<up_i, pb_i, splash_over>>

\* The first part is over, by this call or an earlier one.
scroll_pt_over ==
  \/ pad_i \in {0, 1} /\ scroll_pt_ends /\ pt_i' = 0
  \/ pad_i \in {2, 3} /\ UNCHANGED pt_i

ani_xbm_scroll_up ==
  /\ pad_i # 3 /\ scroll_pt_over /\ ~scroll_up_ends
  /\ pad_i' = 2 /\ up_i' = up_i + 1
  /\ xbm2fb(up_i, up_i + SplashRows, 0)
  /\ UNCHANGED <<pb_i, splash_over>>

scroll_up_over ==
  /\ scroll_pt_over
  /\ \/ pad_i # 3 /\ scroll_up_ends /\ up_i' = 0
     \/ pad_i = 3 /\ UNCHANGED up_i

scroll_pb_next ==
  /\ scroll_up_over /\ ~scroll_pb_ends
  /\ pad_i' = 3 /\ pb_i' = pb_i + 1
  /\ xbm2fb(scroll_pb_from, height, 0)
  /\ UNCHANGED splash_over

\* The call that returns 0 and ends the loop.
splash_ends ==
  /\ scroll_up_over /\ scroll_pb_ends
  /\ pad_i' = 0 /\ pb_i' = 0
  /\ splash_over' = TRUE
  /\ UNCHANGED <<fb, frames, painted>>

\* One turn of the loop of play_splash, each with one call of ani_xbm_scrollup_pad.
play_splash ==
  /\ ~splash_over
  /\ scroll_pt_next \/ ani_xbm_scroll_up \/ scroll_pb_next \/ splash_ends
  /\ UNCHANGED splash_bm

splashNext == play_splash

splashSpec == splashInit /\ [][splashNext]_<<fb, splashVars>>

-----------------------------------------------------------------------------
(* Properties.                                                             *)

SplashTypeOK ==
  /\ pad_i \in 0..3 /\ splash_over \in BOOLEAN
  /\ pt_i \in 0..SplashRows /\ up_i \in Nat /\ pb_i \in 0..SplashRows
  /\ painted \in 0..frames

(* The picture as it lies n frames after it was wholly below the display: one  *)
(* row higher with each.                                                       *)
Raised(n) ==
  UNION {spl.rows[r] \X {SplashRows + r - n} : r \in (n - SplashRows..n - 1) \cap (1..height)}

(* The three parts join without a jump, a repeat or a row that is not the       *)
(* picture's, from below the display to above it, and leave their counters as   *)
(* they found them.                                                             *)
SplashSlides ==
  /\ SplashTypeOK
  /\ painted > 0 => fb \ Beside(fb, spl.w) = Raised(painted)
  /\ frames > 0 => Beside(fb, spl.w) = Beside(SplashLeftover, spl.w)
  /\ splash_over => frames = height + SplashRows + 1 /\ pad_i + pt_i + up_i + pb_i = 0

=============================================================================
