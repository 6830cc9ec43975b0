---------------------------- MODULE FrameBuffer ----------------------------
(***************************************************************************)
(* fb of src/main.c, as the set of its lit pixels <<column, row>>.  Every  *)
(* screen paints into it, and starts from whatever the last one left.      *)
(***************************************************************************)
EXTENDS Integers

VARIABLE fb

Box(cols, rows) == (0..cols - 1) \X (0..rows - 1)

\* draw_pixel, for some pixels at once: those outside the box are not drawn.
Drawn(f, pixels, box) == f \cup (pixels \cap box)
Erased(f, pixels) == f \ pixels

=============================================================================
