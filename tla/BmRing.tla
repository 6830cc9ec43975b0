------------------------------- MODULE BmRing -------------------------------
(***************************************************************************)
(* What the bitmap list promises to the code that plays it (src/main.c):   *)
(* an ordered collection that is played round and round, one bitmap at a   *)
(* time, either by itself or under the control of the key.                 *)
(***************************************************************************)
EXTENDS Naturals, Sequences

CONSTANT Bitmaps    \* what a place of the list can show

VARIABLES
  shown,     \* the bitmaps in the order they are played
  cur,       \* the place that is on the display
  playAll    \* TRUE: each bitmap in its turn; FALSE: stay on this one

vars == <<shown, cur, playAll>>

After(i) == IF i = Len(shown) THEN 1 ELSE i + 1

Init ==
  /\ \E b \in Bitmaps : shown = <<b>>
  /\ cur = 1
  /\ playAll = TRUE

\* The bitmap has been played to its end.
Advance ==
  /\ playAll
  /\ cur' = After(cur)
  /\ UNCHANGED <<shown, playAll>>

\* The key: the first bitmap alone, then each next one, then all of them.
Press ==
  /\ cur' = IF playAll THEN 1 ELSE After(cur)
  /\ playAll' = (~playAll /\ cur' = 1)
  /\ UNCHANGED shown

\* The bitmap on the display outlives the others while new ones are read.
KeepCurrent ==
  /\ shown' = <<shown[cur]>>
  /\ cur' = 1
  /\ UNCHANGED playAll

\* The new bitmaps take the place of the last old one.
Replace ==
  /\ shown' \in Seq(Bitmaps)
  /\ cur' = 1
  /\ UNCHANGED playAll

Next == shown # <<>> /\ (Advance \/ Press \/ KeepCurrent \/ Replace)

Spec == Init /\ [][Next]_vars

=============================================================================
