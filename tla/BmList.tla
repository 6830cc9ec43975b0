------------------------------- MODULE BmList -------------------------------
(***************************************************************************)
(* The bitmap list (src/bmlist.c) and its users in src/main.c: the loading *)
(* of the stored bitmaps, the animation task and the key that picks one.   *)
(*                                                                         *)
(* A node is the address of a bm_t on the heap; a freed address may be     *)
(* handed out again.  Loading walks the eight slots of the stored upload   *)
(* and reads the flash three times for each: the header for the sizes, the *)
(* pixels, and the header again for the modes.  The USB interrupt can      *)
(* replace the stored upload between any two of those reads.               *)
(***************************************************************************)
EXTENDS Naturals, FiniteSets

CONSTANTS
  Nodes,            \* heap addresses of bm_t
  NULL,
  NSlots,           \* slots of an upload (8 on the badge)
  Images,           \* uploads
  Filled,           \* the slots of an upload whose size is not 0
  NoImage,          \* flash without the "wang" header
  Steps             \* frames of an animation

ASSUME NodesAssumption == NULL \notin Nodes
ASSUME SlotsAssumption == NSlots \in Nat
ASSUME ImagesAssumption ==
  /\ NoImage \notin Images
  /\ Filled \in [Images -> SUBSET (1..NSlots)]
ASSUME StepsAssumption == Steps \in Nat \ {0}

VARIABLES
  live,               \* allocated nodes
  next, prev,
  content,            \* the slot of a node, and the uploads that gave its size,
                      \* its pixels and its modes
  anim_step,
  current, head, tail,
  is_play_sequentially,
  stored,             \* the upload in flash
  pc,                 \* where load_bmlist or clean_bmlist is
  slot,               \* the slot load_bmlist is at
  chunk,              \* the uploads its size and its pixels were read from
  undisturbed         \* no upload was stored since the load began

links == <<live, next, prev, head, tail>>
loading == <<pc, slot, chunk, undisturbed>>
vars == <<links, content, anim_step, current, is_play_sequentially, stored, loading>>

Slots == 1..NSlots
Blank == [sized |-> NoImage, bits |-> NoImage, modes |-> NoImage, slot |-> 0]
Bitmaps == [sized : Images, bits : Images, modes : Images, slot : Slots] \cup {Blank}
NoChunk == [sized |-> NoImage, bits |-> NoImage]

-----------------------------------------------------------------------------
(* bmlist.c                                                                *)

\* Fault: the new node is not made the last one.
bmlist_append_KeepsTail(n) ==
  /\ live' = live \cup {n}
  /\ next' = [next EXCEPT ![n] = next[tail], ![tail] = n]
  /\ prev' = [prev EXCEPT ![n] = tail, ![next[tail]] = n]
  /\ UNCHANGED <<head, tail>>

\* A new node goes in between the last one and the first.
bmlist_append(n) ==
  /\ live' = live \cup {n}
  /\ next' = [next EXCEPT ![n] = next[tail], ![tail] = n]
  /\ prev' = [prev EXCEPT ![n] = tail, ![next[tail]] = n]
  /\ tail' = n
  /\ UNCHANGED head

\* Fault: the animation goes on where this bitmap was left.
Show_Resumes(n, steps) ==
  /\ current' = n
  /\ anim_step' = steps

\* bmlist_gonext and bmlist_gohead: a bitmap comes up with its first frame.
Show(n, steps) ==
  /\ current' = n
  /\ anim_step' = [steps EXCEPT ![n] = 0]

\* Fault: the arms of the comparison are swapped.
Other_Swapped(m, n) == IF m = n THEN m ELSE NULL

\* (next == bm) ? NULL : next
Other(m, n) == IF m = n THEN NULL ELSE m

\* Fault: the last node is freed and tail still points at it.
Unlink_KeepsTail(n) ==
  /\ next' = [next EXCEPT ![prev[n]] = next[n], ![n] = n]
  /\ prev' = [prev EXCEPT ![next[n]] = prev[n], ![n] = n]
  /\ head' = IF n = head THEN Other(next[n], n) ELSE head
  /\ UNCHANGED tail
  /\ live' = live \ {n}

\* bmlist_drop, but for current.  The links of a freed node are set to itself,
\* so that freed nodes do not differ by what they once held.
Unlink(n) ==
  /\ next' = [next EXCEPT ![prev[n]] = next[n], ![n] = n]
  /\ prev' = [prev EXCEPT ![next[n]] = prev[n], ![n] = n]
  /\ head' = IF n = head THEN Other(next[n], n) ELSE head
  /\ tail' = IF n = tail THEN Other(prev[n], n) ELSE tail
  /\ live' = live \ {n}

Forget(n, steps) ==
  /\ content' = [content EXCEPT ![n] = Blank]
  /\ anim_step' = [steps EXCEPT ![n] = 0]

-----------------------------------------------------------------------------
\* bmlist_init makes one blank bitmap; main then calls load_bmlist.
Init ==
  \E n \in Nodes :
    /\ live = {n}
    /\ next = [m \in Nodes |-> m] /\ prev = [m \in Nodes |-> m]
    /\ content = [m \in Nodes |-> Blank]
    /\ anim_step = [m \in Nodes |-> 0]
    /\ current = n /\ head = n /\ tail = n
    /\ is_play_sequentially = TRUE
    /\ stored \in Images \cup {NoImage}
    /\ pc = "check" /\ slot = 1 /\ chunk = NoChunk /\ undisturbed = TRUE

\* reload_bmlist, when the menu enters the animation mode.
reload_bmlist ==
  /\ pc = "idle" /\ current # NULL
  /\ pc' = "clean"
  /\ UNCHANGED <<links, content, anim_step, current, is_play_sequentially,
                 stored, slot, chunk, undisturbed>>

\* clean_bmlist: everything but the current bitmap is dropped.
DropNext ==
  /\ pc = "clean" /\ next[current] # current
  /\ Unlink(next[current])
  /\ Forget(next[current], anim_step)
  /\ UNCHANGED <<current, is_play_sequentially, stored, loading>>

CleanDone ==
  /\ pc = "clean" /\ next[current] = current
  /\ pc' = "check"
  /\ UNCHANGED <<links, content, anim_step, current, is_play_sequentially,
                 stored, slot, chunk, undisturbed>>

\* load_bmlist returns at once when no upload is stored.
CheckHeader ==
  /\ pc = "check"
  /\ pc' = IF stored = NoImage THEN "idle" ELSE "sizes"
  /\ slot' = 1 /\ undisturbed' = TRUE
  /\ UNCHANGED <<links, content, anim_step, current, is_play_sequentially,
                 stored, chunk>>

\* Fault: the loop goes on to a slot after the last one.
ReadSizes_OneMore ==
  /\ pc = "sizes" /\ slot <= NSlots + 1
  /\ IF slot \in Filled[stored]
     THEN pc' = "bits" /\ chunk' = [NoChunk EXCEPT !.sized = stored] /\ UNCHANGED slot
     ELSE slot' = slot + 1 /\ UNCHANGED <<pc, chunk>>
  /\ UNCHANGED <<links, content, anim_step, current, is_play_sequentially,
                 stored, undisturbed>>

\* data_flash2newmem reads the header for the size and the place of the slot's
\* pixels; size 0 skips it.
ReadSizes ==
  /\ pc = "sizes" /\ slot \in Slots
  /\ IF slot \in Filled[stored]
     THEN pc' = "bits" /\ chunk' = [NoChunk EXCEPT !.sized = stored] /\ UNCHANGED slot
     ELSE slot' = slot + 1 /\ UNCHANGED <<pc, chunk>>
  /\ UNCHANGED <<links, content, anim_step, current, is_play_sequentially,
                 stored, undisturbed>>

\* It then reads what is in flash at that place.
ReadBits ==
  /\ pc = "bits"
  /\ pc' = "modes" /\ chunk' = [chunk EXCEPT !.bits = stored]
  /\ UNCHANGED <<links, content, anim_step, current, is_play_sequentially,
                 stored, slot, undisturbed>>

\* The rest of flash2newbm, and bmlist_append.
AppendBitmap ==
  /\ pc = "modes"
  /\ \E n \in Nodes \ live :
       /\ bmlist_append(n)
       /\ content' = [content EXCEPT
                        ![n] = [sized |-> chunk.sized, bits |-> chunk.bits,
                                modes |-> stored, slot |-> slot]]
       /\ anim_step' = [anim_step EXCEPT ![n] = 0]
  /\ pc' = "sizes" /\ slot' = slot + 1 /\ chunk' = NoChunk
  /\ UNCHANGED <<current, is_play_sequentially, stored, undisturbed>>

\* Fault: the old bitmap stays in the list.
LoadDone_KeepsOld ==
  /\ pc = "sizes" /\ slot \notin Slots
  /\ Show(next[current], anim_step)
  /\ pc' = "idle" /\ slot' = 1
  /\ UNCHANGED <<links, content, is_play_sequentially, stored, chunk, undisturbed>>

\* bmlist_gonext, then the old bitmap is dropped.  When the slots were all
\* empty it is the only one, and the list is left without a node.
LoadDone ==
  /\ pc = "sizes" /\ slot \notin Slots
  /\ Unlink(current)
  /\ Forget(current, [anim_step EXCEPT ![next[current]] = 0])
  /\ current' = Other(next[current], current)
  /\ pc' = "idle" /\ slot' = 1
  /\ UNCHANGED <<is_play_sequentially, stored, chunk, undisturbed>>

\* Fault: the last frame of a bitmap leads back to the first bitmap.
ANI_NEXT_STEP_Restarts ==
  /\ pc = "idle" /\ current # NULL
  /\ LET step == (anim_step[current] + 1) % Steps
         stepped == [anim_step EXCEPT ![current] = step]
     IN  IF step = 0 /\ is_play_sequentially
         THEN Show(head, stepped)
         ELSE anim_step' = stepped /\ UNCHANGED current
  /\ UNCHANGED <<links, content, is_play_sequentially, stored, loading>>

\* Fault: the bitmaps are played backwards.
ANI_NEXT_STEP_Backwards ==
  /\ pc = "idle" /\ current # NULL
  /\ LET step == (anim_step[current] + 1) % Steps
         stepped == [anim_step EXCEPT ![current] = step]
     IN  IF step = 0 /\ is_play_sequentially
         THEN Show(prev[current], stepped)
         ELSE anim_step' = stepped /\ UNCHANGED current
  /\ UNCHANGED <<links, content, is_play_sequentially, stored, loading>>

\* The animation task draws a frame; after the last one of a bitmap the next
\* bitmap comes up, unless the key picked this one.
ANI_NEXT_STEP ==
  /\ pc = "idle" /\ current # NULL
  /\ LET step == (anim_step[current] + 1) % Steps
         stepped == [anim_step EXCEPT ![current] = step]
     IN  IF step = 0 /\ is_play_sequentially
         THEN Show(next[current], stepped)
         ELSE anim_step' = stepped /\ UNCHANGED current
  /\ UNCHANGED <<links, content, is_play_sequentially, stored, loading>>

\* KEY2 in the animation mode.
bm_transition ==
  /\ pc = "idle" /\ current # NULL
  /\ IF is_play_sequentially
     THEN Show(head, anim_step)
     ELSE Show(next[current], [anim_step EXCEPT ![current] = 0])
  /\ is_play_sequentially' = (~is_play_sequentially /\ current' = head)
  /\ UNCHANGED <<links, content, stored, loading>>

\* data_flatSave at the end of an upload: over BLE between two calls of the
\* main loop, over USB from the interrupt, in the middle of a load too.
data_flatSave ==
  /\ stored' \in Images
  /\ undisturbed' = FALSE
  /\ UNCHANGED <<links, content, anim_step, current, is_play_sequentially,
                 pc, slot, chunk>>

Load == CleanDone \/ DropNext \/ CheckHeader \/ ReadSizes \/ ReadBits \/ AppendBitmap \/ LoadDone

Next == reload_bmlist \/ Load \/ ANI_NEXT_STEP \/ bm_transition \/ data_flatSave

Spec == Init /\ [][Next]_vars

\* A call of reload_bmlist runs to its end; the animation task reschedules
\* itself while the badge is in the animation mode.
FairSpec == Spec /\ WF_vars(Load) /\ WF_vars(ANI_NEXT_STEP)

-----------------------------------------------------------------------------
TypeOK ==
  /\ live \subseteq Nodes
  /\ next \in [Nodes -> Nodes] /\ prev \in [Nodes -> Nodes]
  /\ content \in [Nodes -> Bitmaps]
  /\ anim_step \in [Nodes -> 0..Steps - 1]
  /\ {current, head, tail} \subseteq Nodes \cup {NULL}
  /\ is_play_sequentially \in BOOLEAN
  /\ stored \in Images \cup {NoImage}
  /\ pc \in {"idle", "clean", "check", "sizes", "bits", "modes"}
  /\ slot \in 1..NSlots + 1
  /\ chunk \in [sized : Images \cup {NoImage}, bits : Images \cup {NoImage}]
  /\ undisturbed \in BOOLEAN

\* r lists the k nodes in the order of their links, from head to tail.
IsRing(r, k) ==
  /\ r \in [1..k -> live]
  /\ \A n \in live : \E i \in 1..k : r[i] = n
  /\ \A i, j \in 1..k : r[i] = r[j] => i = j
  /\ \A i \in 1..k - 1 : next[r[i]] = r[i + 1] /\ prev[r[i + 1]] = r[i]
  /\ IF k = 0
     THEN head = NULL /\ tail = NULL
     ELSE head = r[1] /\ tail = r[k] /\ next[r[k]] = r[1] /\ prev[r[1]] = r[k]

CurrentInList == IF live = {} THEN current = NULL ELSE current \in live

\* The allocated nodes form one ring, linked the same both ways, that head and
\* tail open and close and that holds current; no pointer of the list is left
\* at a freed node.  Holds at every step of a reload too, which appends and
\* drops nodes around the one on the display (bmlist.c:6-80).
RingIntact ==
  /\ CurrentInList
  /\ \E r \in [1..Cardinality(live) -> live] : IsRing(r, Cardinality(live))

\* The ring is intact and all its nodes and contents are of their types.
RingSafe == TypeOK /\ RingIntact

\* A list without a node, which every later call would follow to address 0, is
\* only left by a load that read eight empty slots (main.c:199-207).
LostOnlyToEmptySlots ==
  [][current # NULL /\ current' = NULL => pc = "sizes" /\ live = {current}]_vars

\* A bitmap that comes up starts with its first frame, whatever frame it was
\* left at (bmlist.c:27-46).
FreshStart ==
  [][current' # current /\ current' # NULL => anim_step'[current'] = 0]_vars

\* The nodes in the order of their links: while RingIntact holds there is one such order.
Rings == {r \in [1..Cardinality(live) -> live] : IsRing(r, Cardinality(live))}
Chain == CHOOSE r \in Rings : TRUE
Played == [i \in 1..Cardinality(live) |-> content[Chain[i]]]
Place(n) == CHOOSE i \in 1..Cardinality(live) : Chain[i] = n

\* While a reload is at work only the bitmap on the display counts.
RingShown == IF pc = "idle" THEN Played ELSE <<content[current]>>
RingPlace == IF current = NULL \/ pc # "idle" THEN 1 ELSE Place(current)

Ring == INSTANCE BmRing WITH
  shown <- RingShown, cur <- RingPlace, playAll <- is_play_sequentially

\* The linked list behaves as the ring of bitmaps its users rely on: play goes
\* through all of them in order, and a reload replaces them as a whole.
ImplementsRing == Ring!Spec

\* With the flash left alone meanwhile, a reload leaves exactly the filled
\* slots of the stored upload, in their order and each with its own modes, and
\* starts at the first (main.c:190-208).
ReloadShowsStored ==
  [][ LoadDone /\ undisturbed =>
      /\ Cardinality(live') = Cardinality(Filled[stored])
      /\ \A n \in live' : /\ content'[n].sized = stored
                          /\ content'[n].bits = stored /\ content'[n].modes = stored
                          /\ content'[n].slot \in Filled[stored]
                          /\ n # tail' => content'[n].slot < content'[next'[n]].slot
      /\ current' = head' ]_vars

Holds(s) == pc = "idle" /\ \E n \in live : content[n].slot = s
OnDisplay(s) == current # NULL /\ content[current].slot = s

\* Played by itself, the list shows every bitmap it holds over and over.
EveryBitmapShown ==
  \A s \in Slots : <>[](is_play_sequentially /\ Holds(s)) => []<>OnDisplay(s)

=============================================================================
