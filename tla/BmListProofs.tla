---------------------------- MODULE BmListProofs ----------------------------
(***************************************************************************)
(* Proofs about BmList for any number of nodes, slots and uploads: the     *)
(* allocated nodes always form one doubly linked ring, the list is left    *)
(* without a node only by a load of empty slots, what is played is the     *)
(* ring of BmRing, and an undisturbed reload leaves what is stored.        *)
(***************************************************************************)
EXTENDS BmList, FiniteSetTheorems, SequenceTheorems, TLAPS

\* A load has a bitmap on the display throughout, and an upload to read.
LoadState ==
  /\ pc # "idle" => live # {}
  /\ pc \in {"sizes", "bits", "modes"} => stored \in Images
  /\ pc \in {"bits", "modes"} => slot \in Slots /\ chunk.sized \in Images
  /\ pc = "modes" => chunk.bits \in Images

IInv ==
  /\ TypeOK
  /\ IsFiniteSet(live)
  /\ RingIntact
  /\ LoadState

Assumptions == NodesAssumption /\ SlotsAssumption /\ ImagesAssumption /\ StepsAssumption

-----------------------------------------------------------------------------
(* The two operations that change links keep a ring a ring.                *)

\* A ring that is appended to has one node more, at its end (bmlist.c:6-25).
LEMMA AppendRing ==
  ASSUME NEW k \in Nat \ {0}, NEW r, IsRing(r, k),
         next \in [Nodes -> Nodes], prev \in [Nodes -> Nodes], live \subseteq Nodes,
         NEW n \in Nodes \ live, bmlist_append(n)
  PROVE  (\E q \in [1..k + 1 -> live] : IsRing(q, k + 1))'
<1> DEFINE q == [i \in 1..k + 1 |-> IF i = k + 1 THEN n ELSE r[i]]
<1>0. /\ live' = live \cup {n} /\ tail = r[k] /\ head' = r[1] /\ tail' = n
      /\ next[r[k]] = r[1] /\ prev[r[1]] = r[k]
      /\ r \in [1..k -> live] /\ \A i \in 1..k : r[i] \in Nodes /\ r[i] # n
  BY DEF IsRing, bmlist_append
<1>1. q \in [1..k + 1 -> live']
  BY <1>0
<1>2. \A m \in live' : \E i \in 1..k + 1 : q[i] = m
  <2> TAKE m \in live'
  <2>1. CASE m = n
    BY <2>1
  <2>2. CASE m # n
    <3>1. PICK i \in 1..k : r[i] = m
      BY <1>0, <2>2 DEF IsRing
    <3>2. i \in 1..k + 1 /\ q[i] = m
      BY <3>1
    <3> QED BY <3>2
  <2> QED BY <2>1, <2>2
<1>3. \A i, j \in 1..k + 1 : q[i] = q[j] => i = j
  <2> TAKE i, j \in 1..k + 1
  <2>1. \A a, b \in 1..k : r[a] = r[b] => a = b
    BY DEF IsRing
  <2> QED BY <1>0, <2>1
<1>4. \A i \in 1..(k + 1) - 1 : next'[q[i]] = q[i + 1] /\ prev'[q[i + 1]] = q[i]
  <2> TAKE i \in 1..(k + 1) - 1
  <2>1. CASE i = k
    BY <1>0, <2>1 DEF bmlist_append
  <2>2. CASE i # k
    <3>1. i \in 1..k - 1 /\ i + 1 \in 1..k
      BY <2>2
    <3>2. next[r[i]] = r[i + 1] /\ prev[r[i + 1]] = r[i]
      BY <3>1 DEF IsRing
    <3>3. r[i] # r[k] /\ r[i + 1] # r[1]
      BY <3>1, <2>2 DEF IsRing
    <3>4. next'[r[i]] = next[r[i]] /\ prev'[r[i + 1]] = prev[r[i + 1]]
      BY <1>0, <3>1, <3>3 DEF bmlist_append
    <3> QED BY <3>1, <3>2, <3>4
  <2> QED BY <2>1, <2>2
<1>5. next'[q[k + 1]] = q[1] /\ prev'[q[1]] = q[k + 1] /\ head' = q[1] /\ tail' = q[k + 1]
  BY <1>0 DEF bmlist_append
<1> HIDE DEF q
<1>6. IsRing(q, k + 1)'
  <2>1. k + 1 # 0
    OBVIOUS
  <2> QED BY <1>1, <1>2, <1>3, <1>4, <1>5, <2>1 DEF IsRing
<1> QED BY <1>1, <1>6

\* A ring that a node is dropped from has one node less; from a single node
\* nothing is left (bmlist.c:58-80).
LEMMA UnlinkRing ==
  ASSUME NEW k \in Nat \ {0}, NEW r, IsRing(r, k),
         next \in [Nodes -> Nodes], prev \in [Nodes -> Nodes], live \subseteq Nodes,
         NEW n \in live, Unlink(n)
  PROVE  (\E q \in [1..k - 1 -> live] : IsRing(q, k - 1))'
<1>1. PICK j \in 1..k : r[j] = n
  BY DEF IsRing
<1> DEFINE q == [i \in 1..k - 1 |-> IF i < j THEN r[i] ELSE r[i + 1]]
<1>0. /\ live' = live \ {n} /\ head = r[1] /\ tail = r[k]
      /\ next[r[k]] = r[1] /\ prev[r[1]] = r[k]
      /\ r \in [1..k -> live] /\ \A i \in 1..k : r[i] \in Nodes
  BY DEF IsRing, Unlink
<1>2. \A a, b \in 1..k : r[a] = r[b] => a = b
  BY DEF IsRing
<1>3. \A i \in 1..k - 1 : next[r[i]] = r[i + 1] /\ prev[r[i + 1]] = r[i]
  BY DEF IsRing
<1>4. q \in [1..k - 1 -> live']
  BY <1>0, <1>1, <1>2
<1>5. \A m \in live' : \E i \in 1..k - 1 : q[i] = m
  <2> TAKE m \in live'
  <2>1. PICK i \in 1..k : r[i] = m
    BY <1>0 DEF IsRing
  <2>2. i # j
    BY <1>0, <1>1, <2>1
  <2>3. CASE i < j
    <3>1. i \in 1..k - 1 /\ q[i] = m
      BY <2>1, <2>3
    <3> QED BY <3>1
  <2>4. CASE i > j
    <3>1. i - 1 \in 1..k - 1 /\ q[i - 1] = m
      BY <2>1, <2>4
    <3> QED BY <3>1
  <2> QED BY <2>2, <2>3, <2>4
<1>6. \A a, b \in 1..k - 1 : q[a] = q[b] => a = b
  BY <1>2
<1>7. next[n] = (IF j = k THEN r[1] ELSE r[j + 1]) /\ prev[n] = (IF j = 1 THEN r[k] ELSE r[j - 1])
  <2>1. j # k => next[n] = r[j + 1]
    BY <1>1, <1>3
  <2>2. j # 1 => j - 1 \in 1..k - 1 /\ prev[r[(j - 1) + 1]] = r[j - 1]
    BY <1>1, <1>3
  <2> QED BY <1>0, <1>1, <2>1, <2>2
<1>8. /\ next' = [next EXCEPT ![prev[n]] = next[n], ![n] = n]
      /\ prev' = [prev EXCEPT ![next[n]] = prev[n], ![n] = n]
  BY DEF Unlink
<1>9. \A i \in 1..k : i # j => next'[r[i]] = IF r[i] = prev[n] THEN next[n] ELSE next[r[i]]
  BY <1>0, <1>1, <1>2, <1>8
<1>10. \A i \in 1..k : i # j => prev'[r[i]] = IF r[i] = next[n] THEN prev[n] ELSE prev[r[i]]
  BY <1>0, <1>1, <1>2, <1>8
<1>11. \A i \in 1..(k - 1) - 1 : next'[q[i]] = q[i + 1] /\ prev'[q[i + 1]] = q[i]
  <2> TAKE i \in 1..(k - 1) - 1
  <2>1. CASE i + 1 < j
    <3>1. q[i] = r[i] /\ q[i + 1] = r[i + 1] /\ next[r[i]] = r[i + 1] /\ prev[r[i + 1]] = r[i]
      BY <2>1, <1>3
    <3>2. r[i] # prev[n] /\ r[i + 1] # next[n]
      BY <2>1, <1>2, <1>7
    <3> QED BY <2>1, <3>1, <3>2, <1>9, <1>10
  <2>2. CASE i + 1 = j
    <3>1. q[i] = r[i] /\ q[i + 1] = r[j + 1] /\ prev[n] = r[i] /\ next[n] = r[j + 1]
      BY <2>2, <1>7
    <3>2. i \in 1..k /\ j + 1 \in 1..k /\ i # j /\ j + 1 # j
      BY <2>2
    <3> QED BY <3>1, <3>2, <1>9, <1>10
  <2>3. CASE i + 1 > j
    <3>1. q[i] = r[i + 1] /\ q[i + 1] = r[i + 2] /\ i + 1 \in 1..k - 1
      BY <2>3
    <3>2. next[r[i + 1]] = r[i + 2] /\ prev[r[i + 2]] = r[i + 1]
      BY <3>1, <1>3
    <3>3. r[i + 1] # prev[n] /\ r[i + 2] # next[n]
      BY <2>3, <1>2, <1>7
    <3> QED BY <2>3, <3>1, <3>2, <3>3, <1>9, <1>10
  <2> QED BY <2>1, <2>2, <2>3
<1>12. CASE k = 1
  <2>1. next[n] = n /\ prev[n] = n /\ head = n /\ tail = n
    BY <1>0, <1>1, <1>7, <1>12
  <2>2. head' = NULL /\ tail' = NULL
    BY <2>1 DEF Unlink, Other
  <2>3. IsRing(q, k - 1)'
    BY <1>4, <1>5, <1>6, <1>11, <1>12, <2>2 DEF IsRing
  <2> QED BY <1>4, <2>3
<1>13. CASE k > 1
  <2>1. next[n] # n /\ prev[n] # n
    BY <1>1, <1>2, <1>7, <1>13
  <2>2. head' = q[1]
    BY <1>0, <1>1, <1>2, <1>7, <1>13, <2>1 DEF Unlink, Other
  <2>3. tail' = q[k - 1]
    BY <1>0, <1>1, <1>2, <1>7, <1>13, <2>1 DEF Unlink, Other
  <2>4. next'[q[k - 1]] = q[1]
    <3>1. CASE j = k
      BY <1>0, <1>1, <1>7, <1>9, <1>13, <3>1
    <3>2. CASE j = 1
      <4>1. q[k - 1] = r[k] /\ q[1] = r[2] /\ prev[n] = r[k] /\ next[n] = r[2]
        BY <1>7, <1>13, <3>2
      <4> QED BY <4>1, <1>9, <1>13, <3>2
    <3>3. CASE j # 1 /\ j # k
      <4>1. q[k - 1] = r[k] /\ q[1] = r[1] /\ prev[n] = r[j - 1]
        BY <1>7, <1>13, <3>3
      <4>2. r[k] # r[j - 1]
        BY <1>2, <3>3
      <4> QED BY <4>1, <4>2, <1>0, <1>9, <3>3
    <3> QED BY <3>1, <3>2, <3>3
  <2>5. prev'[q[1]] = q[k - 1]
    <3>1. CASE j = k
      <4>1. q[1] = r[1] /\ q[k - 1] = r[k - 1] /\ next[n] = r[1] /\ prev[n] = r[k - 1]
        BY <1>7, <1>13, <3>1
      <4> QED BY <4>1, <1>10, <1>13, <3>1
    <3>2. CASE j = 1
      <4>1. q[k - 1] = r[k] /\ q[1] = r[2] /\ prev[n] = r[k] /\ next[n] = r[2]
        BY <1>7, <1>13, <3>2
      <4> QED BY <4>1, <1>10, <1>13, <3>2
    <3>3. CASE j # 1 /\ j # k
      <4>1. q[k - 1] = r[k] /\ q[1] = r[1] /\ next[n] = r[j + 1]
        BY <1>7, <1>13, <3>3
      <4>2. r[1] # r[j + 1]
        BY <1>2, <3>3
      <4> QED BY <4>1, <4>2, <1>0, <1>10, <3>3
    <3> QED BY <3>1, <3>2, <3>3
  <2>6. k - 1 # 0
    BY <1>13
  <2> HIDE DEF q
  <2>7. IsRing(q, k - 1)'
    BY <1>4, <1>5, <1>6, <1>11, <2>2, <2>3, <2>4, <2>5, <2>6 DEF IsRing
  <2> QED BY <1>4, <2>7
<1> QED BY <1>12, <1>13

-----------------------------------------------------------------------------
LEMMA InitEstablishesIInv == ASSUME Assumptions, Init PROVE IInv
<1> USE DEF Assumptions, NodesAssumption, SlotsAssumption, ImagesAssumption, StepsAssumption
<1>1. PICK n \in Nodes :
        /\ live = {n} /\ next = [m \in Nodes |-> m] /\ prev = [m \in Nodes |-> m]
        /\ current = n /\ head = n /\ tail = n
  BY DEF Init
<1>2. TypeOK
  BY <1>1 DEF Init, TypeOK, Bitmaps, Blank, NoChunk
<1>3. IsFiniteSet(live) /\ Cardinality(live) = 1
  BY <1>1, FS_Singleton
<1>4. RingIntact
  <2>1. [i \in 1..1 |-> n] \in [1..1 -> live] /\ IsRing([i \in 1..1 |-> n], 1)
    BY <1>1 DEF IsRing
  <2> QED BY <1>1, <1>3, <2>1 DEF RingIntact, CurrentInList
<1>5. LoadState
  BY DEF Init, LoadState
<1> QED BY <1>2, <1>3, <1>4, <1>5 DEF IInv

\* A step that leaves the links alone and the display on an allocated node
\* leaves the ring intact.
LEMMA SameRing ==
  ASSUME IInv, UNCHANGED links, CurrentInList'
  PROVE  IsFiniteSet(live)' /\ RingIntact'
<1>1. live' = live /\ next' = next /\ prev' = prev /\ head' = head /\ tail' = tail
  BY DEF links
<1>2. PICK r \in [1..Cardinality(live) -> live] : IsRing(r, Cardinality(live))
  BY DEF IInv, RingIntact
<1>3. IsRing(r, Cardinality(live))'
  BY <1>1, <1>2 DEF IsRing
<1> QED BY <1>1, <1>3 DEF IInv, RingIntact

\* The neighbours of an allocated node are allocated.
LEMMA Neighbours ==
  ASSUME IInv, NEW n \in live
  PROVE  next[n] \in live /\ head \in live /\ tail \in live
<1>1. PICK r \in [1..Cardinality(live) -> live] : IsRing(r, Cardinality(live))
  BY DEF IInv, RingIntact
<1>2. Cardinality(live) \in Nat \ {0}
  BY FS_CardinalityType, FS_EmptySet DEF IInv
<1>3. PICK j \in 1..Cardinality(live) : r[j] = n
  BY <1>1 DEF IsRing
<1>4. next[n] = IF j = Cardinality(live) THEN r[1] ELSE r[j + 1]
  BY <1>1, <1>2, <1>3 DEF IsRing
<1>5. head = r[1] /\ tail = r[Cardinality(live)]
  BY <1>1, <1>2 DEF IsRing
<1> QED BY <1>1, <1>2, <1>3, <1>4, <1>5

\* What a drop leaves: the ring without the node, and nothing at all when the
\* node was its own neighbour.
LEMMA DropKeepsRing ==
  ASSUME IInv, NEW n \in live, Unlink(n)
  PROVE  /\ IsFiniteSet(live') /\ live' = live \ {n}
         /\ (\E r \in [1..Cardinality(live) -> live] : IsRing(r, Cardinality(live)))'
         /\ next[n] = n <=> live = {n}
<1>1. Cardinality(live) \in Nat \ {0}
  BY FS_CardinalityType, FS_EmptySet DEF IInv
<1>2. PICK k \in Nat \ {0} : k = Cardinality(live)
  BY <1>1
<1>3. PICK r \in [1..k -> live] : IsRing(r, k)
  BY <1>2 DEF IInv, RingIntact
<1>4. live' = live \ {n} /\ IsFiniteSet(live') /\ Cardinality(live') = k - 1
  BY <1>2, FS_RemoveElement DEF IInv, Unlink
<1>5. next \in [Nodes -> Nodes] /\ prev \in [Nodes -> Nodes] /\ live \subseteq Nodes
  BY DEF IInv, TypeOK
<1>6. PICK q : (q \in [1..k - 1 -> live] /\ IsRing(q, k - 1))'
  BY <1>3, <1>5, UnlinkRing
<1>7. (\E r_1 \in [1..Cardinality(live) -> live] : IsRing(r_1, Cardinality(live)))'
  BY <1>4, <1>6
<1>8. next[n] = n <=> live = {n}
  <2>1. PICK j \in 1..k : r[j] = n
    BY <1>3 DEF IsRing
  <2>2. next[n] = IF j = k THEN r[1] ELSE r[j + 1]
    BY <1>3, <2>1 DEF IsRing
  <2>3. next[n] = n => k = 1
    BY <1>3, <2>1, <2>2 DEF IsRing
  <2>4. k = 1 => live = {n}
    BY <1>3, <2>1 DEF IsRing
  <2>5. live = {n} => next[n] = n
    BY Neighbours
  <2> QED BY <2>3, <2>4, <2>5
<1> QED BY <1>4, <1>7, <1>8

\* An append leaves the ring with the new node.
LEMMA AppendKeepsRing ==
  ASSUME IInv, live # {}, NEW n \in Nodes \ live, bmlist_append(n)
  PROVE  /\ IsFiniteSet(live') /\ live' = live \cup {n}
         /\ (\E r \in [1..Cardinality(live) -> live] : IsRing(r, Cardinality(live)))'
<1>1. Cardinality(live) \in Nat \ {0}
  BY FS_CardinalityType, FS_EmptySet DEF IInv
<1>2. PICK k \in Nat \ {0} : k = Cardinality(live)
  BY <1>1
<1>3. PICK r \in [1..k -> live] : IsRing(r, k)
  BY <1>2 DEF IInv, RingIntact
<1>4. live' = live \cup {n} /\ IsFiniteSet(live') /\ Cardinality(live') = k + 1
  BY <1>2, FS_AddElement DEF IInv, bmlist_append
<1>5. next \in [Nodes -> Nodes] /\ prev \in [Nodes -> Nodes] /\ live \subseteq Nodes
  BY DEF IInv, TypeOK
<1>6. PICK q : (q \in [1..k + 1 -> live] /\ IsRing(q, k + 1))'
  BY <1>3, <1>5, AppendRing
<1>7. (\E r_1 \in [1..Cardinality(live) -> live] : IsRing(r_1, Cardinality(live)))'
  BY <1>4, <1>6
<1> QED BY <1>4, <1>7

-----------------------------------------------------------------------------
(* Every action.                                                           *)

LEMMA Remainder == ASSUME NEW a \in Nat, NEW b \in Nat \ {0} PROVE a % b \in 0..b - 1
OBVIOUS

LEMMA TypesKept == ASSUME Assumptions, IInv, [Next]_vars PROVE TypeOK'
<1> USE DEF Assumptions, NodesAssumption, SlotsAssumption, ImagesAssumption,
            StepsAssumption, TypeOK, IInv
<1>0. /\ live # {} => current \in live /\ next[current] \in live /\ head \in live
      /\ live = {} => current = NULL
  BY Neighbours DEF RingIntact, CurrentInList
<1>1. CASE reload_bmlist
  BY <1>1 DEF reload_bmlist, links
<1>2. CASE DropNext
  BY <1>0, <1>2 DEF DropNext, Unlink, Other, Forget, Blank, Bitmaps, loading, LoadState
<1>3. CASE CleanDone
  BY <1>3 DEF CleanDone, links
<1>4. CASE CheckHeader
  BY <1>4 DEF CheckHeader, links
<1>5. CASE ReadBits
  BY <1>5 DEF ReadBits, links, Slots, LoadState
<1>5a. CASE ReadSizes
  BY <1>5a DEF ReadSizes, NoChunk, links, Slots, LoadState
<1>6. CASE AppendBitmap
  <2>1. PICK n \in Nodes \ live :
          /\ bmlist_append(n)
          /\ content' = [content EXCEPT ![n] = [sized |-> chunk.sized, bits |-> chunk.bits,
                                              modes |-> stored, slot |-> slot]]
          /\ anim_step' = [anim_step EXCEPT ![n] = 0]
    BY <1>6 DEF AppendBitmap
  <2>2. [sized |-> chunk.sized, bits |-> chunk.bits, modes |-> stored, slot |-> slot] \in Bitmaps
    BY <1>6 DEF AppendBitmap, Bitmaps, LoadState
  <2>3. live # {} /\ tail \in Nodes /\ next[tail] \in Nodes
    <3>1. live # {}
      BY <1>6 DEF AppendBitmap, LoadState
    <3>2. tail \in live
      BY <3>1, Neighbours
    <3> QED BY <3>1, <3>2
  <2>4. content' \in [Nodes -> Bitmaps] /\ anim_step' \in [Nodes -> 0..Steps - 1]
    BY <2>1, <2>2
  <2>5. /\ live' \subseteq Nodes /\ next' \in [Nodes -> Nodes] /\ prev' \in [Nodes -> Nodes]
        /\ {head', tail'} \subseteq Nodes \cup {NULL}
    BY <2>1, <2>3 DEF bmlist_append
  <2>6. slot' \in 1..NSlots + 1
    BY <1>6 DEF AppendBitmap, LoadState, Slots
  <2> QED BY <1>6, <2>4, <2>5, <2>6 DEF AppendBitmap, NoChunk
<1>7. CASE LoadDone
  BY <1>0, <1>7 DEF LoadDone, Unlink, Other, Forget, Blank, Bitmaps, LoadState
<1>8. CASE ANI_NEXT_STEP
  <2>1. current \in Nodes
    BY <1>0, <1>8 DEF ANI_NEXT_STEP
  <2> DEFINE step == (anim_step[current] + 1) % Steps
  <2>2. step \in 0..Steps - 1
    <3>1. anim_step[current] + 1 \in Nat
      BY <2>1
    <3> QED BY <3>1, Remainder
  <2> HIDE DEF step
  <2>3. anim_step' \in [Nodes -> 0..Steps - 1] /\ current' \in Nodes
    <3>1. CASE step = 0 /\ is_play_sequentially
      BY <1>0, <1>8, <2>1, <2>2, <3>1 DEF ANI_NEXT_STEP, Show, step
    <3>2. CASE ~(step = 0 /\ is_play_sequentially)
      BY <1>8, <2>1, <2>2, <3>2 DEF ANI_NEXT_STEP, step
    <3> QED BY <3>1, <3>2
  <2> QED BY <1>8, <2>3 DEF ANI_NEXT_STEP, links, loading
<1>9. CASE bm_transition
  BY <1>0, <1>9 DEF bm_transition, Show, links, loading
<1>10. CASE data_flatSave
  BY <1>10 DEF data_flatSave, links, loading
<1>11. CASE UNCHANGED vars
  BY <1>11 DEF vars, links, loading
<1> QED BY <1>1, <1>2, <1>3, <1>4, <1>5, <1>5a, <1>6, <1>7, <1>8, <1>9, <1>10, <1>11 DEF Next, Load

LEMMA RingKept ==
  ASSUME Assumptions, IInv, [Next]_vars
  PROVE  IsFiniteSet(live)' /\ RingIntact'
<1>0. /\ live # {} => current \in live /\ next[current] \in live /\ head \in live
      /\ live = {} => current = NULL
  BY Neighbours DEF IInv, RingIntact, CurrentInList
<1>1. CASE UNCHANGED <<links, current>>
  <2>1. CurrentInList'
    BY <1>0, <1>1 DEF CurrentInList, links
  <2> QED BY <1>1, <2>1, SameRing
<1>2. CASE DropNext
  <2>1. next[current] \in live /\ next[current] # current /\ current \in live
    BY <1>0, <1>2 DEF DropNext, IInv, LoadState
  <2>2. /\ IsFiniteSet(live') /\ live' = live \ {next[current]}
        /\ (\E r \in [1..Cardinality(live) -> live] : IsRing(r, Cardinality(live)))'
    BY <1>2, <2>1, DropKeepsRing DEF DropNext
  <2>3. CurrentInList'
    BY <1>2, <2>1, <2>2 DEF DropNext, CurrentInList
  <2> QED BY <2>2, <2>3 DEF RingIntact
<1>3. CASE AppendBitmap
  <2>1. PICK n \in Nodes \ live : bmlist_append(n)
    BY <1>3 DEF AppendBitmap
  <2>2. live # {} /\ current \in live
    BY <1>0, <1>3 DEF AppendBitmap, IInv, LoadState
  <2>3. /\ IsFiniteSet(live') /\ live' = live \cup {n}
        /\ (\E r \in [1..Cardinality(live) -> live] : IsRing(r, Cardinality(live)))'
    BY <2>1, <2>2, AppendKeepsRing
  <2>4. CurrentInList'
    BY <1>3, <2>2, <2>3 DEF AppendBitmap, CurrentInList
  <2> QED BY <2>3, <2>4 DEF RingIntact
<1>4. CASE LoadDone
  <2>1. current \in live /\ next[current] \in live
    BY <1>0, <1>4 DEF LoadDone, IInv, LoadState
  <2>2. /\ IsFiniteSet(live') /\ live' = live \ {current}
        /\ (\E r \in [1..Cardinality(live) -> live] : IsRing(r, Cardinality(live)))'
        /\ next[current] = current <=> live = {current}
    BY <1>4, <2>1, DropKeepsRing DEF LoadDone
  <2>3. CurrentInList'
    BY <1>4, <2>1, <2>2 DEF LoadDone, Other, CurrentInList
  <2> QED BY <2>2, <2>3 DEF RingIntact
<1>5. CASE ANI_NEXT_STEP
  <2>1. live # {}
    BY <1>0, <1>5 DEF ANI_NEXT_STEP, IInv, RingIntact, CurrentInList
  <2>2. UNCHANGED links /\ current' \in {current, next[current]}
    BY <1>5 DEF ANI_NEXT_STEP, Show
  <2>3. CurrentInList'
    BY <1>0, <2>1, <2>2 DEF CurrentInList, links
  <2> QED BY <2>2, <2>3, SameRing
<1>6. CASE bm_transition
  <2>1. live # {}
    BY <1>0, <1>6 DEF bm_transition, IInv, RingIntact, CurrentInList
  <2>2. UNCHANGED links /\ current' \in {head, next[current]}
    BY <1>6 DEF bm_transition, Show
  <2>3. CurrentInList'
    BY <1>0, <2>1, <2>2 DEF CurrentInList, links
  <2> QED BY <2>2, <2>3, SameRing
<1>7. CASE reload_bmlist \/ CleanDone \/ CheckHeader \/ ReadSizes \/ ReadBits \/ data_flatSave
           \/ UNCHANGED vars
  <2>1. UNCHANGED <<links, current>>
    BY <1>7 DEF reload_bmlist, CleanDone, CheckHeader, ReadSizes, ReadBits, data_flatSave, vars
  <2> QED BY <1>1, <2>1
<1> QED BY <1>2, <1>3, <1>4, <1>5, <1>6, <1>7 DEF Next, Load

LEMMA LoadStateKept == ASSUME Assumptions, IInv, [Next]_vars PROVE LoadState'
<1> USE DEF IInv, LoadState
<1>0. current # NULL => live # {}
  BY DEF RingIntact, CurrentInList
<1>1. CASE reload_bmlist
  BY <1>0, <1>1 DEF reload_bmlist, links
<1>2. CASE DropNext
  <2>1. current \in live /\ current # next[current]
    BY <1>2 DEF DropNext, RingIntact, CurrentInList
  <2> QED BY <1>2, <2>1 DEF DropNext, Unlink, loading
<1>3. CASE CleanDone
  BY <1>3 DEF CleanDone, links
<1>4. CASE CheckHeader
  BY <1>4 DEF CheckHeader, links, TypeOK
<1>5. CASE ReadBits
  BY <1>5 DEF ReadBits, links
<1>5a. CASE ReadSizes
  BY <1>5a DEF ReadSizes, NoChunk, links
<1>6. CASE AppendBitmap
  BY <1>6 DEF AppendBitmap, bmlist_append
<1>7. CASE LoadDone
  BY <1>7 DEF LoadDone
<1>8. CASE ANI_NEXT_STEP
  BY <1>8 DEF ANI_NEXT_STEP, links, loading
<1>9. CASE bm_transition
  BY <1>9 DEF bm_transition, links, loading
<1>10. CASE data_flatSave
  BY <1>10 DEF data_flatSave, links, loading
<1>11. CASE UNCHANGED vars
  BY <1>11 DEF vars, links, loading
<1> QED BY <1>1, <1>2, <1>3, <1>4, <1>5, <1>5a, <1>6, <1>7, <1>8, <1>9, <1>10, <1>11 DEF Next, Load

LEMMA StepKeepsIInv == ASSUME Assumptions, IInv, [Next]_vars PROVE IInv'
BY TypesKept, RingKept, LoadStateKept DEF IInv

-----------------------------------------------------------------------------
\* The allocated nodes form one intact ring at every step, whatever uploads
\* replace the stored one and however often the list is reloaded
\* (bmlist.c:6-80, main.c:190-208 and 888-893).
THEOREM RingIntactHolds == Assumptions => (Spec => []RingIntact)
<1> SUFFICES ASSUME Assumptions PROVE Spec => []RingIntact
  OBVIOUS
<1>1. Init => IInv
  BY InitEstablishesIInv
<1>2. IInv /\ [Next]_vars => IInv'
  BY StepKeepsIInv
<1>3. IInv => RingIntact
  BY DEF IInv
<1> QED BY <1>1, <1>2, <1>3, PTL DEF Spec

\* Only a load that found nothing but empty slots leaves the list without a
\* node (main.c:199-207).
THEOREM LostOnlyToEmptySlotsHolds == Assumptions => (Spec => LostOnlyToEmptySlots)
<1> SUFFICES ASSUME Assumptions PROVE Spec => LostOnlyToEmptySlots
  OBVIOUS
<1>1. Init => IInv
  BY InitEstablishesIInv
<1>2. IInv /\ [Next]_vars => IInv'
  BY StepKeepsIInv
<1>3. IInv /\ [Next]_vars
        => [current # NULL /\ current' = NULL => pc = "sizes" /\ live = {current}]_vars
  <2> SUFFICES ASSUME IInv, Next, current # NULL, current' = NULL
               PROVE  pc = "sizes" /\ live = {current}
    OBVIOUS
  <2>1. current \in live /\ next[current] \in live /\ head \in live /\ live \subseteq Nodes
    BY Neighbours DEF IInv, TypeOK, RingIntact, CurrentInList
  <2>2. NULL \notin live
    BY <2>1 DEF Assumptions, NodesAssumption
  <2>3. CASE LoadDone
    <3>1. next[current] = current
      BY <2>1, <2>2, <2>3 DEF LoadDone, Other
    <3>2. live = {current}
      BY <2>1, <2>3, <3>1, DropKeepsRing DEF LoadDone
    <3> QED BY <2>3, <3>2 DEF LoadDone
  <2>4. CASE ~LoadDone
    <3>1. current' \in {current, head, next[current]}
      BY <2>4 DEF Next, Load, reload_bmlist, DropNext, CleanDone, CheckHeader, ReadSizes, ReadBits,
                  AppendBitmap, ANI_NEXT_STEP, bm_transition, Show, data_flatSave
    <3> QED BY <2>1, <2>2, <3>1
  <2> QED BY <2>3, <2>4
<1> QED BY <1>1, <1>2, <1>3, PTL DEF Spec, LostOnlyToEmptySlots

\* The ring is intact and all its nodes and contents are of their types
\* (bmlist.c:6-86, main.c:113-207).
THEOREM RingSafeHolds == Assumptions => (Spec => []RingSafe)
<1> SUFFICES ASSUME Assumptions PROVE Spec => []RingSafe
  OBVIOUS
<1>1. IInv => RingSafe
  BY DEF IInv, RingSafe
<1> QED BY <1>1, InitEstablishesIInv, StepKeepsIInv, PTL DEF Spec

\* A bitmap that comes up starts with its first frame, whatever frame it was left at
\* (bmlist.c:27-46, main.c:168-182 and 199-207).
THEOREM FreshStartHolds == Assumptions => (Spec => FreshStart)
<1> SUFFICES ASSUME Assumptions PROVE Spec => FreshStart
  OBVIOUS
<1>1. IInv /\ [Next]_vars
        => [current' # current /\ current' # NULL => anim_step'[current'] = 0]_vars
  <2> SUFFICES ASSUME IInv, Next, current' # current, current' # NULL
               PROVE  anim_step'[current'] = 0
    OBVIOUS
  <2>1. /\ next \in [Nodes -> Nodes] /\ anim_step \in [Nodes -> 0..Steps - 1]
        /\ current \in Nodes \cup {NULL} /\ head \in Nodes \cup {NULL}
    BY DEF IInv, TypeOK
  <2>2. ASSUME NEW n \in Nodes \cup {NULL}, NEW steps, DOMAIN steps = Nodes, Show(n, steps)
        PROVE  anim_step'[current'] = 0
    BY <2>2 DEF Show
  <2>3. CASE ANI_NEXT_STEP
    <3> DEFINE stepped == [anim_step EXCEPT ![current] = (anim_step[current] + 1) % Steps]
    <3>1. current \in Nodes /\ next[current] \in Nodes
      BY <2>1, <2>3 DEF ANI_NEXT_STEP
    <3>2. DOMAIN stepped = Nodes
      BY <2>1
    <3>3. Show(next[current], stepped)
      BY <2>3 DEF ANI_NEXT_STEP
    <3> HIDE DEF stepped
    <3> QED BY <2>2, <3>1, <3>2, <3>3
  <2>4. CASE bm_transition
    <3> DEFINE stepped == [anim_step EXCEPT ![current] = 0]
    <3>1. current \in Nodes /\ next[current] \in Nodes
      BY <2>1, <2>4 DEF bm_transition
    <3>2. DOMAIN stepped = Nodes /\ DOMAIN anim_step = Nodes
      BY <2>1
    <3>3. Show(head, anim_step) \/ Show(next[current], stepped)
      BY <2>4 DEF bm_transition
    <3> HIDE DEF stepped
    <3> QED BY <2>1, <2>2, <3>1, <3>2, <3>3
  <2>5. CASE LoadDone
    <3>1. live # {} /\ current \in Nodes
      BY <2>5 DEF IInv, LoadState, LoadDone, RingIntact, CurrentInList, TypeOK
    <3>2. next[current] # current /\ current' = next[current] /\ next[current] \in Nodes
      BY <2>1, <2>5, <3>1 DEF LoadDone, Other
    <3>3. anim_step' = [[anim_step EXCEPT ![next[current]] = 0] EXCEPT ![current] = 0]
      BY <2>5 DEF LoadDone, Forget
    <3> QED BY <2>1, <3>1, <3>2, <3>3
  <2>6. ANI_NEXT_STEP \/ bm_transition \/ LoadDone
    BY DEF Next, Load, reload_bmlist, CleanDone, DropNext, CheckHeader, ReadSizes, ReadBits, AppendBitmap,
           data_flatSave
  <2> QED BY <2>3, <2>4, <2>5, <2>6
<1> QED BY <1>1, InitEstablishesIInv, StepKeepsIInv, PTL DEF Spec, FreshStart

-----------------------------------------------------------------------------
(* The list implements the ring of BmRing.                                 *)

\* A load starts with the bitmap on the display alone, and appends behind it.
LoadOrder ==
  /\ pc = "check" => live = {current}
  /\ pc \in {"sizes", "bits", "modes"} => head = current

\* The chain that the mapping chooses is the ring.
LEMMA ChainIsRing ==
  ASSUME IInv
  PROVE  /\ Cardinality(live) \in Nat
         /\ Chain \in [1..Cardinality(live) -> live] /\ IsRing(Chain, Cardinality(live))
<1>1. PICK r \in [1..Cardinality(live) -> live] : IsRing(r, Cardinality(live))
  BY DEF IInv, RingIntact
<1>2. r \in Rings
  BY <1>1 DEF Rings
<1>3. Chain \in Rings
  BY <1>2 DEF Chain
<1>4. Cardinality(live) \in Nat
  BY FS_CardinalityType DEF IInv
<1> QED BY <1>3, <1>4 DEF Rings

\* It stays the same while no link changes.
LEMMA SameChain ==
  ASSUME UNCHANGED links
  PROVE  Chain' = Chain /\ live' = live
<1>1. live' = live /\ next' = next /\ prev' = prev /\ head' = head /\ tail' = tail
  BY DEF links
<1>2. ASSUME NEW r, NEW k PROVE IsRing(r, k)' = IsRing(r, k)
  BY <1>1 DEF IsRing
<1>3. Rings' = Rings
  BY <1>1, <1>2 DEF Rings
<1> QED BY <1>1, <1>3 DEF Chain

\* Each node has one place in it.
LEMMA PlaceInChain ==
  ASSUME IInv, NEW n \in live
  PROVE  /\ Place(n) \in 1..Cardinality(live) /\ Chain[Place(n)] = n
         /\ \A i \in 1..Cardinality(live) : Chain[i] = n => i = Place(n)
<1>1. IsRing(Chain, Cardinality(live))
  BY ChainIsRing
<1>2. \E i \in 1..Cardinality(live) : Chain[i] = n
  BY <1>1 DEF IsRing
<1>3. Place(n) \in 1..Cardinality(live) /\ Chain[Place(n)] = n
  BY <1>2 DEF Place
<1> QED BY <1>1, <1>3 DEF IsRing

\* The links lead from a place to the next, and head to the first.
LEMMA NextPlace ==
  ASSUME IInv, NEW n \in live
  PROVE  /\ next[n] \in live /\ head \in live
         /\ Place(next[n]) = IF Place(n) = Cardinality(live) THEN 1 ELSE Place(n) + 1
         /\ Place(head) = 1
         /\ \A m \in live : Place(m) = 1 <=> m = head
<1>1. next[n] \in live /\ head \in live
  BY Neighbours
<1>2. IsRing(Chain, Cardinality(live)) /\ Cardinality(live) \in Nat
  BY ChainIsRing
<1>3. Place(n) \in 1..Cardinality(live) /\ Chain[Place(n)] = n
  BY PlaceInChain
<1>4. Cardinality(live) # 0 /\ Chain[1] = head /\ 1 \in 1..Cardinality(live)
  BY <1>2, <1>3 DEF IsRing
<1>5. next[n] = IF Place(n) = Cardinality(live) THEN Chain[1] ELSE Chain[Place(n) + 1]
  BY <1>2, <1>3, <1>4 DEF IsRing
<1>6. (IF Place(n) = Cardinality(live) THEN 1 ELSE Place(n) + 1) \in 1..Cardinality(live)
  BY <1>2, <1>3, <1>4
<1>7. Place(next[n]) = IF Place(n) = Cardinality(live) THEN 1 ELSE Place(n) + 1
  <2>1. CASE Place(n) = Cardinality(live)
    BY <1>1, <1>4, <1>5, <2>1, PlaceInChain
  <2>2. CASE Place(n) # Cardinality(live)
    BY <1>1, <1>5, <1>6, <2>2, PlaceInChain
  <2> QED BY <2>1, <2>2
<1>8. Place(head) = 1
  BY <1>1, <1>4, PlaceInChain
<1>9. \A m \in live : Place(m) = 1 => m = head
  BY <1>4, PlaceInChain
<1> QED BY <1>1, <1>7, <1>8, <1>9

\* What the mapping shows while the list is played.
LEMMA PlayedRing ==
  ASSUME Assumptions, IInv
  PROVE  Played \in Seq(Bitmaps) /\ Len(Played) = Cardinality(live)
<1>1. /\ Cardinality(live) \in Nat
      /\ Chain \in [1..Cardinality(live) -> live]
  BY ChainIsRing
<1>2. content \in [Nodes -> Bitmaps] /\ live \subseteq Nodes
  BY DEF IInv, TypeOK
<1>3. Played \in [1..Cardinality(live) -> Bitmaps]
  BY <1>1, <1>2 DEF Played
<1>4. Played \in Seq(Bitmaps)
  BY <1>1, <1>3, SeqDef
<1>5. Len(Played) \in Nat /\ DOMAIN Played = 1..Len(Played)
  BY <1>4, LenProperties
<1>6. 1..Len(Played) = 1..Cardinality(live)
  BY <1>3, <1>5
<1>7. \A a, b \in Nat : 1..a = 1..b => a = b
  <2> SUFFICES ASSUME NEW a \in Nat, NEW b \in Nat, 1..a = 1..b, a # b PROVE FALSE
    OBVIOUS
  <2>1. CASE a < b
    <3>1. b \in 1..b /\ b \notin 1..a
      BY <2>1
    <3> QED BY <3>1
  <2>2. CASE b < a
    <3>1. a \in 1..a /\ a \notin 1..b
      BY <2>2
    <3> QED BY <3>1
  <2> QED BY <2>1, <2>2
<1> QED BY <1>1, <1>4, <1>5, <1>6, <1>7

LEMMA IdleRing ==
  ASSUME Assumptions, IInv, pc = "idle", current # NULL
  PROVE  /\ current \in live
         /\ RingShown = Played /\ RingPlace = Place(current)
         /\ Len(RingShown) = Cardinality(live) /\ RingShown # <<>>
         /\ RingShown[RingPlace] = content[current]
<1>1. current \in live
  BY DEF IInv, RingIntact, CurrentInList
<1>2. RingShown = Played /\ RingPlace = Place(current)
  BY DEF RingShown, RingPlace
<1>3. Len(Played) = Cardinality(live)
  BY PlayedRing
<1>4. Place(current) \in 1..Cardinality(live) /\ Chain[Place(current)] = current
  BY <1>1, PlaceInChain
<1>5. Played[Place(current)] = content[current]
  BY <1>4 DEF Played
<1>6. Played # <<>>
  <2>1. Cardinality(live) # 0
    BY <1>4
  <2>2. Len(<<>>) = 0
    BY EmptySeq
  <2> QED BY <1>3, <2>1, <2>2
<1> QED BY <1>1, <1>2, <1>3, <1>5, <1>6

\* While it is reloaded, or when it is alone, the bitmap on the display is all of it.
LEMMA AloneRing ==
  ASSUME Assumptions, IInv, pc = "idle", live = {current}
  PROVE  RingShown = <<content[current]>> /\ RingPlace = 1
<1>1. current # NULL
  BY DEF IInv, TypeOK, Assumptions, NodesAssumption
<1>2. Cardinality(live) = 1
  BY FS_Singleton
<1>3. Chain[1] = current
  BY <1>2, ChainIsRing
<1>4. Played = <<content[current]>>
  BY <1>2, <1>3 DEF Played
<1>5. Place(current) = 1
  BY <1>2, PlaceInChain
<1> QED BY <1>1, <1>4, <1>5 DEF RingShown, RingPlace

LEMMA OrderAtStart == ASSUME Init PROVE LoadOrder
BY DEF Init, LoadOrder

LEMMA OrderKept ==
  ASSUME Assumptions, IInv, LoadOrder, [Next]_vars
  PROVE  LoadOrder'
<1>1. CASE CleanDone
  <2>1. current \in live /\ next[current] = current
    BY <1>1 DEF CleanDone, IInv, LoadState, RingIntact, CurrentInList
  <2>2. live = {current}
    <3>1. PICK r \in [1..Cardinality(live) -> live] : IsRing(r, Cardinality(live))
      BY DEF IInv, RingIntact
    <3>2. Cardinality(live) \in Nat
      BY FS_CardinalityType DEF IInv
    <3>3. PICK j \in 1..Cardinality(live) : r[j] = current
      BY <2>1, <3>1 DEF IsRing
    <3>4. next[current] = IF j = Cardinality(live) THEN r[1] ELSE r[j + 1]
      BY <3>1, <3>2, <3>3 DEF IsRing
    <3>5. Cardinality(live) = 1
      BY <2>1, <3>1, <3>2, <3>3, <3>4 DEF IsRing
    <3> QED BY <2>1, <3>1, <3>3, <3>5 DEF IsRing
  <2> QED BY <1>1, <2>2 DEF CleanDone, LoadOrder, links
<1>2. CASE CheckHeader
  <2>1. live = {current} => head = current
    <3> SUFFICES ASSUME live = {current} PROVE head = current
      OBVIOUS
    <3> QED BY Neighbours
  <2> QED BY <1>2, <2>1 DEF CheckHeader, LoadOrder, links
<1>3. CASE reload_bmlist \/ DropNext \/ ANI_NEXT_STEP \/ bm_transition \/ LoadDone
  <2>1. pc' \in {"clean", "idle"}
    BY <1>3 DEF reload_bmlist, DropNext, ANI_NEXT_STEP, bm_transition, LoadDone, loading
  <2> QED BY <2>1 DEF LoadOrder
<1>4. CASE ReadSizes \/ ReadBits
  BY <1>4 DEF ReadSizes, ReadBits, LoadOrder, links
<1>5. CASE AppendBitmap
  BY <1>5 DEF AppendBitmap, bmlist_append, LoadOrder
<1>6. CASE data_flatSave
  BY <1>6 DEF data_flatSave, LoadOrder, links
<1>7. CASE UNCHANGED vars
  BY <1>7 DEF vars, LoadOrder, links, loading
<1> QED BY <1>1, <1>2, <1>3, <1>4, <1>5, <1>6, <1>7 DEF Next, Load

LEMMA InitRing == ASSUME Assumptions, Init PROVE Ring!Init
<1>1. PICK n \in Nodes : current = n /\ content = [m \in Nodes |-> Blank]
  BY DEF Init
<1>2. pc = "check" /\ is_play_sequentially = TRUE
  BY DEF Init
<1>3. RingShown = <<Blank>> /\ RingPlace = 1
  BY <1>1, <1>2 DEF RingShown, RingPlace
<1>4. Blank \in Bitmaps
  BY DEF Bitmaps
<1> QED BY <1>2, <1>3, <1>4 DEF Ring!Init

\* A frame, or the next bitmap of the ring.
LEMMA PlayImplements ==
  ASSUME Assumptions, IInv, IInv', ANI_NEXT_STEP
  PROVE  [Ring!Next]_(Ring!vars)
<1>1. /\ pc = "idle" /\ pc' = "idle" /\ current # NULL
      /\ UNCHANGED <<links, content, is_play_sequentially>>
      /\ UNCHANGED current \/ (is_play_sequentially /\ current' = next[current])
  BY DEF ANI_NEXT_STEP, Show, loading
<1>2. current \in live /\ RingPlace = Place(current) /\ RingShown = Played
      /\ Len(RingShown) = Cardinality(live) /\ RingShown # <<>>
  BY <1>1, IdleRing
<1>3. /\ next[current] \in live
      /\ Place(next[current]) = IF Place(current) = Cardinality(live) THEN 1
                                ELSE Place(current) + 1
  BY <1>2, NextPlace
<1>4. Chain' = Chain /\ live' = live /\ RingShown' = RingShown
  BY <1>1, SameChain DEF RingShown, Played
<1>5. \A n : Place(n)' = Place(n)
  BY <1>4 DEF Place
<1>6. current' # NULL
  BY <1>1, <1>2, <1>3 DEF Assumptions, NodesAssumption, IInv, TypeOK
<1>7. RingPlace' = Place(current')
  BY <1>1, <1>4, <1>6 DEF RingPlace, Place
<1>8. CASE UNCHANGED current
  <2>1. RingPlace' = RingPlace
    BY <1>2, <1>7, <1>8
  <2> QED BY <1>1, <1>4, <2>1 DEF Ring!vars
<1>9. CASE is_play_sequentially /\ current' = next[current]
  <2>1. RingPlace' = Ring!After(RingPlace)
    BY <1>2, <1>3, <1>7, <1>9 DEF Ring!After
  <2>2. Ring!Advance
    BY <1>1, <1>4, <1>9, <2>1 DEF Ring!Advance
  <2> QED BY <1>2, <2>2 DEF Ring!Next
<1> QED BY <1>1, <1>8, <1>9

\* The key.
LEMMA PressImplements ==
  ASSUME Assumptions, IInv, bm_transition
  PROVE  [Ring!Next]_(Ring!vars)
<1>1. /\ pc = "idle" /\ pc' = "idle" /\ current # NULL
      /\ UNCHANGED <<links, content>>
      /\ current' = IF is_play_sequentially THEN head ELSE next[current]
      /\ is_play_sequentially' = (~is_play_sequentially /\ current' = head)
  BY DEF bm_transition, Show, loading
<1>2. current \in live /\ RingPlace = Place(current) /\ RingShown = Played
      /\ Len(RingShown) = Cardinality(live) /\ RingShown # <<>>
  BY <1>1, IdleRing
<1>3. /\ next[current] \in live /\ head \in live
      /\ Place(next[current]) = IF Place(current) = Cardinality(live) THEN 1
                                ELSE Place(current) + 1
      /\ Place(head) = 1
      /\ \A m \in live : Place(m) = 1 <=> m = head
  BY <1>2, NextPlace
<1>4. Chain' = Chain /\ live' = live /\ RingShown' = RingShown
  BY <1>1, SameChain DEF RingShown, Played
<1>5. current' \in live /\ current' # NULL
  BY <1>1, <1>3 DEF Assumptions, NodesAssumption, IInv, TypeOK
<1>6. RingPlace' = Place(current')
  BY <1>1, <1>4, <1>5 DEF RingPlace, Place
<1>7. RingPlace' = IF is_play_sequentially THEN 1 ELSE Ring!After(RingPlace)
  BY <1>1, <1>2, <1>3, <1>6 DEF Ring!After
<1>8. is_play_sequentially' = (~is_play_sequentially /\ RingPlace' = 1)
  <2>1. (current' = head) = (RingPlace' = 1)
    BY <1>3, <1>5, <1>6
  <2> QED BY <1>1, <2>1
<1>9. Ring!Press
  BY <1>4, <1>7, <1>8 DEF Ring!Press
<1> QED BY <1>2, <1>9 DEF Ring!Next

\* What the ring of the next state shows, from what is proved of every state.
LEMMA RingAfterStep ==
  ASSUME Assumptions
  PROVE  /\ IInv' => Played' \in Seq(Bitmaps)
         /\ IInv' => \A n \in live' : Place(head)' = 1
         /\ IInv' /\ pc' = "idle" /\ live' = {current'}
              => RingShown' = <<content'[current']>> /\ RingPlace' = 1
<1>1. IInv => Played \in Seq(Bitmaps)
  BY PlayedRing
<1>2. IInv => \A n \in live : Place(head) = 1
  BY NextPlace
<1>3. IInv /\ pc = "idle" /\ live = {current} => RingShown = <<content[current]>> /\ RingPlace = 1
  BY AloneRing
<1>4. /\ (IInv => Played \in Seq(Bitmaps))'
      /\ (IInv => \A n \in live : Place(head) = 1)'
      /\ (IInv /\ pc = "idle" /\ live = {current}
            => RingShown = <<content[current]>> /\ RingPlace = 1)'
  BY <1>1, <1>2, <1>3, PTL
<1> QED BY <1>4

\* A reload keeps the bitmap on the display, and then shows what it has read.
LEMMA LoadImplements ==
  ASSUME Assumptions, IInv, IInv', LoadOrder, reload_bmlist \/ LoadDone
  PROVE  [Ring!Next]_(Ring!vars)
<1>1. CASE reload_bmlist
  <2>1. /\ pc = "idle" /\ pc' = "clean" /\ current # NULL
        /\ UNCHANGED <<content, current, is_play_sequentially>>
    BY <1>1 DEF reload_bmlist
  <2>2. RingShown[RingPlace] = content[current] /\ RingShown # <<>>
    BY <2>1, IdleRing
  <2>3. RingShown' = <<content[current]>> /\ RingPlace' = 1
    BY <2>1 DEF RingShown, RingPlace
  <2>4. Ring!KeepCurrent
    BY <2>1, <2>2, <2>3 DEF Ring!KeepCurrent
  <2> QED BY <2>2, <2>4 DEF Ring!Next
<1>2. CASE LoadDone
  <2>1. /\ pc = "sizes" /\ pc' = "idle" /\ UNCHANGED is_play_sequentially
        /\ current' = Other(next[current], current)
        /\ head' = IF current = head THEN Other(next[current], current) ELSE head
    BY <1>2 DEF LoadDone, Unlink
  <2>2. current' = head'
    BY <2>1 DEF LoadOrder
  <2>3. RingShown' \in Seq(Bitmaps)
    <3>1. Played' \in Seq(Bitmaps)
      BY RingAfterStep
    <3> QED BY <2>1, <3>1 DEF RingShown
  <2>4. RingPlace' = 1
    <3>1. CASE current' = NULL
      BY <3>1 DEF RingPlace
    <3>2. CASE current' # NULL
      <4>1. current' \in live'
        BY <3>2 DEF IInv, RingIntact, CurrentInList
      <4>3. Place(head)' = 1
        BY <4>1, RingAfterStep
      <4> QED BY <2>1, <2>2, <3>2, <4>3 DEF RingPlace, Place
    <3> QED BY <3>1, <3>2
  <2>5. Ring!Replace
    BY <2>1, <2>3, <2>4 DEF Ring!Replace
  <2>6. RingShown # <<>>
    BY <2>1, EmptySeq DEF RingShown
  <2> QED BY <2>5, <2>6 DEF Ring!Next
<1> QED BY <1>1, <1>2

LEMMA StepRing ==
  ASSUME Assumptions, IInv, IInv', LoadOrder, [Next]_vars
  PROVE  [Ring!Next]_(Ring!vars)
<1>1. CASE ANI_NEXT_STEP
  BY <1>1, PlayImplements
<1>2. CASE bm_transition
  BY <1>2, PressImplements
<1>3. CASE reload_bmlist \/ LoadDone
  BY <1>3, LoadImplements
<1>4. CASE DropNext \/ CleanDone \/ ReadSizes \/ ReadBits \/ AppendBitmap
  <2>1. pc # "idle" /\ pc' # "idle" /\ UNCHANGED <<current, is_play_sequentially>>
    BY <1>4 DEF DropNext, CleanDone, ReadSizes, ReadBits, AppendBitmap, loading
  <2>2. current \in live
    BY <2>1 DEF IInv, LoadState, RingIntact, CurrentInList
  <2>3. content'[current] = content[current]
    BY <1>4, <2>2 DEF DropNext, Forget, CleanDone, ReadSizes, ReadBits, AppendBitmap, IInv, TypeOK
  <2>4. RingShown' = RingShown /\ RingPlace' = RingPlace
    BY <2>1, <2>3 DEF RingShown, RingPlace
  <2> QED BY <2>1, <2>4 DEF Ring!vars
<1>5. CASE CheckHeader
  <2>1. /\ live = {current} /\ pc = "check"
        /\ UNCHANGED <<links, content, current, is_play_sequentially>>
    BY <1>5 DEF CheckHeader, LoadOrder
  <2>2. RingShown = <<content[current]>> /\ RingPlace = 1
    BY <2>1 DEF RingShown, RingPlace
  <2>3. RingShown' = <<content[current]>> /\ RingPlace' = 1
    <3>1. CASE pc' = "idle"
      BY <2>1, <3>1, RingAfterStep DEF links
    <3>2. CASE pc' # "idle"
      BY <2>1, <3>2 DEF RingShown, RingPlace
    <3> QED BY <3>1, <3>2
  <2> QED BY <2>1, <2>2, <2>3 DEF Ring!vars
<1>6. CASE data_flatSave \/ UNCHANGED vars
  <2>1. UNCHANGED <<links, content, current, is_play_sequentially, pc>>
    BY <1>6 DEF data_flatSave, vars, loading
  <2>2. Chain' = Chain /\ live' = live
    BY <2>1, SameChain
  <2>3. RingShown' = RingShown /\ RingPlace' = RingPlace
    BY <2>1, <2>2 DEF RingShown, RingPlace, Played, Place
  <2> QED BY <2>1, <2>3 DEF Ring!vars
<1> QED BY <1>1, <1>2, <1>3, <1>4, <1>5, <1>6 DEF Next, Load

\* The linked list behaves as the ring of bitmaps its users rely on, for every heap and
\* every upload: play goes through all of it in order, the key picks its places, and a
\* reload replaces it as a whole (bmlist.c:6-86, main.c:168-208).
THEOREM ImplementsRingHolds == Assumptions => (Spec => ImplementsRing)
<1> SUFFICES ASSUME Assumptions PROVE Spec => ImplementsRing
  OBVIOUS
<1>1. Init => IInv /\ LoadOrder /\ Ring!Init
  BY InitEstablishesIInv, OrderAtStart, InitRing
<1>2. IInv /\ LoadOrder /\ [Next]_vars => IInv' /\ LoadOrder'
  BY StepKeepsIInv, OrderKept
<1>3. IInv /\ IInv' /\ LoadOrder /\ [Next]_vars => [Ring!Next]_(Ring!vars)
  BY StepRing
<1> QED BY <1>1, <1>2, <1>3, PTL DEF Spec, ImplementsRing, Ring!Spec

-----------------------------------------------------------------------------
(* What a reload that no upload disturbs reads.                            *)

\* The nodes behind the one on the display are the filled slots before `slot', each once
\* and in their order, with pixels and modes of the stored upload.
ReadSoFar ==
  pc \in {"sizes", "bits", "modes"} /\ undisturbed =>
    /\ pc \in {"bits", "modes"} => chunk.sized = stored /\ slot \in Filled[stored]
    /\ pc = "modes" => chunk.bits = stored
    /\ Cardinality(live) = Cardinality(Filled[stored] \cap 1..slot - 1) + 1
    /\ \A n \in live \ {current} :
         /\ content[n].sized = stored /\ content[n].bits = stored /\ content[n].modes = stored
         /\ content[n].slot \in Filled[stored] /\ content[n].slot < slot
         /\ n # tail => content[n].slot < content[next[n]].slot

\* The links at the ends of the ring.
LEMMA RingEnds ==
  ASSUME IInv, NEW n \in live
  PROVE  /\ tail \in live /\ next[tail] = head /\ prev[head] = tail
         /\ next[n] \in live
         /\ n # tail => next[n] # head
         /\ (live = {n}) <=> (head = n /\ tail = n)
<1>1. PICK r \in [1..Cardinality(live) -> live] : IsRing(r, Cardinality(live))
  BY DEF IInv, RingIntact
<1>2. PICK k \in Nat : k = Cardinality(live)
  BY FS_CardinalityType DEF IInv
<1>3. PICK j \in 1..k : r[j] = n
  BY <1>1, <1>2 DEF IsRing
<1>4. k # 0 /\ head = r[1] /\ tail = r[k] /\ next[r[k]] = r[1] /\ prev[r[1]] = r[k]
  BY <1>1, <1>2, <1>3 DEF IsRing
<1>5. n # tail => j \in 1..k - 1 /\ next[n] = r[j + 1]
  BY <1>1, <1>2, <1>3, <1>4 DEF IsRing
<1>6. n # tail => next[n] # head
  <2> SUFFICES ASSUME n # tail PROVE next[n] # head
    OBVIOUS
  <2>1. j + 1 \in 1..k /\ j + 1 # 1 /\ 1 \in 1..k
    BY <1>3, <1>5
  <2>2. \A a, b \in 1..k : r[a] = r[b] => a = b
    BY <1>1, <1>2 DEF IsRing
  <2>3. r[j + 1] # r[1]
    BY <2>1, <2>2
  <2> QED BY <1>4, <1>5, <2>3
<1>7. head = n /\ tail = n => live = {n}
  <2> SUFFICES ASSUME head = n, tail = n PROVE live = {n}
    OBVIOUS
  <2>1. k = 1
    BY <1>1, <1>2, <1>4 DEF IsRing
  <2> QED BY <1>1, <1>2, <1>4, <2>1 DEF IsRing
<1>8. tail \in live /\ next[n] \in live /\ head \in live
  BY Neighbours
<1> QED BY <1>4, <1>6, <1>7, <1>8

LEMMA ReadSlots ==
  ASSUME NEW F, F \subseteq Slots, NEW k \in 1..NSlots + 1, NSlots \in Nat
  PROVE  /\ IsFiniteSet(F \cap 1..k - 1) /\ Cardinality(F \cap 1..k - 1) \in Nat
         /\ k \notin F => F \cap 1..(k + 1) - 1 = F \cap 1..k - 1
         /\ k \in F => Cardinality(F \cap 1..(k + 1) - 1) = Cardinality(F \cap 1..k - 1) + 1
         /\ k \notin Slots => F \cap 1..k - 1 = F
         /\ k = 1 => Cardinality(F \cap 1..k - 1) = 0
<1>1. IsFiniteSet(1..k - 1)
  BY FS_Interval
<1>2. IsFiniteSet(F \cap 1..k - 1)
  BY <1>1, FS_Subset, F \cap 1..k - 1 \subseteq 1..k - 1
<1>3. Cardinality(F \cap 1..k - 1) \in Nat
  BY <1>2, FS_CardinalityType
<1>4. k \notin F => F \cap 1..(k + 1) - 1 = F \cap 1..k - 1
  OBVIOUS
<1>5. k \in F => F \cap 1..(k + 1) - 1 = (F \cap 1..k - 1) \cup {k} /\ k \notin F \cap 1..k - 1
  OBVIOUS
<1>6. k \in F => Cardinality(F \cap 1..(k + 1) - 1) = Cardinality(F \cap 1..k - 1) + 1
  BY <1>2, <1>5, FS_AddElement
<1>7. k \notin Slots => F \cap 1..k - 1 = F
  <2> SUFFICES ASSUME k \notin Slots PROVE F \cap 1..k - 1 = F
    OBVIOUS
  <2>1. k - 1 = NSlots
    BY DEF Slots
  <2> QED BY <2>1 DEF Slots
<1>8. k = 1 => Cardinality(F \cap 1..k - 1) = 0
  <2>1. k = 1 => F \cap 1..k - 1 = {}
    OBVIOUS
  <2> QED BY <2>1, FS_EmptySet
<1> QED BY <1>2, <1>3, <1>4, <1>6, <1>7, <1>8

LEMMA ReadKept ==
  ASSUME Assumptions, IInv, LoadOrder, ReadSoFar, [Next]_vars
  PROVE  ReadSoFar'
<1>0. stored \in Images => Filled[stored] \subseteq Slots
  BY DEF Assumptions, ImagesAssumption, Slots
<1>1. CASE CheckHeader
  <2> SUFFICES ASSUME pc' = "sizes" PROVE ReadSoFar'
    BY <1>1 DEF CheckHeader, ReadSoFar
  <2>1. /\ live = {current} /\ UNCHANGED <<links, content, current, stored>> /\ slot' = 1
        /\ stored \in Images
    BY <1>1 DEF CheckHeader, LoadOrder, IInv, TypeOK
  <2>2. Cardinality(live) = 1
    BY <2>1, FS_Singleton
  <2>3. Cardinality(Filled[stored] \cap 1..1 - 1) = 0
    <3>1. Filled[stored] \cap 1..1 - 1 = {}
      OBVIOUS
    <3> QED BY <3>1, FS_EmptySet
  <2> QED BY <2>1, <2>2, <2>3 DEF ReadSoFar, links
<1>2. CASE ReadSizes
  <2> SUFFICES ASSUME undisturbed' PROVE ReadSoFar'
    BY DEF ReadSoFar
  <2>1. /\ pc = "sizes" /\ slot \in Slots /\ undisturbed /\ stored \in Images
        /\ UNCHANGED <<links, content, current, stored>>
    BY <1>2 DEF ReadSizes, NoChunk, IInv, LoadState
  <2>2. CASE slot \in Filled[stored]
    BY <1>2, <2>1, <2>2 DEF ReadSizes, NoChunk, ReadSoFar, links
  <2>3. CASE slot \notin Filled[stored]
    <3>1. slot' = slot + 1 /\ pc' = pc
      BY <1>2, <2>3 DEF ReadSizes
    <3>2. Filled[stored] \cap 1..(slot + 1) - 1 = Filled[stored] \cap 1..slot - 1
      BY <1>0, <2>1, <2>3, ReadSlots DEF Assumptions, SlotsAssumption, IInv, TypeOK
    <3>3. /\ Cardinality(live) = Cardinality(Filled[stored] \cap 1..slot - 1) + 1
          /\ \A n \in live \ {current} :
               /\ content[n].sized = stored /\ content[n].bits = stored /\ content[n].modes = stored
               /\ content[n].slot \in Filled[stored] /\ content[n].slot < slot
               /\ n # tail => content[n].slot < content[next[n]].slot
      BY <2>1 DEF ReadSoFar
    <3>4. \A n \in live \ {current} : content[n].slot < slot + 1
      <4> TAKE n \in live \ {current}
      <4>1. content[n].slot \in Nat /\ slot \in Nat
        BY <1>0, <2>1, <3>3 DEF Slots
      <4> QED BY <3>3, <4>1
    <3> QED BY <2>1, <3>1, <3>2, <3>3, <3>4 DEF ReadSoFar, links
  <2> QED BY <2>2, <2>3
<1>2a. CASE ReadBits
  BY <1>2a DEF ReadBits, ReadSoFar, links, IInv, TypeOK
<1>3. CASE AppendBitmap
  <2> SUFFICES ASSUME undisturbed' PROVE ReadSoFar'
    BY DEF ReadSoFar
  <2>1. PICK m \in Nodes \ live :
          /\ bmlist_append(m)
          /\ content' = [content EXCEPT ![m] = [sized |-> chunk.sized, bits |-> chunk.bits,
                                              modes |-> stored, slot |-> slot]]
    BY <1>3 DEF AppendBitmap
  <2>2. /\ pc = "modes" /\ pc' = "sizes" /\ slot' = slot + 1
        /\ undisturbed /\ UNCHANGED <<current, stored>>
        /\ stored \in Images /\ slot \in Slots /\ live # {}
    BY <1>3 DEF AppendBitmap, IInv, LoadState
  <2>3. /\ chunk.sized = stored /\ chunk.bits = stored /\ slot \in Filled[stored]
        /\ Cardinality(live) = Cardinality(Filled[stored] \cap 1..slot - 1) + 1
        /\ \A n \in live \ {current} :
             /\ content[n].sized = stored /\ content[n].bits = stored /\ content[n].modes = stored
             /\ content[n].slot \in Filled[stored] /\ content[n].slot < slot
             /\ n # tail => content[n].slot < content[next[n]].slot
    BY <2>2 DEF ReadSoFar
  <2>4. /\ current \in live /\ head = current /\ tail \in live /\ next[tail] = head
        /\ \A n \in live : next[n] \in live
    BY <2>2, RingEnds DEF LoadOrder, IInv, RingIntact, CurrentInList
  <2>5. /\ live' = live \cup {m} /\ tail' = m
        /\ next' = [next EXCEPT ![m] = next[tail], ![tail] = m]
    BY <2>1 DEF bmlist_append
  <2>6. Cardinality(live') = Cardinality(Filled[stored] \cap 1..(slot + 1) - 1) + 1
    <3>1. Cardinality(live') = Cardinality(live) + 1
      BY <2>5, FS_AddElement DEF IInv
    <3>2. /\ Cardinality(Filled[stored] \cap 1..(slot + 1) - 1)
               = Cardinality(Filled[stored] \cap 1..slot - 1) + 1
          /\ Cardinality(Filled[stored] \cap 1..slot - 1) \in Nat
      BY <1>0, <2>2, <2>3, ReadSlots DEF Assumptions, SlotsAssumption, IInv, TypeOK
    <3> QED BY <2>3, <3>1, <3>2
  <2>7. /\ live \subseteq Nodes /\ next \in [Nodes -> Nodes] /\ content \in [Nodes -> Bitmaps]
    BY DEF IInv, TypeOK
  <2>8. content'[m] = [sized |-> stored, bits |-> stored, modes |-> stored, slot |-> slot]
    BY <2>1, <2>3, <2>7
  <2>9. \A n \in live : content'[n] = content[n]
    BY <2>1, <2>7
  <2>10. \A n \in live : next'[n] = IF n = tail THEN m ELSE next[n]
    BY <2>1, <2>4, <2>5, <2>7
  <2>11. ASSUME NEW n \in live' \ {current}
         PROVE  /\ content'[n].sized = stored /\ content'[n].bits = stored /\ content'[n].modes = stored
                /\ content'[n].slot \in Filled[stored] /\ content'[n].slot < slot + 1
                /\ n # tail' => content'[n].slot < content'[next'[n]].slot
    <3>1. CASE n = m
      <4>1. content'[n].slot = slot /\ slot < slot + 1
        BY <2>2, <2>8, <3>1 DEF Slots
      <4> QED BY <2>3, <2>5, <2>8, <3>1, <4>1
    <3>2. CASE n # m
      <4>1. n \in live \ {current} /\ content'[n] = content[n]
        BY <2>5, <2>9, <2>11, <3>2
      <4>2. content[n].slot \in Nat /\ slot \in Nat
        BY <1>0, <2>2, <2>3, <4>1 DEF Slots
      <4>3. CASE n = tail
        <5>1. content'[next'[n]].slot = slot
          BY <2>8, <2>10, <4>1, <4>3
        <5> QED BY <2>3, <4>1, <4>2, <5>1
      <4>4. CASE n # tail
        <5>1. next'[n] = next[n] /\ content'[next[n]] = content[next[n]]
          BY <2>4, <2>9, <2>10, <4>1, <4>4
        <5> QED BY <2>3, <4>1, <4>2, <4>4, <5>1
      <4> QED BY <4>3, <4>4
    <3> QED BY <3>1, <3>2
  <2> QED BY <2>2, <2>6, <2>11 DEF ReadSoFar
<1>4. CASE reload_bmlist \/ DropNext \/ CleanDone \/ LoadDone \/ ANI_NEXT_STEP \/ bm_transition
  <2>1. pc' \notin {"sizes", "bits", "modes"}
    BY <1>4 DEF reload_bmlist, DropNext, CleanDone, LoadDone, ANI_NEXT_STEP, bm_transition,
                loading
  <2> QED BY <2>1 DEF ReadSoFar
<1>5. CASE data_flatSave
  BY <1>5 DEF data_flatSave, ReadSoFar
<1>6. CASE UNCHANGED vars
  BY <1>6 DEF vars, links, loading, ReadSoFar
<1> QED BY <1>1, <1>2, <1>2a, <1>3, <1>4, <1>5, <1>6 DEF Next, Load

\* A reload that no upload disturbs leaves exactly the filled slots of the stored upload,
\* in their order, each with its own modes, and starts at the first (main.c:190-208).
THEOREM ReloadShowsStoredHolds == Assumptions => (Spec => ReloadShowsStored)
<1> SUFFICES ASSUME Assumptions PROVE Spec => ReloadShowsStored
  OBVIOUS
<1>1. Init => IInv /\ LoadOrder /\ ReadSoFar
  <2>1. Init => ReadSoFar
    BY DEF Init, ReadSoFar
  <2> QED BY <2>1, InitEstablishesIInv, OrderAtStart
<1>2. IInv /\ LoadOrder /\ ReadSoFar /\ [Next]_vars => IInv' /\ LoadOrder' /\ ReadSoFar'
  BY StepKeepsIInv, OrderKept, ReadKept
<1>3. IInv /\ LoadOrder /\ ReadSoFar /\ [Next]_vars
        => [ LoadDone /\ undisturbed =>
             /\ Cardinality(live') = Cardinality(Filled[stored])
             /\ \A n \in live' : /\ content'[n].sized = stored
                                 /\ content'[n].bits = stored /\ content'[n].modes = stored
                                 /\ content'[n].slot \in Filled[stored]
                                 /\ n # tail' => content'[n].slot < content'[next'[n]].slot
             /\ current' = head' ]_vars
  <2> SUFFICES ASSUME IInv, LoadOrder, ReadSoFar, LoadDone, undisturbed
               PROVE  /\ Cardinality(live') = Cardinality(Filled[stored])
                      /\ \A n \in live' :
                           /\ content'[n].sized = stored /\ content'[n].bits = stored /\ content'[n].modes = stored
                           /\ content'[n].slot \in Filled[stored]
                           /\ n # tail' => content'[n].slot < content'[next'[n]].slot
                      /\ current' = head'
    OBVIOUS
  <2>1. /\ pc = "sizes" /\ slot \notin Slots /\ Unlink(current) /\ stored \in Images
        /\ current' = Other(next[current], current)
        /\ content' = [content EXCEPT ![current] = Blank]
    BY DEF LoadDone, Forget, IInv, LoadState
  <2>2. /\ live' = live \ {current}
        /\ next' = [next EXCEPT ![prev[current]] = next[current], ![current] = current]
        /\ head' = IF current = head THEN Other(next[current], current) ELSE head
        /\ tail' = IF current = tail THEN Other(prev[current], current) ELSE tail
    BY <2>1 DEF Unlink
  <2>3. /\ Cardinality(live) = Cardinality(Filled[stored] \cap 1..slot - 1) + 1
        /\ \A n \in live \ {current} :
             /\ content[n].sized = stored /\ content[n].bits = stored /\ content[n].modes = stored
             /\ content[n].slot \in Filled[stored] /\ content[n].slot < slot
             /\ n # tail => content[n].slot < content[next[n]].slot
    BY <2>1 DEF ReadSoFar
  <2>4. current \in live /\ head = current
    BY <2>1 DEF LoadOrder, IInv, LoadState, RingIntact, CurrentInList
  <2>5. /\ prev[current] = tail /\ tail \in live
        /\ \A n \in live : next[n] \in live /\ (n # tail => next[n] # current)
        /\ tail = current => live = {current}
    BY <2>4, RingEnds
  <2>6. Cardinality(live') = Cardinality(Filled[stored])
    <3>1. Cardinality(live') = Cardinality(live) - 1
      BY <2>2, <2>4, FS_RemoveElement DEF IInv
    <3>2. Filled[stored] \subseteq Slots /\ NSlots \in Nat /\ slot \in 1..NSlots + 1
      BY <2>1 DEF Assumptions, ImagesAssumption, SlotsAssumption, Slots, IInv, TypeOK
    <3>3. /\ Filled[stored] \cap 1..slot - 1 = Filled[stored]
          /\ Cardinality(Filled[stored] \cap 1..slot - 1) \in Nat
      BY <2>1, <3>2, ReadSlots
    <3>4. PICK c \in Nat : c = Cardinality(Filled[stored] \cap 1..slot - 1)
      BY <3>3
    <3>5. Cardinality(live) = c + 1 /\ Cardinality(Filled[stored]) = c
      BY <2>3, <3>3, <3>4
    <3> QED BY <3>1, <3>5
  <2>7. ASSUME NEW n \in live'
        PROVE  /\ content'[n].sized = stored /\ content'[n].bits = stored /\ content'[n].modes = stored
               /\ content'[n].slot \in Filled[stored]
               /\ n # tail' => content'[n].slot < content'[next'[n]].slot
    <3>1. n \in live \ {current} /\ tail # current /\ tail' = tail
      BY <2>2, <2>5, <2>7
    <3>2. /\ live \subseteq Nodes /\ next \in [Nodes -> Nodes] /\ content \in [Nodes -> Bitmaps]
      BY DEF IInv, TypeOK
    <3>3. content'[n] = content[n]
      BY <2>1, <3>1, <3>2
    <3>4. n # tail => next'[n] = next[n] /\ next[n] \in live /\ next[n] # current
      BY <2>2, <2>5, <3>1, <3>2
    <3>5. n # tail => content'[next'[n]] = content[next[n]]
      BY <2>1, <3>2, <3>4
    <3> QED BY <2>3, <3>1, <3>3, <3>5
  <2>8. current' = head'
    BY <2>1, <2>2, <2>4
  <2> QED BY <2>6, <2>7, <2>8
<1> QED BY <1>1, <1>2, <1>3, PTL DEF Spec, ReloadShowsStored

=============================================================================
