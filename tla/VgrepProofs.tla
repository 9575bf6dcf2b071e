------------------------------ MODULE VgrepProofs ------------------------------
(***************************************************************************)
(* For every pattern, every input and every block size, the marker streams *)
(* of vgrep hold the ends of the texts that the items matched so far, and  *)
(* the number it prints is the number of matches of the pattern.           *)
(***************************************************************************)
EXTENDS Vgrep, StreamProofs

Blocks == BlocksFor(input_size)

\* The positions of the bytes of a class, and those marked after k items.
ClassBits(k) == {p \in 0..(Capacity - 1) : Padded[p] \in cc_list[k].class}
MarkedBits(k) == {p \in 0..(Capacity - 1) : Marked(cc_list, Padded, k, p)}

Started == pc \in {"markers", "done"}

TypeInv ==
    /\ cc_size \in 0..MaxItems
    /\ cc_list \in [0..(cc_size - 1) -> Item]
    /\ input_size \in 0..MaxInput
    /\ input \in [0..(input_size - 1) -> Byte]
    /\ i \in 0..cc_size
    /\ markers \in [0..cc_size -> [0..(Blocks - 1) -> SUBSET Payload]]
    /\ pc = "classes" => i = 0
    /\ Started => cc_size > 0

\* The class streams stay what the classes make of the input.
ClassesExact ==
    Started =>
        \A k \in 0..(cc_size - 1) :
            IsStream(cc_bit_streams[k], Blocks) /\ Positions(cc_bit_streams[k]) = ClassBits(k)

\* Every marker stream written so far, the first one too.
MarkersExact == Started => \A k \in 0..i : Positions(markers[k]) = MarkedBits(k)

MatchedExact == pc = "done" => i = cc_size /\ matched = PopCount(markers[cc_size])

\* The inductive invariant: the property of the marker streams says nothing of
\* the first one, and cannot be carried on without the classes.
VgrepInv == TypeInv /\ ClassesExact /\ MarkersExact /\ MatchedExact

(***************************************************************************)
(* The input in blocks.                                                    *)
(***************************************************************************)

\* The blocks have room for the input, and less than a block more.
LEMMA InputFits ==
    ASSUME input_size \in Nat
    PROVE  /\ Blocks \in Nat /\ Capacity = Blocks * BlockSize /\ Capacity \in Nat
           /\ input_size <= Capacity /\ Capacity < input_size + BlockSize
<1> USE BlockSizeAssumption
<1> DEFINE up == input_size + BlockSize - 1
           n == up \div BlockSize
           r == up % BlockSize
<1>1. up \in Nat /\ n \in Nat /\ r \in 0..(BlockSize - 1) /\ up = n * BlockSize + r
  OBVIOUS
<1>2. Blocks = n /\ Capacity = n * BlockSize
  BY DEF Blocks, BlocksFor, Capacity
<1> HIDE DEF n, r
<1>3. n * BlockSize \in Nat
  BY <1>1
<1> QED
  BY <1>1, <1>2, <1>3

\* No class has a byte after the input.
LEMMA PaddingMatchesNothing ==
    ASSUME TypeInv, NEW k \in 0..(cc_size - 1), NEW p \in 0..Capacity
    PROVE  Padded[p] \in cc_list[k].class <=> p < input_size /\ input[p] \in cc_list[k].class
<1>1. cc_list[k] \in Item
  BY DEF TypeInv
<1>2. Nul \notin cc_list[k].class
  BY <1>1, ClassAssumption DEF Item
<1>3. Padded[p] = IF p < input_size THEN input[p] ELSE Nul
  BY DEF Padded
<1> QED
  BY <1>2, <1>3

\* Byte by byte, the class stream gets the positions of the class: the loop
\* has a result, and every result of it has these positions.
LEMMA ClassStreamBits ==
    ASSUME input_size \in Nat, NEW class
    PROVE  /\ IsStream(ClassStream(class), Blocks)
           /\ Positions(ClassStream(class)) = {q \in 0..(input_size - 1) : input[q] \in class}
<1> DEFINE Seen(p) == {q \in 0..(p - 1) : input[q] \in class}
           Filled(p) == [b \in 0..(Blocks - 1) |->
                            {q \in Payload : b * BlockSize + q \in Seen(p)}]
           filled == [p \in 0..input_size |-> Filled(p)]
           Then(f, p) == IF p = 0 THEN Zeros(Blocks)
                         ELSE SetBit(f[p - 1], p - 1, input[p - 1] \in class)
           Runs(f) == f = [p \in 0..input_size |-> Then(f, p)]
           after == CHOOSE f : Runs(f)
           Has(s, p) == IsStream(s, Blocks) /\ Positions(s) = Seen(p)
<1>1. Blocks \in Nat /\ Capacity = Blocks * BlockSize /\ Capacity \in Nat /\ input_size <= Capacity
  BY InputFits
<1>2. ASSUME NEW p \in 0..input_size
      PROVE  Has(Filled(p), p)
  <2>1. IsStream(Filled(p), Blocks)
    BY <1>1 DEF IsStream
  <2>2. Seen(p) \in SUBSET (0..(Blocks * BlockSize - 1))
    BY <1>1
  <2>3. \A b \in 0..(Blocks - 1) : \A q \in Payload :
            q \in Filled(p)[b] <=> b * BlockSize + q \in Seen(p)
    OBVIOUS
  <2> HIDE DEF Filled, Seen
  <2> QED
    BY <2>1, <2>2, <2>3, PositionsAre
<1>3. ASSUME NEW f, NEW p \in 0..input_size, p > 0, Has(f[p - 1], p - 1)
      PROVE  Has(Then(f, p), p)
  <2> DEFINE value == input[p - 1] \in class
  <2>1. Then(f, p) = SetBit(f[p - 1], p - 1, value)
    BY <1>3
  <2>2. p - 1 \in 0..(Blocks * BlockSize - 1) /\ value \in BOOLEAN
    BY <1>1, <1>3
  <2>3. Seen(p) = Seen(p - 1) \cup (IF value THEN {p - 1} ELSE {})
    BY <1>3
  <2> HIDE DEF Seen, Then, value
  <2> QED
    BY <1>3, <2>1, <2>2, <2>3, SetBitBits
<1>4. ASSUME NEW f
      PROVE  Has(Then(f, 0), 0)
  BY <1>1, ZerosStream
<1>5. ASSUME NEW p \in 0..input_size
      PROVE  filled[p] = Then(filled, p)
  <2>1. filled[p] = Filled(p)
    OBVIOUS
  <2>2. CASE p = 0
    <3> HIDE DEF filled, Filled, Seen, Then
    <3> QED
      BY <1>2, <1>4, <2>1, <2>2, StreamsEqual
  <2>3. CASE p > 0
    <3>1. p - 1 \in 0..input_size /\ filled[p - 1] = Filled(p - 1)
      BY <2>3
    <3> HIDE DEF filled, Filled, Seen, Then
    <3>2. Has(Then(filled, p), p)
      BY <1>2, <1>3, <2>3, <3>1
    <3> QED
      BY <1>2, <2>1, <3>2, StreamsEqual
  <2> HIDE DEF filled, Then
  <2> QED
    BY <2>2, <2>3
<1>6. Runs(filled)
  <2> SUFFICES filled = [p \in 0..input_size |-> Then(filled, p)]
    OBVIOUS
  <2> HIDE DEF Then, Filled
  <2> QED
    BY <1>5
<1>7. Runs(after)
  <2> HIDE DEF Runs
  <2> QED
    BY <1>6
<1>8. ClassStream(class) = after[input_size]
  BY DEF ClassStream, Blocks
<1> HIDE DEF after
<1>9. ASSUME NEW p \in 0..input_size
      PROVE  after[p] = Then(after, p)
  <2> HIDE DEF Then
  <2> QED
    BY <1>7
<1> HIDE DEF Then, Seen
<1> DEFINE S == {p \in Nat : p \in 0..input_size => Has(after[p], p)}
<1>10. 0 \in S
  BY <1>4, <1>9
<1>11. ASSUME NEW p \in Nat, p \in S
       PROVE  p + 1 \in S
  <2> SUFFICES ASSUME p + 1 \in 0..input_size
               PROVE  Has(after[p + 1], p + 1)
    OBVIOUS
  <2>1. p \in 0..input_size /\ (p + 1) - 1 = p /\ p + 1 > 0
    OBVIOUS
  <2>2. Has(after[(p + 1) - 1], (p + 1) - 1)
    BY <1>11, <2>1
  <2> QED
    BY <1>3, <1>9, <2>1, <2>2
<1>12. Nat \subseteq S
  <2> HIDE DEF S
  <2> QED
    BY <1>10, <1>11, SetOfNat
<1>13. Has(after[input_size], input_size)
  BY <1>12
<1> QED
  BY <1>8, <1>13 DEF Seen
(***************************************************************************)
(* The items.                                                              *)
(***************************************************************************)

\* Before any item the markers are the first class.
LEMMA FirstMarkers ==
    ASSUME TypeInv, cc_size > 0
    PROVE  MarkedBits(0) = ClassBits(0)
<1>1. Capacity \in Nat
  BY InputFits, BoundsAssumption DEF TypeInv
<1>2. \A p \in 0..(Capacity - 1) :
          Marked(cc_list, Padded, 0, p) <=> Padded[p] \in cc_list[0].class
  BY <1>1, MarkedZero
<1> QED
  BY <1>2 DEF MarkedBits, ClassBits

\* match_star on the whole of the input is one more starred item.
LEMMA StarStep ==
    ASSUME TypeInv, NEW k \in 0..(cc_size - 1), cc_list[k].star
    PROVE  MarkedBits(k) \cup RunEnds(MarkedBits(k), ClassBits(k), Capacity) = MarkedBits(k + 1)
<1>1. Capacity \in Nat /\ k \in Nat /\ cc_list[k] \in Item
  BY InputFits, BoundsAssumption DEF TypeInv
<1>2. ASSUME NEW p \in 0..(Capacity - 1)
      PROVE  p \in RunEnds(MarkedBits(k), ClassBits(k), Capacity) <=>
                 Pending(cc_list, Padded, k, p)
  <2>1. ASSUME NEW s \in 0..(p - 1)
        PROVE  /\ s \in MarkedBits(k) <=> Marked(cc_list, Padded, k, s)
               /\ s..(p - 1) \subseteq ClassBits(k) <=> Segment(cc_list[k], Padded, s, p)
    <3>1. s \in MarkedBits(k) <=> Marked(cc_list, Padded, k, s)
      BY <1>1 DEF MarkedBits
    <3>2. \A q \in s..(p - 1) : q \in ClassBits(k) <=> Padded[q] \in cc_list[k].class
      BY <1>1 DEF ClassBits
    <3>3. Segment(cc_list[k], Padded, s, p) <=>
              \A q \in s..(p - 1) : Padded[q] \in cc_list[k].class
      BY DEF Segment
    <3> QED
      BY <3>1, <3>2, <3>3
  <2>2. \A s \in MarkedBits(k) : s < p <=> s \in 0..(p - 1)
    BY DEF MarkedBits
  <2> QED
    BY <2>1, <2>2 DEF RunEnds, Pending
<1>3. ASSUME NEW p \in 0..(Capacity - 1)
      PROVE  Marked(cc_list, Padded, k + 1, p) <=>
                 Marked(cc_list, Padded, k, p) \/ Pending(cc_list, Padded, k, p)
  BY <1>1, MarkedStar
<1>4. RunEnds(MarkedBits(k), ClassBits(k), Capacity) \subseteq 0..(Capacity - 1)
  BY DEF RunEnds
<1> QED
  BY <1>2, <1>3, <1>4 DEF MarkedBits

\* advance on the whole of the input is one more plain item.
LEMMA AdvanceStep ==
    ASSUME TypeInv, NEW k \in 0..(cc_size - 1), ~ cc_list[k].star
    PROVE  Moved(MarkedBits(k) \cap ClassBits(k), Capacity) = MarkedBits(k + 1)
<1>1. Capacity \in Nat /\ k \in Nat /\ cc_list[k] \in Item
  BY InputFits, BoundsAssumption DEF TypeInv
<1>2. ASSUME NEW p \in 0..(Capacity - 1)
      PROVE  Marked(cc_list, Padded, k + 1, p) <=>
                 p > 0 /\ Marked(cc_list, Padded, k, p - 1) /\ Padded[p - 1] \in cc_list[k].class
  BY <1>1, MarkedAdvance, PendingAdvance
<1> QED
  BY <1>1, <1>2 DEF Moved, MarkedBits, ClassBits
(***************************************************************************)
(* The run.                                                                *)
(***************************************************************************)

LEMMA VgrepInit == Init => VgrepInv
<1> SUFFICES ASSUME Init PROVE VgrepInv
  OBVIOUS
<1>1. Blocks \in Nat /\ cc_size \in Nat
  BY InputFits, BoundsAssumption DEF Init
<1>2. Zeros(Blocks) \in [0..(Blocks - 1) -> SUBSET Payload]
  BY <1>1, ZerosStream DEF IsStream
<1>3. i \in 0..cc_size /\ markers \in [0..cc_size -> [0..(Blocks - 1) -> SUBSET Payload]]
  BY <1>1, <1>2 DEF Init, Blocks
<1> QED
  BY <1>3 DEF Init, VgrepInv, TypeInv, ClassesExact, MarkersExact, MatchedExact, Started

\* Nothing changes the arguments, nor what is said of them.
LEMMA SameInput ==
    ASSUME UNCHANGED arguments
    PROVE  /\ Capacity' = Capacity /\ Blocks' = Blocks
           /\ \A k : ClassBits(k)' = ClassBits(k) /\ MarkedBits(k)' = MarkedBits(k)
  BY DEF arguments, Capacity, Blocks, Padded, ClassBits, MarkedBits

LEMMA MatchClassesKeeps ==
    ASSUME VgrepInv, MatchClasses
    PROVE  VgrepInv'
<1> USE DEF VgrepInv
<1>1. UNCHANGED arguments /\ UNCHANGED <<i, matched>> /\ pc' = "markers" /\ cc_size > 0
  BY DEF MatchClasses
<1>2. /\ input_size \in Nat /\ cc_size \in Nat /\ Capacity \in Nat /\ input_size <= Capacity
      /\ Blocks \in Nat
  BY InputFits, BoundsAssumption DEF TypeInv
<1>3. ASSUME NEW k \in 0..(cc_size - 1)
      PROVE  IsStream(cc_bit_streams'[k], Blocks) /\ Positions(cc_bit_streams'[k]) = ClassBits(k)
  <2>1. cc_bit_streams'[k] = ClassStream(cc_list[k].class)
    BY DEF MatchClasses
  <2>2. \A p \in 0..(Capacity - 1) :
            Padded[p] \in cc_list[k].class <=> p < input_size /\ input[p] \in cc_list[k].class
    BY <1>2, PaddingMatchesNothing
  <2>3. ClassBits(k) = {q \in 0..(input_size - 1) : input[q] \in cc_list[k].class}
    BY <1>2, <2>2 DEF ClassBits
  <2> QED
    BY <1>2, <2>1, <2>3, ClassStreamBits
<1>4. markers' = [markers EXCEPT ![0] = cc_bit_streams'[0]] /\ 0 \in 0..(cc_size - 1)
  BY <1>1, <1>2 DEF MatchClasses
<1> USE SameInput, <1>1 DEF arguments
<1>5. TypeInv'
  BY <1>2, <1>3, <1>4 DEF TypeInv, IsStream
<1>6. ClassesExact'
  BY <1>3 DEF ClassesExact
<1>7. Positions(markers'[0]) = MarkedBits(0)
  BY <1>2, <1>3, <1>4, FirstMarkers DEF TypeInv
<1>8. MarkersExact'
  <2>1. pc = "classes"
    BY DEF MatchClasses
  <2>2. i' = 0
    BY <2>1 DEF TypeInv
  <2> QED
    BY <1>7, <2>2 DEF MarkersExact
<1> QED
  BY <1>5, <1>6, <1>8 DEF MatchedExact
\* An item marks the next stream and touches no other.
LEMMA ItemKeeps ==
    ASSUME VgrepInv, MatchStar \/ Advance
    PROVE  VgrepInv'
<1> USE DEF VgrepInv
<1>1. /\ UNCHANGED arguments /\ UNCHANGED <<cc_bit_streams, matched, pc>>
      /\ i' = i + 1 /\ pc = "markers" /\ i < cc_size
  BY DEF MatchStar, Advance
<1>2. /\ input_size \in Nat /\ cc_size \in Nat /\ Capacity \in Nat /\ Blocks \in Nat
      /\ Capacity = Blocks * BlockSize
      /\ i \in 0..(cc_size - 1) /\ i + 1 \in 0..cc_size
  BY <1>1, InputFits, BoundsAssumption DEF TypeInv
<1>3. /\ IsStream(markers[i], Blocks) /\ Positions(markers[i]) = MarkedBits(i)
      /\ IsStream(cc_bit_streams[i], Blocks) /\ Positions(cc_bit_streams[i]) = ClassBits(i)
  BY <1>1, <1>2 DEF TypeInv, ClassesExact, MarkersExact, Started, IsStream
<1> DEFINE next == IF cc_list[i].star THEN MatchStarStream(markers[i], cc_bit_streams[i])
                   ELSE AdvanceStream(markers[i], cc_bit_streams[i])
<1>4. IsStream(next, Blocks) /\ Positions(next) = MarkedBits(i + 1)
  <2>1. CASE cc_list[i].star
    <3>1. /\ IsStream(next, Blocks)
          /\ Positions(next) = MarkedBits(i) \cup RunEnds(MarkedBits(i), ClassBits(i), Capacity)
      BY <1>2, <1>3, <2>1, MatchStarStreamBits
    <3> HIDE DEF next
    <3> QED
      BY <1>2, <2>1, <3>1, StarStep
  <2>2. CASE ~ cc_list[i].star
    <3>1. /\ IsStream(next, Blocks)
          /\ Positions(next) = Moved(MarkedBits(i) \cap ClassBits(i), Capacity)
      <4>1. next = AdvanceStream(markers[i], cc_bit_streams[i])
        BY <2>2
      <4> HIDE DEF next
      <4> QED
        BY <1>2, <1>3, <4>1, AdvanceStreamBits
    <3> HIDE DEF next
    <3> QED
      BY <1>2, <2>2, <3>1, AdvanceStep
  <2> QED
    BY <2>1, <2>2
<1>5. markers' = [markers EXCEPT ![i + 1] = next]
  BY DEF MatchStar, Advance
<1> HIDE DEF next
<1> USE SameInput, <1>1 DEF arguments
<1>6. TypeInv'
  BY <1>2, <1>4, <1>5 DEF TypeInv, IsStream, Started
<1>7. ClassesExact'
  BY DEF ClassesExact, Started
<1>8. MarkersExact'
  <2>1. \A k \in 0..(i + 1) : markers'[k] = IF k = i + 1 THEN next ELSE markers[k]
    BY <1>2, <1>5 DEF TypeInv
  <2>2. \A k \in 0..(i + 1) : k = i + 1 \/ k \in 0..i
    BY <1>2
  <2> QED
    BY <1>4, <2>1, <2>2 DEF MarkersExact, Started
<1> QED
  BY <1>6, <1>7, <1>8 DEF MatchedExact

LEMMA VgrepStep == VgrepInv /\ [Next]_vars => VgrepInv'
<1> SUFFICES ASSUME VgrepInv, [Next]_vars PROVE VgrepInv'
  OBVIOUS
<1> USE DEF VgrepInv
<1>1. CASE MatchClasses
  BY <1>1, MatchClassesKeeps
<1>2. CASE MatchStar \/ Advance
  BY <1>2, ItemKeeps
<1>3. CASE AbortEmptyPattern
  <2> USE SameInput, <1>3 DEF AbortEmptyPattern, arguments
  <2> QED
    BY DEF TypeInv, ClassesExact, MarkersExact, MatchedExact, Started
<1>4. CASE PrintMatched
  <2> USE SameInput, <1>4 DEF PrintMatched, arguments
  <2> QED
    BY DEF TypeInv, ClassesExact, MarkersExact, MatchedExact, Started
<1>5. CASE UNCHANGED vars
  <2> USE SameInput, <1>5 DEF vars, arguments
  <2> QED
    BY DEF TypeInv, ClassesExact, MarkersExact, MatchedExact, Started
<1> QED
  BY <1>1, <1>2, <1>3, <1>4, <1>5 DEF Next, Exited

THEOREM VgrepInvariant == Spec => []VgrepInv
  BY VgrepInit, VgrepStep, PTL DEF Spec

\* After each item of vgrep's loop, its markers are the ends of the texts that
\* match the items so far: nothing is lost between two blocks.
THEOREM VgrepMarkersAreEnds == Spec => []MarkersAreEnds
<1>1. VgrepInv => MarkersAreEnds
  <2> SUFFICES ASSUME VgrepInv, pc = "markers", NEW k \in 1..i
               PROVE  Positions(markers[k]) =
                          {p \in 0..(Capacity - 1) : Marked(cc_list, Padded, k, p)}
    BY DEF MarkersAreEnds
  <2>1. k \in 0..i
    BY BoundsAssumption DEF VgrepInv, TypeInv
  <2> QED
    BY <2>1 DEF VgrepInv, MarkersExact, Started, MarkedBits
<1> QED
  BY <1>1, VgrepInvariant, PTL
(***************************************************************************)
(* What is printed.                                                        *)
(***************************************************************************)

\* No text ends after the byte that follows the input.
LEMMA MarkedWithin ==
    ASSUME TypeInv, cc_size > 0, NEW k \in 0..cc_size, NEW p \in 0..Capacity,
           Marked(cc_list, Padded, k, p)
    PROVE  p <= input_size
<1>1. /\ input_size \in Nat /\ cc_size \in Nat /\ Capacity \in Nat
  BY InputFits, BoundsAssumption DEF TypeInv
<1> DEFINE Ends(n) == \A e \in 0..Capacity : Marked(cc_list, Padded, n, e) => e <= input_size
           S == {n \in Nat : n \in 0..cc_size => Ends(n)}
<1>2. Ends(0)
  <2> SUFFICES ASSUME NEW e \in 0..Capacity, Marked(cc_list, Padded, 0, e)
               PROVE  e <= input_size
    OBVIOUS
  <2>1. Padded[e] \in cc_list[0].class
    BY <1>1, MarkedZero
  <2> QED
    BY <1>1, <2>1, PaddingMatchesNothing
<1>3. ASSUME NEW n \in Nat, n + 1 \in 0..cc_size, Ends(n)
      PROVE  Ends(n + 1)
  <2> SUFFICES ASSUME NEW e \in 0..Capacity, Marked(cc_list, Padded, n + 1, e)
               PROVE  e <= input_size
    OBVIOUS
  <2>1. n \in 0..(cc_size - 1) /\ cc_list[n] \in Item
    BY <1>1, <1>3 DEF TypeInv
  <2>2. PICK s \in 0..e : Marked(cc_list, Padded, n, s) /\ Segment(cc_list[n], Padded, s, e)
    BY <1>1, <2>1, MarkedStep
  <2>3. s <= input_size
    BY <1>1, <1>3, <2>2
  <2>4. s = e \/ Padded[e - 1] \in cc_list[n].class
    BY <2>2 DEF Segment
  <2>5. CASE s # e
    <3>1. e - 1 \in 0..Capacity
      BY <1>1, <2>2, <2>5
    <3> QED
      BY <1>1, <2>1, <2>4, <2>5, <3>1, PaddingMatchesNothing
  <2> QED
    BY <2>3, <2>5
<1> HIDE DEF Ends
<1>4. Nat \subseteq S
  <2>1. 0 \in S /\ \A n \in Nat : n \in S => n + 1 \in S
    BY <1>1, <1>2, <1>3
  <2> HIDE DEF S
  <2> QED
    BY <2>1, SetOfNat
<1> QED
  BY <1>1, <1>4 DEF Ends

\* Without a starred first item, the number printed is the number of matches:
\* all of them when the last block has room for a marker after the input, and
\* all but the one that ends with the input when it is full.
THEOREM VgrepPrintsMatches == Spec => []PrintsMatches
<1> DEFINE last == IF input_size % BlockSize = 0 THEN input_size - 1 ELSE input_size
           ends == MatchEnds(cc_list, cc_size, Padded, 0, last)
<1>1. ASSUME VgrepInv, pc = "done", ~ cc_list[0].star
      PROVE  matched = Cardinality(ends)
  <2> USE <1>1 DEF VgrepInv
  <2>1. /\ input_size \in Nat /\ cc_size \in Nat /\ cc_size > 0 /\ Blocks \in Nat
        /\ Capacity \in Nat /\ Capacity = Blocks * BlockSize
        /\ input_size <= Capacity /\ Capacity < input_size + BlockSize
    BY InputFits, BoundsAssumption DEF TypeInv, Started
  <2>2. /\ IsStream(markers[cc_size], Blocks)
        /\ Positions(markers[cc_size]) = MarkedBits(cc_size)
        /\ matched = PopCount(markers[cc_size])
    BY <2>1 DEF TypeInv, MarkersExact, MatchedExact, Started, IsStream
  <2>3. matched = Cardinality(MarkedBits(cc_size))
    BY <2>2, PopCountBits
  <2>4. \A p : Marked(cc_list, Padded, cc_size, p) <=> MatchEnd(cc_list, Padded, cc_size, p)
    BY <2>1, PlainFirstItem
  <2>5. /\ input_size % BlockSize = 0 => Capacity = input_size
        /\ input_size % BlockSize # 0 => input_size < Capacity
    BY <2>1, NextMultiple
  <2>6. \A p \in MarkedBits(cc_size) : p <= last
    <3> SUFFICES ASSUME NEW p \in MarkedBits(cc_size) PROVE p <= last
      OBVIOUS
    <3>1. p \in 0..(Capacity - 1) /\ p <= input_size
      BY <2>1, MarkedWithin DEF MarkedBits
    <3> QED
      BY <2>1, <2>5, <3>1
  <2>7. last \in Int /\ last <= Capacity - 1
    BY <2>1, <2>5
  <2> HIDE DEF last
  <2>8. MarkedBits(cc_size) = ends
    BY <2>1, <2>4, <2>6, <2>7 DEF MarkedBits, MatchEnds
  <2> QED
    BY <2>3, <2>8
<1>2. VgrepInv => PrintsMatches
  BY <1>1 DEF PrintsMatches
<1> QED
  BY <1>2, VgrepInvariant, PTL
================================================================================
