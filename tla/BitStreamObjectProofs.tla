------------------------- MODULE BitStreamObjectProofs -------------------------
(***************************************************************************)
(* For every block size and every length, a bit stream is one long word,   *)
(* its population count is exact, advance of simd.h is that of marker.h,   *)
(* and match_star of simd.h stops before it returns.                       *)
(***************************************************************************)
EXTENDS BitStreamObject, StreamProofs

\* The inductive invariant: both streams have their blocks, and no block has
\* its spare bit set.  A bit left there would be counted, and would enter the
\* next block with the next addition.
StreamsClear == IsStream(self, StreamBlocks) /\ IsStream(other, StreamBlocks)

LEMMA SizeIsNat == StreamBlocks \in Nat /\ Size \in Nat /\ Size > 0
  BY StreamBlocksAssumption, BlockSizeAssumption DEF Size

\* The stream s holds the positions X.
Holds(s, X) == IsStream(s, StreamBlocks) /\ Positions(s) = X

\* What each call leaves in the stream it is made on.
LEMMA CallBits ==
    ASSUME StreamsClear,
           NEW x, x = Positions(self),
           NEW y, y = Positions(other)
    PROVE  /\ Holds(AndStream(self, other), x \cap y)
           /\ Holds(OrStream(self, other), x \cup y)
           /\ Holds(XorStream(self, other), SymDiff(x, y))
           /\ Holds(PlusStream(self, other), LongPlus(x, y, Size))
           /\ Holds(ShiftStream(self), Moved(x, Size))
           /\ Holds(AdvanceStream(self, other), Moved(x \cap y, Size))
           /\ Holds(MatchStarStream(self, other), x \cup RunEnds(x, y, Size))
           /\ Holds(ScanThruStream(self, other), LongPlus(x, y, Size) \ y)
<1> DEFINE n == StreamBlocks
<1>1. IsStream(self, n) /\ IsStream(other, n) /\ Size = n * BlockSize
  BY DEF StreamsClear, Size
<1> HIDE DEF n
<1>2. Holds(AndStream(self, other), x \cap y)
  BY <1>1, AndStreamBits DEF Holds, n
<1>3. Holds(OrStream(self, other), x \cup y)
  BY <1>1, OrStreamBits DEF Holds, n
<1>4. Holds(XorStream(self, other), SymDiff(x, y))
  BY <1>1, XorStreamBits DEF Holds, n
<1>5. Holds(PlusStream(self, other), LongPlus(x, y, Size))
  BY <1>1, PlusStreamBits DEF Holds, n
<1>6. Holds(ShiftStream(self), Moved(x, Size))
  BY <1>1, ShiftStreamBits DEF Holds, n
<1>7. Holds(AdvanceStream(self, other), Moved(x \cap y, Size))
  BY <1>1, AdvanceStreamBits DEF Holds, n
<1>8. Holds(MatchStarStream(self, other), x \cup RunEnds(x, y, Size))
  BY <1>1, MatchStarStreamBits DEF Holds, n
<1>9. Holds(ScanThruStream(self, other), LongPlus(x, y, Size) \ y)
  BY <1>1, ScanThruStreamBits DEF Holds, n
<1> QED
  BY <1>2, <1>3, <1>4, <1>5, <1>6, <1>7, <1>8, <1>9

\* Setting a bit sets one position, or none.
LEMMA SetBits ==
    ASSUME StreamsClear, NEW pos \in 0..(Size - 1), NEW value \in BOOLEAN
    PROVE  Holds(SetBit(self, pos, value), Positions(self) \cup (IF value THEN {pos} ELSE {}))
  BY SetBitBits DEF StreamsClear, Size, Holds

\* No call leaves a spare bit behind.
THEOREM ObjectInvariant == Spec => []StreamsClear
<1>1. Init => StreamsClear
  BY SizeIsNat, ZerosStream DEF Init, StreamsClear
<1>2. StreamsClear /\ [Next]_vars => StreamsClear'
  <2> SUFFICES ASSUME StreamsClear, [Next]_vars PROVE StreamsClear'
    OBVIOUS
  <2>1. CASE Set /\ UNCHANGED other
    BY <2>1, SetBits DEF Set, StreamsClear, Holds
  <2>2. CASE Combine /\ UNCHANGED other
    BY <2>2, CallBits DEF Combine, StreamsClear, Holds
  <2>3. CASE Add /\ UNCHANGED other
    BY <2>3, CallBits DEF Add, StreamsClear, Holds
  <2>4. CASE Shift /\ UNCHANGED other
    BY <2>4, CallBits DEF Shift, StreamsClear, Holds
  <2>5. CASE Advance /\ UNCHANGED other
    BY <2>5, CallBits DEF Advance, StreamsClear, Holds
  <2>6. CASE MatchStar /\ UNCHANGED other
    BY <2>6, CallBits DEF MatchStar, StreamsClear, Holds
  <2>7. CASE ScanThru /\ UNCHANGED other
    BY <2>7, CallBits DEF ScanThru, StreamsClear, Holds
  <2>8. CASE Swap
    BY <2>8 DEF Swap, StreamsClear
  <2>9. CASE UNCHANGED vars
    BY <2>9 DEF vars, StreamsClear
  <2> QED
    BY <2>1, <2>2, <2>3, <2>4, <2>5, <2>6, <2>7, <2>8, <2>9 DEF Next
<1> QED
  BY <1>1, <1>2, PTL DEF Spec

\* pop_count always counts the bits that is_set shows.
THEOREM ObjectPopCountExact == Spec => []PopCountExact
<1>1. StreamsClear => PopCountExact
  BY PopCountBits DEF StreamsClear, PopCountExact
<1> QED
  BY <1>1, ObjectInvariant, PTL

(***************************************************************************)
(* The refinement.                                                         *)
(***************************************************************************)

\* The operations of the long word, on sets of positions.
LEMMA LongOperations ==
    ASSUME NEW x \in SUBSET (0..(Size - 1)), NEW y \in SUBSET (0..(Size - 1))
    PROVE  /\ Long!Shifted(x) = Moved(x, Size)
           /\ Long!Sum(x, y) = LongPlus(x, y, Size)
<1>1. Long!Shifted(x) = Moved(x, Size)
  BY SizeIsNat DEF Long!Shifted, Long!ClearLast, Long!ShiftLeftOne, Long!SpareBit, Moved
<1>2. \A p : Long!CarryInto(x, y, FALSE, p) = CarryInto(x, y, FALSE, p)
  BY DEF Long!CarryInto, Long!Propagates, CarryInto, Propagates
<1>3. Long!Sum(x, y) = LongPlus(x, y, Size)
  <2>1. Long!Bit \ {Long!SpareBit} = 0..(Size - 1)
    BY SizeIsNat DEF Long!Bit, Long!SpareBit
  <2> QED
    <3>1. ASSUME NEW p \in 0..(Size - 1)
          PROVE  p \in Long!Sum(x, y) <=> p \in LongPlus(x, y, Size)
      <4>1. p \in Long!Sum(x, y) <=> ((p \in x) # (p \in y)) # Long!CarryInto(x, y, FALSE, p)
        BY <2>1 DEF Long!Sum, Long!Plus, Long!ClearLast
      <4>2. p \in LongPlus(x, y, Size) <=> ((p \in x) # (p \in y)) # CarryInto(x, y, FALSE, p)
        BY DEF LongPlus
      <4> QED
        BY <1>2, <4>1, <4>2
    <3>2. Long!Sum(x, y) \subseteq 0..(Size - 1) /\ LongPlus(x, y, Size) \subseteq 0..(Size - 1)
      BY <2>1 DEF Long!Sum, Long!Plus, Long!ClearLast, LongPlus
    <3> QED
      BY <3>1, <3>2
<1> QED
  BY <1>1, <1>3

\* Each call on the stream is the operation of that name on the long word.
LEMMA CallIsLong ==
    ASSUME StreamsClear, [Next]_vars
    PROVE  [Long!Next]_(Long!vars)
<1> DEFINE x == Positions(self)
           y == Positions(other)
<1>0. /\ x \in SUBSET (0..(Size - 1)) /\ y \in SUBSET (0..(Size - 1))
      /\ x \cap y \in SUBSET (0..(Size - 1))
  BY PositionsWithin DEF StreamsClear, Size
<1>1. Long!Payload = 0..(Size - 1)
  BY DEF Long!Payload
<1>2. CASE Set /\ UNCHANGED other
  <2>1. PICK pos \in 0..(Size - 1), value \in BOOLEAN : self' = SetBit(self, pos, value)
    BY <1>2 DEF Set
  <2>2. x' = x \cup (IF value THEN {pos} ELSE {}) /\ y' = y
    BY <1>2, <2>1, SetBits DEF Holds
  <2>3. CASE value
    <3>1. Long!Set(pos)
      BY <2>2, <2>3 DEF Long!Set
    <3> QED
      BY <1>1, <3>1 DEF Long!Next
  <2>4. CASE ~ value
    BY <2>2, <2>4 DEF Long!vars
  <2> QED
    BY <2>3, <2>4
<1>3. CASE Combine /\ UNCHANGED other
  <2>1. x' \in {x \cap y, x \cup y, SymDiff(x, y)} /\ y' = y
    BY <1>3, CallBits DEF Combine, Holds
  <2>2. SymDiff(x, y) = Long!SymDiff(x, y)
    BY DEF SymDiff, Long!SymDiff
  <2> HIDE DEF x, y
  <2>3. x' \in {x \cap y, x \cup y, Long!SymDiff(x, y), Long!Sum(x, y)} /\ y' = y
    BY <2>1, <2>2
  <2> QED
    BY <2>3 DEF Long!Combine, Long!Next, x, y
<1>4. CASE Add /\ UNCHANGED other
  <2>1. x' = LongPlus(x, y, Size) /\ y' = y
    BY <1>4, CallBits DEF Add, Holds
  <2>2. x' = Long!Sum(x, y)
    BY <1>0, <2>1, LongOperations
  <2> QED
    BY <2>1, <2>2 DEF Long!Combine, Long!Next
<1>5. CASE Shift /\ UNCHANGED other
  <2>1. x' = Moved(x, Size) /\ y' = y
    BY <1>5, CallBits DEF Shift, Holds
  <2>2. x' = Long!Shifted(x)
    BY <1>0, <2>1, LongOperations
  <2> QED
    BY <2>1, <2>2 DEF Long!Shift, Long!Next
<1>6. CASE Advance /\ UNCHANGED other
  <2>1. x' = Moved(x \cap y, Size) /\ y' = y
    BY <1>6, CallBits DEF Advance, Holds
  <2>2. x' = Long!Shifted(x \cap y)
    BY <1>0, <2>1, LongOperations
  <2> QED
    BY <2>1, <2>2 DEF Long!Advance, Long!Next
<1>7. CASE MatchStar /\ UNCHANGED other
  <2>1. x' = x \cup RunEnds(x, y, Size) /\ y' = y
    BY <1>7, CallBits DEF MatchStar, Holds
  <2> QED
    BY <1>1, <2>1 DEF RunEnds, Long!MatchStar, Long!Next
<1>8. CASE ScanThru /\ UNCHANGED other
  <2>1. x' = LongPlus(x, y, Size) \ y /\ y' = y
    BY <1>8, CallBits DEF ScanThru, Holds
  <2>2. x' = Long!Sum(x, y) \ y
    BY <1>0, <2>1, LongOperations
  <2> QED
    BY <2>1, <2>2 DEF Long!ScanThru, Long!Next
<1>9. CASE Swap
  BY <1>9 DEF Swap, Long!Swap, Long!Next
<1>10. CASE UNCHANGED vars
  BY <1>10 DEF vars, Long!vars
<1> QED
  BY <1>2, <1>3, <1>4, <1>5, <1>6, <1>7, <1>8, <1>9, <1>10 DEF Next

\* The stream implements the long word: no carry is lost or made up between
\* two blocks, and no sequence of calls shows where the blocks are cut.
THEOREM ObjectIsLongWord == Spec => StreamIsLongWord
<1>1. Init => Long!Init
  BY SizeIsNat, ZerosStream DEF Init, Long!Init
<1> QED
  BY <1>1, CallIsLong, ObjectInvariant, PTL DEF Spec, StreamIsLongWord, Long!Spec

(***************************************************************************)
(* operations/simd.h.                                                      *)
(***************************************************************************)

\* The registers and the bytes after them cover every position once.
LEMMA PassesAll ==
    ASSUME NEW size \in Nat
    PROVE  Passes(size) = 0..(size - 1)
<1> DEFINE full == size \div SimdSize
<1>1. /\ SimdSize \in Nat /\ SimdSize > 0
      /\ full \in Nat /\ size % SimdSize \in 0..(SimdSize - 1)
      /\ size = full * SimdSize + (size % SimdSize)
  BY SimdSizeAssumption
<1> HIDE DEF full
<1>2. Near(size) = full * SimdSize /\ full * SimdSize \in Nat /\ full * SimdSize <= size
  BY <1>1 DEF Near
<1> DEFINE near == full * SimdSize
           starts == {p \in 0..(near - 1) : p % SimdSize = 0}
<1>3. Passes(size) = (UNION {{at + b : b \in 0..(SimdSize - 1)} : at \in starts}) \cup near..(size - 1)
  BY <1>2 DEF Passes
<1>4. ASSUME NEW at \in starts, NEW b \in 0..(SimdSize - 1)
      PROVE  at + b \in 0..(size - 1)
  <2> DEFINE k == at \div SimdSize
  <2>1. at \in Nat /\ at < near /\ k \in Nat /\ at = k * SimdSize + (at % SimdSize) /\ at % SimdSize = 0
    BY <1>1, <1>2
  <2> HIDE DEF k
  <2>2. at = k * SimdSize
    BY <1>1, <2>1
  <2>3. k + 1 <= full
    <3>1. CASE full <= k
      <4>1. full * SimdSize <= k * SimdSize
        BY <1>1, <2>1, <3>1
      <4> QED
        BY <1>2, <2>1, <2>2, <4>1
    <3> QED
      BY <1>1, <2>1, <3>1
  <2>4. (k + 1) * SimdSize <= full * SimdSize /\ (k + 1) * SimdSize = k * SimdSize + SimdSize
    BY <1>1, <2>1, <2>3
  <2> QED
    BY <1>1, <1>2, <2>1, <2>2, <2>4
<1>5. ASSUME NEW p \in 0..(near - 1)
      PROVE  \E at \in starts : \E b \in 0..(SimdSize - 1) : p = at + b
  <2> DEFINE k == p \div SimdSize
             b == p % SimdSize
             at == k * SimdSize
  <2>1. p \in Nat /\ k \in Nat /\ b \in 0..(SimdSize - 1) /\ p = k * SimdSize + b
    BY <1>1, <1>2
  <2> HIDE DEF k, b
  <2>2. at \in Nat /\ at <= p /\ p = at + b
    BY <1>1, <2>1
  <2>3. at % SimdSize = 0
    BY <1>1, <2>1
  <2>4. at \in starts
    BY <1>2, <2>1, <2>2, <2>3
  <2> QED
    BY <2>1, <2>2, <2>4
<1>6. near..(size - 1) \subseteq 0..(size - 1)
  BY <1>1, <1>2
<1>7. \A p \in 0..(size - 1) : p \in 0..(near - 1) \/ p \in near..(size - 1)
  BY <1>1, <1>2
<1> HIDE DEF near, starts
<1> DEFINE registers == {{at + b : b \in 0..(SimdSize - 1)} : at \in starts}
<1>8. UNION registers \subseteq 0..(size - 1)
  BY <1>4
<1>9. \A at \in starts : {at + b : b \in 0..(SimdSize - 1)} \in registers
  OBVIOUS
<1>10. 0..(near - 1) \subseteq UNION registers
  <2> SUFFICES ASSUME NEW p \in 0..(near - 1) PROVE p \in UNION registers
    OBVIOUS
  <2>1. PICK at \in starts : \E b \in 0..(SimdSize - 1) : p = at + b
    BY <1>5
  <2> HIDE DEF registers
  <2> QED
    BY <1>9, <2>1
<1>11. Passes(size) = (UNION registers) \cup near..(size - 1)
  BY <1>3
<1>12. 0..(size - 1) = 0..(near - 1) \cup near..(size - 1)
  BY <1>1, <1>2 DEF near
<1> HIDE DEF registers
<1> QED
  BY <1>8, <1>10, <1>11, <1>12

\* One more position: a carry goes on, or is generated there.
LEMMA CarryStep ==
    ASSUME NEW x, NEW y, NEW p \in Nat, p > 0
    PROVE  CarryInto(x, y, FALSE, p) <=>
               IF CarryInto(x, y, FALSE, p - 1) THEN p - 1 \in x \cup y ELSE p - 1 \in x \cap y
<1>1. ASSUME NEW g \in 0..(p - 1), g \in x \cap y, Propagates(x, y, g + 1, p - 1)
      PROVE  \/ p - 1 \in x \cap y
             \/ CarryInto(x, y, FALSE, p - 1) /\ p - 1 \in x \cup y
  <2>1. CASE g = p - 1
    BY <1>1, <2>1
  <2>2. CASE g # p - 1
    <3>1. g \in 0..((p - 1) - 1) /\ p - 1 \in (g + 1)..(p - 1)
      BY <2>2
    <3>2. Propagates(x, y, g + 1, (p - 1) - 1) /\ p - 1 \in x \cup y
      BY <1>1, <3>1 DEF Propagates
    <3> QED
      BY <1>1, <3>1, <3>2 DEF CarryInto
  <2> QED
    BY <2>1, <2>2
<1>2. ASSUME p - 1 \in x \cap y
      PROVE  CarryInto(x, y, FALSE, p)
  <2>1. p - 1 \in 0..(p - 1) /\ Propagates(x, y, (p - 1) + 1, p - 1)
    BY DEF Propagates
  <2> QED
    BY <1>2, <2>1 DEF CarryInto
<1>3. ASSUME CarryInto(x, y, FALSE, p - 1), p - 1 \in x \cup y
      PROVE  CarryInto(x, y, FALSE, p)
  <2>1. PICK g \in 0..((p - 1) - 1) : g \in x \cap y /\ Propagates(x, y, g + 1, (p - 1) - 1)
    BY <1>3 DEF CarryInto
  <2>2. g \in 0..(p - 1) /\ \A q \in (g + 1)..(p - 1) : q = p - 1 \/ q \in (g + 1)..((p - 1) - 1)
    OBVIOUS
  <2>3. Propagates(x, y, g + 1, p - 1)
    BY <1>3, <2>1, <2>2 DEF Propagates
  <2> QED
    BY <2>1, <2>2, <2>3 DEF CarryInto
<1>4. CarryInto(x, y, FALSE, p) =>
          \/ p - 1 \in x \cap y
          \/ CarryInto(x, y, FALSE, p - 1) /\ p - 1 \in x \cup y
  BY <1>1 DEF CarryInto
<1> QED
  BY <1>2, <1>3, <1>4

\* The byte-by-byte carry of simd.h is the carry of the addition.
LEMMA SimdCarryBits ==
    ASSUME NEW x, NEW y, NEW size \in Nat, NEW p \in CarryBytes(size)
    PROVE  SimdCarry(x, y, size)[p] = CarryInto(x, y, FALSE, p)
<1> DEFINE into == [q \in 0..(size - 1) |-> CarryInto(x, y, FALSE, q)]
           Enters(f, q) == q > 0 /\ IF f[q - 1] THEN q - 1 \in x \cup y ELSE q - 1 \in x \cap y
           Runs(f) == f = [q \in 0..(size - 1) |-> Enters(f, q)]
           carry == CHOOSE f : Runs(f)
<1>0. p \in 0..(size - 1) /\ 0 \in 0..(size - 1)
  BY DEF CarryBytes
<1>1. ASSUME NEW q \in 0..(size - 1)
      PROVE  into[q] = Enters(into, q)
  <2>1. into[q] = CarryInto(x, y, FALSE, q) /\ CarryInto(x, y, FALSE, q) \in BOOLEAN
    BY DEF CarryInto
  <2>2. CASE q = 0
    <3>1. CarryInto(x, y, FALSE, q) = FALSE
      BY <2>2 DEF CarryInto
    <3>2. Enters(into, q) = FALSE
      BY <2>2
    <3> HIDE DEF into, Enters
    <3> QED
      BY <2>1, <3>1, <3>2
  <2>3. CASE q > 0
    <3>1. q - 1 \in 0..(size - 1) /\ q \in Nat
      BY <2>3
    <3>2. into[q - 1] = CarryInto(x, y, FALSE, q - 1)
      BY <3>1
    <3> HIDE DEF into
    <3> QED
      BY <2>1, <2>3, <3>1, <3>2, CarryStep
  <2> HIDE DEF into, Enters
  <2> QED
    BY <2>2, <2>3
<1>2. Runs(into)
  <2> SUFFICES into = [q \in 0..(size - 1) |-> Enters(into, q)]
    OBVIOUS
  <2> HIDE DEF Enters
  <2> QED
    BY <1>1
<1>3. Runs(carry)
  <2> HIDE DEF Runs
  <2> QED
    BY <1>2
<1>4. SimdCarry(x, y, size) = carry
  BY DEF SimdCarry, CarryBytes
<1> HIDE DEF carry
<1>5. ASSUME NEW q \in 0..(size - 1)
      PROVE  carry[q] = Enters(carry, q)
  <2> HIDE DEF Enters
  <2> QED
    BY <1>3
<1> DEFINE S == {q \in Nat : q \in 0..(size - 1) => carry[q] = into[q]}
<1>6. 0 \in S
  <2>1. 0 \in 0..(size - 1)
    BY <1>0
  <2>2. carry[0] = FALSE /\ into[0] = FALSE
    <3>1. carry[0] = Enters(carry, 0) /\ into[0] = Enters(into, 0)
      BY <1>1, <1>5, <2>1
    <3>2. \A f : Enters(f, 0) = FALSE
      OBVIOUS
    <3> QED
      BY <3>1, <3>2
  <2> QED
    BY <2>2
<1>7. ASSUME NEW q \in Nat, q \in S
      PROVE  q + 1 \in S
  <2> SUFFICES ASSUME q + 1 \in 0..(size - 1)
               PROVE  carry[q + 1] = into[q + 1]
    <3> HIDE DEF into
    <3> QED
      OBVIOUS
  <2>1. q \in 0..(size - 1) /\ (q + 1) - 1 = q
    OBVIOUS
  <2>2. carry[q] = into[q]
    BY <1>7, <2>1
  <2>3. Enters(carry, q + 1) = Enters(into, q + 1)
    <3> HIDE DEF into
    <3> QED
      BY <2>1, <2>2
  <2>4. carry[q + 1] = Enters(carry, q + 1) /\ into[q + 1] = Enters(into, q + 1)
    BY <1>1, <1>5
  <2> HIDE DEF Enters, into
  <2> QED
    BY <2>3, <2>4
<1>8. Nat \subseteq S
  <2> HIDE DEF S
  <2> QED
    BY <1>6, <1>7, SetOfNat
<1>9. into[p] = CarryInto(x, y, FALSE, p)
  BY <1>0
<1>10. carry[p] = into[p]
  <2> HIDE DEF into
  <2> QED
    BY <1>0, <1>8
<1> QED
  BY <1>4, <1>9, <1>10

\* Every carry but the one out of the last position has a byte to be written to.
LEMMA AddedAll ==
    ASSUME NEW size \in Nat
    PROVE  Added(size) = {p \in 0..(size - 1) : p # size - 1}
<1>1. ASSUME NEW p \in 0..(size - 1)
      PROVE  p \in Added(size) <=> p # size - 1
  <2>1. CASE p = size - 1
    BY <2>1 DEF Added, CarryBytes
  <2>2. CASE p # size - 1
    <3>1. \A q \in 0..p : q + 1 \in 0..(size - 1)
      BY <2>2
    <3> QED
      BY <2>2, <3>1 DEF Added, CarryBytes
  <2> QED
    BY <2>1, <2>2
<1> QED
  BY <1>1 DEF Added

\* The two operations of simd.h, on sets of positions.
LEMMA SimdAdvanceBits ==
    ASSUME NEW size \in Nat, NEW M \in SUBSET (0..(size - 1)), NEW C \in SUBSET (0..(size - 1))
    PROVE  /\ AndPass(M, C, size) = M \cap C
           /\ SimdAdvance(M, C, size) = Moved(M \cap C, size)
<1>1. AndPass(M, C, size) = M \cap C
  BY PassesAll DEF AndPass
<1> QED
  BY <1>1 DEF SimdAdvance, Moved

LEMMA SimdMatchStarBits ==
    ASSUME NEW size \in Nat, size > 0,
           NEW M \in SUBSET (0..(size - 1)), NEW C \in SUBSET (0..(size - 1)),
           NEW p \in 0..(size - 1)
    PROVE  /\ SimdMatchStar(M, C, size).returns = FALSE
           /\ p \in SimdMatchStar(M, C, size).result <=>
                  IF p = size - 1 THEN p \in M \cap C ELSE p \in LongPlus(M \cap C, C, size)
<1> DEFINE op1 == M \cap C
           carry == SimdCarry(op1, C, size)
           op2 == {q \in 0..(size - 1) :
                      IF q \in Added(size) THEN ((q \in op1) # (q \in C)) # carry[q] ELSE q \in op1}
<1>1. Added(size) # 0..(size - 1) /\ (p \in Added(size) <=> p # size - 1)
  <2>1. size - 1 \in 0..(size - 1) /\ size - 1 \notin Added(size)
    BY AddedAll
  <2> QED
    BY <2>1, AddedAll
<1>2. SimdMatchStar(M, C, size).returns = FALSE /\ SimdMatchStar(M, C, size).result = op2
  <2>1. AndPass(M, C, size) = op1 /\ ~ (Added(size) = 0..(size - 1))
    BY <1>1, SimdAdvanceBits
  <2>2. SimdMatchStar(M, C, size).returns <=> Added(size) = 0..(size - 1)
    BY DEF SimdMatchStar
  <2>3. SimdMatchStar(M, C, size).returns \in BOOLEAN
    BY DEF SimdMatchStar
  <2> HIDE DEF op1
  <2>4. SimdMatchStar(M, C, size).result = op2
    BY <2>1 DEF SimdMatchStar
  <2> QED
    BY <2>1, <2>2, <2>3, <2>4
<1>3. carry[p] = CarryInto(op1, C, FALSE, p)
  BY SimdCarryBits DEF CarryBytes
<1> HIDE DEF carry, op1
<1>4. p \in op2 <=> IF p = size - 1 THEN p \in op1 ELSE ((p \in op1) # (p \in C)) # carry[p]
  BY <1>1
<1>5. p \in LongPlus(op1, C, size) <=> ((p \in op1) # (p \in C)) # carry[p]
  BY <1>3 DEF LongPlus
<1>6. p \in op2 <=> IF p = size - 1 THEN p \in op1 ELSE p \in LongPlus(op1, C, size)
  BY <1>4, <1>5
<1> HIDE DEF op2
<1> QED
  BY <1>2, <1>6 DEF op1

\* advance of simd.h computes the markers of marker.h, whatever the widths of
\* the register and of the block.
THEOREM ObjectSimdAdvanceIsMarker == Spec => []SimdAdvanceIsMarker
<1>1. StreamsClear => SimdAdvanceIsMarker
  <2> SUFFICES ASSUME StreamsClear PROVE SimdAdvanceIsMarker
    OBVIOUS
  <2>1. /\ Positions(self) \in SUBSET (0..(Size - 1))
        /\ Positions(other) \in SUBSET (0..(Size - 1))
    BY PositionsWithin DEF StreamsClear, Size
  <2>2. Positions(AdvanceStream(self, other)) = Moved(Positions(self) \cap Positions(other), Size)
    BY CallBits DEF Holds
  <2> QED
    BY <2>1, <2>2, SizeIsNat, SimdAdvanceBits DEF SimdAdvanceIsMarker
<1> QED
  BY <1>1, ObjectInvariant, PTL

\* match_star of simd.h is stopped at the last position, whatever the length
\* of the vectors; all sums before it are those of marker.h.
THEOREM ObjectSimdMatchStarStops == Spec => []SimdMatchStarStops
<1>1. StreamsClear => SimdMatchStarStops
  <2> SUFFICES ASSUME StreamsClear PROVE SimdMatchStarStops
    OBVIOUS
  <2> DEFINE M == Positions(self)
             C == Positions(other)
             star == SimdMatchStar(M, C, Size)
             last == Size - 1
  <2>1. /\ M \in SUBSET (0..(Size - 1)) /\ C \in SUBSET (0..(Size - 1))
        /\ Size \in Nat /\ Size > 0 /\ last \in 0..(Size - 1)
    BY PositionsWithin, SizeIsNat DEF StreamsClear, Size
  <2>2. Holds(AndStream(self, other), M \cap C)
    BY CallBits
  <2>3. Positions(PlusStream(AndStream(self, other), other)) = LongPlus(M \cap C, C, Size)
    <3>1. /\ IsStream(AndStream(self, other), StreamBlocks) /\ IsStream(other, StreamBlocks)
          /\ Positions(AndStream(self, other)) = M \cap C
      BY <2>2 DEF Holds, StreamsClear
    <3> QED
      BY <3>1, PlusStreamBits DEF Size
  <2>4. \A p \in 0..(Size - 1) :
            /\ star.returns = FALSE
            /\ p \in star.result <=>
                   IF p = last THEN p \in M \cap C ELSE p \in LongPlus(M \cap C, C, Size)
    BY <2>1, SimdMatchStarBits
  <2>5. star.result \subseteq 0..(Size - 1)
    BY <2>1, SimdAdvanceBits, AddedAll DEF SimdMatchStar
  <2>6. LongPlus(M \cap C, C, Size) \subseteq 0..(Size - 1)
    BY DEF LongPlus
  <2> HIDE DEF star, M, C, last
  <2>7. /\ star.returns = FALSE
        /\ star.result \ {last} = LongPlus(M \cap C, C, Size) \ {last}
        /\ last \in star.result <=> last \in M \cap C
    BY <2>1, <2>4, <2>5, <2>6
  <2> QED
    BY <2>2, <2>3, <2>7 DEF SimdMatchStarStops, Holds, star, M, C, last
<1> QED
  BY <1>1, ObjectInvariant, PTL
================================================================================
