----------------------------- MODULE StreamProofs -----------------------------
(***************************************************************************)
(* Facts about the data that the proofs about the scanners and vgrep share: *)
(* what the operations on words and on streams of words compute, bit by bit, *)
(* and what one more item does to the positions a pattern marks.  A stream of *)
(* n blocks is one word of n * BlockSize bits, whatever the blocks it is cut *)
(* into, and adding and shifting the blocks one after the other is adding and *)
(* shifting that word.                                                     *)
(***************************************************************************)
EXTENDS BitStream, Matching, FiniteSetTheorems, WellFoundedInduction, TLAPS

(***************************************************************************)
(* Induction, by a least or smallest counterexample.                       *)
(***************************************************************************)

\* A set of numbers has a least one.
LEMMA LeastNumber ==
    ASSUME NEW S \in SUBSET Nat, S # {}
    PROVE  \E x \in S : \A y \in S : x <= y
<1>1. PICK x \in S : \A y \in S : ~ (<<y, x>> \in OpToRel(<, Nat))
  BY WFMin, NatLessThanWellFounded
<1>2. \A y \in S : y < x => <<y, x>> \in OpToRel(<, Nat)
  BY DEF OpToRel
<1>3. x \in Nat /\ \A y \in S : y \in Nat /\ ~ (y < x)
  BY <1>1, <1>2
<1>4. \A y \in S : x <= y
  BY <1>3
<1> QED
  BY <1>4

\* A set that contains 0 and the successor of each of its numbers contains
\* every number: from one block to the next, from one byte to the next.
LEMMA SetOfNat ==
    ASSUME NEW S, 0 \in S, \A n \in Nat : n \in S => n + 1 \in S
    PROVE  Nat \subseteq S
<1> DEFINE T == Nat \ S
<1> SUFFICES ASSUME T # {} PROVE FALSE
  OBVIOUS
<1>1. PICK x \in T : \A y \in T : x <= y
  <2> HIDE DEF T
  <2>1. T \in SUBSET Nat
    BY DEF T
  <2> QED
    BY <2>1, LeastNumber
<1>2. x # 0 /\ x - 1 \in Nat /\ (x - 1) + 1 = x
  OBVIOUS
<1>3. x - 1 \in S
  BY <1>1, <1>2
<1> QED
  BY <1>2, <1>3

\* A collection of subsets of a finite set that contains every subset all of
\* whose strict subsets it contains has them all.
LEMMA SetOfSubsets ==
    ASSUME NEW D, IsFiniteSet(D), NEW S,
           \A T \in SUBSET D : (\A U \in SUBSET T : U # T => U \in S) => T \in S
    PROVE  SUBSET D \subseteq S
<1> DEFINE Rest == (SUBSET D) \ S
<1> SUFFICES ASSUME Rest # {} PROVE FALSE
  OBVIOUS
<1>1. PICK T \in Rest : \A U \in Rest : ~ (<<U, T>> \in StrictSubsetOrdering(D))
  <2>1. Rest \subseteq FiniteSubsetsOf(D)
    BY FS_FiniteSubsetsOfFinite
  <2>2. IsWellFoundedOn(StrictSubsetOrdering(D), FiniteSubsetsOf(D))
    BY FS_StrictSubsetOrderingWellFounded
  <2> HIDE DEF Rest
  <2> QED
    BY <2>1, <2>2, WFMin
<1>2. \A U \in SUBSET T : U # T => <<U, T>> \in StrictSubsetOrdering(D)
  BY DEF StrictSubsetOrdering
<1>3. ASSUME NEW U \in SUBSET T, U # T
      PROVE  U \in S
  <2>1. U \in SUBSET D /\ U \notin Rest
    BY <1>1, <1>2, <1>3
  <2> QED
    BY <2>1
<1> QED
  BY <1>3

(***************************************************************************)
(* Positions.                                                              *)
(***************************************************************************)

IsStream(s, n) == n \in Nat /\ s \in [0..(n - 1) -> SUBSET Payload]

\* Bit p of block b is at position b * BlockSize + p.
LEMMA Place ==
    ASSUME NEW b \in Nat, NEW p \in Payload
    PROVE  /\ b * BlockSize + p \in Nat
           /\ (b * BlockSize + p) \div BlockSize = b
           /\ (b * BlockSize + p) % BlockSize = p
<1> USE BlockSizeAssumption DEF Payload
<1> DEFINE pos == b * BlockSize + p
           d == pos \div BlockSize
           r == pos % BlockSize
<1>1. pos \in Nat
  OBVIOUS
<1>2. d \in Nat /\ r \in Payload /\ pos = d * BlockSize + r
  BY <1>1
<1> HIDE DEF d, r
<1>3. d = b
  <2>1. CASE d + 1 <= b
    <3>1. (d + 1) * BlockSize <= b * BlockSize
      BY <1>2, <2>1
    <3>2. (d + 1) * BlockSize = d * BlockSize + BlockSize
      BY <1>2
    <3> QED
      BY <1>2, <3>1, <3>2
  <2>2. CASE b + 1 <= d
    <3>1. (b + 1) * BlockSize <= d * BlockSize
      BY <1>2, <2>2
    <3>2. (b + 1) * BlockSize = b * BlockSize + BlockSize
      OBVIOUS
    <3> QED
      BY <1>2, <3>1, <3>2
  <2> QED
    BY <1>2, <2>1, <2>2
<1>4. r = p
  BY <1>2, <1>3
<1> QED
  BY <1>1, <1>3, <1>4 DEF d, r

\* Every position is a bit of a block.
LEMMA PositionOf ==
    ASSUME NEW pos \in Nat
    PROVE  /\ pos \div BlockSize \in Nat
           /\ pos % BlockSize \in Payload
           /\ pos = (pos \div BlockSize) * BlockSize + (pos % BlockSize)
  BY BlockSizeAssumption DEF Payload

\* The positions of n blocks.
LEMMA PlaceWithin ==
    ASSUME NEW n \in Nat, NEW b \in Nat, NEW p \in Payload
    PROVE  b * BlockSize + p \in 0..(n * BlockSize - 1) <=> b \in 0..(n - 1)
<1> USE BlockSizeAssumption DEF Payload
<1>1. ASSUME b \in 0..(n - 1)
      PROVE  b * BlockSize + p \in 0..(n * BlockSize - 1)
  <2>1. (b + 1) * BlockSize <= n * BlockSize
    BY <1>1
  <2>2. (b + 1) * BlockSize = b * BlockSize + BlockSize
    OBVIOUS
  <2>3. b * BlockSize \in Nat /\ n * BlockSize \in Nat
    OBVIOUS
  <2> QED
    BY <2>1, <2>2, <2>3
<1>2. ASSUME b \notin 0..(n - 1)
      PROVE  b * BlockSize + p \notin 0..(n * BlockSize - 1)
  <2>1. n * BlockSize <= b * BlockSize
    BY <1>2
  <2>2. b * BlockSize \in Nat /\ n * BlockSize \in Nat
    OBVIOUS
  <2> QED
    BY <2>1, <2>2
<1> QED
  BY <1>1, <1>2

\* Among the multiples of the block size, the one in n..n+BlockSize-1 is n
\* itself when n is one, and more than n otherwise.
LEMMA NextMultiple ==
    ASSUME NEW n \in Nat, NEW q \in Nat, n <= q * BlockSize, q * BlockSize < n + BlockSize
    PROVE  /\ n % BlockSize = 0 => n = q * BlockSize
           /\ n % BlockSize # 0 => n < q * BlockSize
<1> USE BlockSizeAssumption
<1> DEFINE d == n \div BlockSize
<1>1. d \in Nat /\ n = d * BlockSize + (n % BlockSize)
  OBVIOUS
<1> HIDE DEF d
<1>2. ASSUME n % BlockSize = 0
      PROVE  n = q * BlockSize
  <2>1. n = d * BlockSize
    BY <1>1, <1>2
  <2>2. CASE q <= d
    <3>1. q * BlockSize <= d * BlockSize
      BY <1>1, <2>2
    <3> QED
      BY <2>1, <3>1
  <2>3. CASE q >= d + 1
    <3>1. q * BlockSize >= (d + 1) * BlockSize
      BY <1>1, <2>3
    <3>2. (d + 1) * BlockSize = n + BlockSize
      BY <1>1, <2>1
    <3> QED
      BY <3>1, <3>2
  <2> QED
    BY <1>1, <2>2, <2>3
<1>3. ASSUME n = q * BlockSize
      PROVE  n % BlockSize = 0
  BY <1>3
<1> QED
  BY <1>2, <1>3

LEMMA StreamSize ==
    ASSUME NEW s, NEW n, IsStream(s, n)
    PROVE  BlockCount(s) = n /\ n \in Nat /\ n * BlockSize \in Nat
<1>1. Cardinality(0..(n - 1)) = n
  BY FS_Interval DEF IsStream
<1> QED
  BY <1>1, BlockSizeAssumption DEF IsStream, BlockCount

\* What Positions says of each bit.
LEMMA PositionsAt ==
    ASSUME NEW s, NEW n, IsStream(s, n), NEW b \in 0..(n - 1), NEW p \in Payload
    PROVE  b * BlockSize + p \in Positions(s) <=> p \in s[b]
<1>1. b \in Nat /\ n \in Nat
  BY DEF IsStream
<1> QED
  BY <1>1, StreamSize, Place, PlaceWithin DEF Positions, IsSet

\* Two sets of positions are the same when they agree on each bit of each
\* block.
LEMMA PositionsAre ==
    ASSUME NEW s, NEW n, IsStream(s, n), NEW X \in SUBSET (0..(n * BlockSize - 1)),
           \A b \in 0..(n - 1) : \A p \in Payload : p \in s[b] <=> b * BlockSize + p \in X
    PROVE  Positions(s) = X
<1>1. Positions(s) \subseteq 0..(n * BlockSize - 1)
  BY StreamSize DEF Positions
<1>2. ASSUME NEW pos \in 0..(n * BlockSize - 1)
      PROVE  pos \in Positions(s) <=> pos \in X
  <2> DEFINE b == pos \div BlockSize
             p == pos % BlockSize
  <2>1. n \in Nat /\ pos \in Nat /\ b \in Nat /\ p \in Payload /\ pos = b * BlockSize + p
    BY PositionOf, StreamSize
  <2> HIDE DEF b, p
  <2>2. b \in 0..(n - 1)
    BY <2>1, PlaceWithin
  <2> QED
    BY <2>1, <2>2, PositionsAt
<1> QED
  BY <1>1, <1>2

\* A stream is what its positions are.
LEMMA StreamsEqual ==
    ASSUME NEW s, NEW t, NEW n, IsStream(s, n), IsStream(t, n), Positions(s) = Positions(t)
    PROVE  s = t
<1>1. ASSUME NEW b \in 0..(n - 1)
      PROVE  s[b] = t[b]
  <2>1. s[b] \in SUBSET Payload /\ t[b] \in SUBSET Payload
    BY DEF IsStream
  <2>2. \A p \in Payload : p \in s[b] <=> p \in t[b]
    BY PositionsAt
  <2> QED
    BY <2>1, <2>2
<1> QED
  BY <1>1 DEF IsStream

\* The bits of a stream are below its end, and each is a bit of a block.
LEMMA PositionsWithin ==
    ASSUME NEW s, NEW n, IsStream(s, n)
    PROVE  /\ Positions(s) \in SUBSET (0..(n * BlockSize - 1))
           /\ IsFiniteSet(Positions(s))
<1>1. Positions(s) \in SUBSET (0..(n * BlockSize - 1))
  BY StreamSize DEF Positions
<1>2. IsFiniteSet(0..(n * BlockSize - 1))
  BY StreamSize, FS_Interval
<1> QED
  BY <1>1, <1>2, FS_Subset

(***************************************************************************)
(* The operations that go block by block.                                  *)
(***************************************************************************)

\* A new stream has no bit set.
LEMMA ZerosStream ==
    ASSUME NEW n \in Nat
    PROVE  IsStream(Zeros(n), n) /\ Positions(Zeros(n)) = {}
<1>1. IsStream(Zeros(n), n)
  BY DEF IsStream, Zeros
<1>2. \A b \in 0..(n - 1) : Zeros(n)[b] = {}
  BY DEF Zeros
<1> QED
  BY <1>1, <1>2, PositionsAre

LEMMA AndStreamBits ==
    ASSUME NEW s, NEW t, NEW n, IsStream(s, n), IsStream(t, n)
    PROVE  /\ IsStream(AndStream(s, t), n)
           /\ Positions(AndStream(s, t)) = Positions(s) \cap Positions(t)
<1>1. IsStream(AndStream(s, t), n)
  BY DEF IsStream, AndStream
<1>2. \A b \in 0..(n - 1) : AndStream(s, t)[b] = s[b] \cap t[b]
  BY DEF IsStream, AndStream
<1>3. Positions(s) \cap Positions(t) \in SUBSET (0..(n * BlockSize - 1))
  BY PositionsWithin
<1>4. ASSUME NEW b \in 0..(n - 1), NEW p \in Payload
      PROVE  p \in AndStream(s, t)[b] <=> b * BlockSize + p \in Positions(s) \cap Positions(t)
  BY <1>2, PositionsAt
<1> QED
  BY <1>1, <1>3, <1>4, PositionsAre

LEMMA OrStreamBits ==
    ASSUME NEW s, NEW t, NEW n, IsStream(s, n), IsStream(t, n)
    PROVE  /\ IsStream(OrStream(s, t), n)
           /\ Positions(OrStream(s, t)) = Positions(s) \cup Positions(t)
<1>1. IsStream(OrStream(s, t), n)
  BY DEF IsStream, OrStream
<1>2. \A b \in 0..(n - 1) : OrStream(s, t)[b] = s[b] \cup t[b]
  BY DEF IsStream, OrStream
<1>3. Positions(s) \cup Positions(t) \in SUBSET (0..(n * BlockSize - 1))
  BY PositionsWithin
<1>4. ASSUME NEW b \in 0..(n - 1), NEW p \in Payload
      PROVE  p \in OrStream(s, t)[b] <=> b * BlockSize + p \in Positions(s) \cup Positions(t)
  BY <1>2, PositionsAt
<1> QED
  BY <1>1, <1>3, <1>4, PositionsAre

LEMMA XorStreamBits ==
    ASSUME NEW s, NEW t, NEW n, IsStream(s, n), IsStream(t, n)
    PROVE  /\ IsStream(XorStream(s, t), n)
           /\ Positions(XorStream(s, t)) = SymDiff(Positions(s), Positions(t))
<1>1. IsStream(XorStream(s, t), n)
  BY DEF IsStream, XorStream, SymDiff
<1>2. \A b \in 0..(n - 1) : XorStream(s, t)[b] = SymDiff(s[b], t[b])
  BY DEF IsStream, XorStream
<1>3. SymDiff(Positions(s), Positions(t)) \in SUBSET (0..(n * BlockSize - 1))
  BY PositionsWithin DEF SymDiff
<1>4. ASSUME NEW b \in 0..(n - 1), NEW p \in Payload
      PROVE  p \in XorStream(s, t)[b] <=> b * BlockSize + p \in SymDiff(Positions(s), Positions(t))
  BY <1>2, PositionsAt DEF SymDiff
<1> QED
  BY <1>1, <1>3, <1>4, PositionsAre

\* NotStream sets the spare bits: it is only ever an operand of AndStream.
LEMMA AndNotStreamBits ==
    ASSUME NEW s, NEW t, NEW n, IsStream(s, n), IsStream(t, n)
    PROVE  /\ IsStream(AndStream(s, NotStream(t)), n)
           /\ Positions(AndStream(s, NotStream(t))) = Positions(s) \ Positions(t)
<1> DEFINE u == AndStream(s, NotStream(t))
<1>1. \A b \in 0..(n - 1) : u[b] = s[b] \cap (Bit \ t[b])
  BY DEF IsStream, AndStream, NotStream
<1>2. Payload \subseteq Bit
  BY BlockSizeAssumption DEF Payload, Bit
<1>3. IsStream(u, n)
  BY <1>1 DEF IsStream, AndStream
<1>4. Positions(s) \ Positions(t) \in SUBSET (0..(n * BlockSize - 1))
  BY PositionsWithin
<1>5. ASSUME NEW b \in 0..(n - 1), NEW p \in Payload
      PROVE  p \in u[b] <=> b * BlockSize + p \in Positions(s) \ Positions(t)
  BY <1>1, <1>2, PositionsAt
<1> HIDE DEF u
<1>6. Positions(u) = Positions(s) \ Positions(t)
  BY <1>3, <1>4, <1>5, PositionsAre
<1> QED
  BY <1>3, <1>6 DEF u

\* set(pos, value).
LEMMA SetBitBits ==
    ASSUME NEW s, NEW n, IsStream(s, n), NEW pos \in 0..(n * BlockSize - 1),
           NEW value \in BOOLEAN
    PROVE  /\ IsStream(SetBit(s, pos, value), n)
           /\ Positions(SetBit(s, pos, value)) = Positions(s) \cup (IF value THEN {pos} ELSE {})
<1>1. CASE ~ value
  BY <1>1 DEF SetBit
<1>2. CASE value
  <2> DEFINE c == pos \div BlockSize
             q == pos % BlockSize
             u == SetBit(s, pos, value)
  <2>1. n \in Nat /\ c \in Nat /\ q \in Payload /\ pos = c * BlockSize + q
    BY StreamSize, PositionOf
  <2>2. u = [s EXCEPT ![c] = s[c] \cup {q}]
    BY <1>2 DEF SetBit
  <2> HIDE DEF c, q, u
  <2>3. c \in 0..(n - 1)
    BY <2>1, PlaceWithin
  <2>4. IsStream(u, n)
    BY <2>1, <2>2, <2>3 DEF IsStream
  <2>5. ASSUME NEW b \in 0..(n - 1), NEW p \in Payload
        PROVE  p \in u[b] <=> b * BlockSize + p \in Positions(s) \cup {pos}
    <3>1. b * BlockSize + p = pos <=> b = c /\ p = q
      BY <2>1, Place
    <3>2. u[b] = IF b = c THEN s[b] \cup {q} ELSE s[b]
      BY <2>2, <2>3 DEF IsStream
    <3> QED
      BY <3>1, <3>2, PositionsAt
  <2>6. Positions(s) \cup {pos} \in SUBSET (0..(n * BlockSize - 1))
    BY PositionsWithin
  <2>7. Positions(u) = Positions(s) \cup {pos}
    BY <2>4, <2>5, <2>6, PositionsAre
  <2> QED
    BY <1>2, <2>4, <2>7 DEF u
<1> QED
  BY <1>1, <1>2

(***************************************************************************)
(* The operations that carry from one block to the next.                   *)
(***************************************************************************)

\* Every position moves up by one; only what is moved past the end is lost.
Moved(X, size) == {pos \in 1..(size - 1) : pos - 1 \in X}

\* >>= 1 moves the positions, across the blocks too.
LEMMA ShiftStreamBits ==
    ASSUME NEW s, NEW n, IsStream(s, n)
    PROVE  /\ IsStream(ShiftStream(s), n)
           /\ Positions(ShiftStream(s)) = Moved(Positions(s), n * BlockSize)
<1> DEFINE u == ShiftStream(s)
           moved == Moved(Positions(s), n * BlockSize)
<1>1. n \in Nat /\ BlockSize \in Nat /\ BlockSize > 0 /\ n * BlockSize \in Nat
  BY StreamSize, BlockSizeAssumption
<1>2. \A b \in 0..(n - 1) :
          u[b] = ClearLast(ShiftLeftOne(s[b])) \cup CarryWord(b > 0 /\ BlockSize - 1 \in s[b - 1])
  BY DEF IsStream, ShiftStream
<1>3. \A b \in 0..(n - 1) : u[b] \in SUBSET Payload
  BY <1>1, <1>2 DEF ClearLast, SpareBit, ShiftLeftOne, CarryWord, Payload
<1>4. IsStream(u, n)
  BY <1>3 DEF IsStream, ShiftStream
<1>5. moved \in SUBSET (0..(n * BlockSize - 1))
  BY <1>1 DEF Moved
<1>6. ASSUME NEW b \in 0..(n - 1), NEW p \in Payload
      PROVE  p \in u[b] <=> b * BlockSize + p \in moved
  <2>1. b \in Nat /\ b * BlockSize + p \in 0..(n * BlockSize - 1)
    BY <1>1, PlaceWithin
  <2>2. CASE p # 0
    <3>1. p - 1 \in Payload /\ p \in 1..BlockSize /\ p # BlockSize
      BY <1>1, <2>2 DEF Payload
    <3>2. p \in u[b] <=> p - 1 \in s[b]
      BY <1>2, <3>1, <2>2 DEF ClearLast, SpareBit, ShiftLeftOne, CarryWord
    <3>3. p - 1 \in s[b] <=> b * BlockSize + (p - 1) \in Positions(s)
      BY <3>1, PositionsAt
    <3>4. /\ b * BlockSize + (p - 1) = (b * BlockSize + p) - 1
          /\ b * BlockSize + p \in 1..(n * BlockSize - 1)
      BY <1>1, <2>1, <3>1
    <3> QED
      BY <3>2, <3>3, <3>4 DEF Moved
  <2>3. CASE p = 0 /\ b = 0
    <3>1. p \notin u[b]
      BY <1>2, <2>3 DEF ClearLast, ShiftLeftOne, CarryWord
    <3>2. b * BlockSize + p = 0
      BY <1>1, <2>3
    <3> QED
      BY <3>1, <3>2 DEF Moved
  <2>4. CASE p = 0 /\ b # 0
    <3>1. b - 1 \in 0..(n - 1) /\ BlockSize - 1 \in Payload
      BY <1>1, <2>4 DEF Payload
    <3>2. p \in u[b] <=> BlockSize - 1 \in s[b - 1]
      BY <1>2, <2>4 DEF ClearLast, ShiftLeftOne, CarryWord
    <3>3. BlockSize - 1 \in s[b - 1] <=> (b - 1) * BlockSize + (BlockSize - 1) \in Positions(s)
      BY <3>1, PositionsAt
    <3>4. /\ (b - 1) * BlockSize + (BlockSize - 1) = (b * BlockSize + p) - 1
          /\ b * BlockSize >= BlockSize
      BY <1>1, <2>1, <2>4
    <3>5. b * BlockSize + p \in 1..(n * BlockSize - 1)
      BY <1>1, <2>1, <2>4, <3>4
    <3> QED
      BY <3>2, <3>3, <3>4, <3>5 DEF Moved
  <2> QED
    BY <2>2, <2>3, <2>4
<1> HIDE DEF u, moved
<1>7. Positions(u) = moved
  BY <1>4, <1>5, <1>6, PositionsAre
<1> QED
  BY <1>4, <1>7 DEF u, moved

\* A carry that reaches a bit of the block at base comes from the block, or
\* has reached the block before.
LEMMA CarrySplit ==
    ASSUME NEW X, NEW Y, NEW base \in Nat, NEW p \in Nat
    PROVE  CarryInto(X, Y, FALSE, base + p) <=>
               \/ \E g \in base..(base + p - 1) :
                      g \in X \cap Y /\ Propagates(X, Y, g + 1, base + p - 1)
               \/ CarryInto(X, Y, FALSE, base) /\ Propagates(X, Y, base, base + p - 1)
<1>1. ASSUME NEW g \in 0..(base - 1)
      PROVE  Propagates(X, Y, g + 1, base + p - 1) <=>
                 Propagates(X, Y, g + 1, base - 1) /\ Propagates(X, Y, base, base + p - 1)
  <2>1. \A q \in Int : q \in (g + 1)..(base + p - 1) <=>
                           q \in (g + 1)..(base - 1) \/ q \in base..(base + p - 1)
    OBVIOUS
  <2> QED
    BY <2>1 DEF Propagates
<1>2. 0..(base + p - 1) = (0..(base - 1)) \cup (base..(base + p - 1))
  OBVIOUS
<1>3. CarryInto(X, Y, FALSE, base) <=>
          \E g \in 0..(base - 1) : g \in X \cap Y /\ Propagates(X, Y, g + 1, base - 1)
  BY DEF CarryInto
<1>4. CarryInto(X, Y, FALSE, base + p) <=>
          \E g \in 0..(base + p - 1) : g \in X \cap Y /\ Propagates(X, Y, g + 1, base + p - 1)
  BY DEF CarryInto
<1> DEFINE Reaches(g) == g \in X \cap Y /\ Propagates(X, Y, g + 1, base + p - 1)
<1>5. (\E g \in 0..(base - 1) : Reaches(g)) <=>
          CarryInto(X, Y, FALSE, base) /\ Propagates(X, Y, base, base + p - 1)
  BY <1>1, <1>3
<1>6. CarryInto(X, Y, FALSE, base + p) <=> \E g \in 0..(base + p - 1) : Reaches(g)
  BY <1>4
<1> HIDE DEF Reaches
<1>7. CarryInto(X, Y, FALSE, base + p) <=>
          (\E g \in base..(base + p - 1) : Reaches(g)) \/ \E g \in 0..(base - 1) : Reaches(g)
  BY <1>2, <1>6, Zenon
<1> QED
  BY <1>5, <1>7 DEF Reaches

\* The carry chain of a block, given the carry that has reached it, is the
\* carry chain of the whole word.
LEMMA BlockCarry ==
    ASSUME NEW X, NEW Y, NEW x, NEW y, NEW base \in Nat, NEW p \in Nat,
           \A q \in 0..(p - 1) : q \in x <=> base + q \in X,
           \A q \in 0..(p - 1) : q \in y <=> base + q \in Y
    PROVE  CarryInto(x, y, CarryInto(X, Y, FALSE, base), p) <=> CarryInto(X, Y, FALSE, base + p)
<1> DEFINE c == CarryInto(X, Y, FALSE, base)
<1>1. ASSUME NEW lo \in 0..p
      PROVE  Propagates(x, y, lo, p - 1) <=> Propagates(X, Y, base + lo, base + p - 1)
  <2>1. ASSUME Propagates(x, y, lo, p - 1), NEW q \in (base + lo)..(base + p - 1)
        PROVE  q \in X \cup Y
    <3>1. q - base \in lo..(p - 1) /\ q - base \in 0..(p - 1) /\ base + (q - base) = q
      OBVIOUS
    <3>2. q - base \in x \cup y
      BY <2>1, <3>1 DEF Propagates
    <3> QED
      BY <3>1, <3>2
  <2>2. ASSUME Propagates(X, Y, base + lo, base + p - 1), NEW q \in lo..(p - 1)
        PROVE  q \in x \cup y
    <3>1. base + q \in (base + lo)..(base + p - 1) /\ q \in 0..(p - 1)
      OBVIOUS
    <3>2. base + q \in X \cup Y
      BY <2>2, <3>1 DEF Propagates
    <3> QED
      BY <3>1, <3>2
  <2> QED
    BY <2>1, <2>2 DEF Propagates
<1>2. (\E g \in 0..(p - 1) : g \in x \cap y /\ Propagates(x, y, g + 1, p - 1)) <=>
          \E g \in base..(base + p - 1) :
              g \in X \cap Y /\ Propagates(X, Y, g + 1, base + p - 1)
  <2>1. ASSUME NEW g \in 0..(p - 1), g \in x \cap y, Propagates(x, y, g + 1, p - 1)
        PROVE  \E h \in base..(base + p - 1) :
                   h \in X \cap Y /\ Propagates(X, Y, h + 1, base + p - 1)
    <3>1. /\ base + g \in base..(base + p - 1) /\ g + 1 \in 0..p
          /\ base + (g + 1) = (base + g) + 1
      OBVIOUS
    <3>2. base + g \in X \cap Y
      BY <2>1
    <3>3. Propagates(X, Y, (base + g) + 1, base + p - 1)
      BY <1>1, <2>1, <3>1
    <3> QED
      BY <3>1, <3>2, <3>3
  <2>2. ASSUME NEW h \in base..(base + p - 1), h \in X \cap Y,
               Propagates(X, Y, h + 1, base + p - 1)
        PROVE  \E g \in 0..(p - 1) : g \in x \cap y /\ Propagates(x, y, g + 1, p - 1)
    <3> DEFINE g == h - base
    <3>1. /\ g \in 0..(p - 1) /\ g + 1 \in 0..p
          /\ base + g = h /\ base + (g + 1) = h + 1
      OBVIOUS
    <3> HIDE DEF g
    <3>2. g \in x \cap y
      BY <2>2, <3>1
    <3>3. Propagates(x, y, g + 1, p - 1)
      BY <1>1, <2>2, <3>1
    <3> QED
      BY <3>1, <3>2, <3>3
  <2> QED
    BY <2>1, <2>2
<1>3. Propagates(x, y, 0, p - 1) <=> Propagates(X, Y, base, base + p - 1)
  <2>1. 0 \in 0..p /\ base + 0 = base
    OBVIOUS
  <2> QED
    BY <1>1, <2>1
<1>4. CarryInto(x, y, c, p) <=>
          \/ \E g \in 0..(p - 1) : g \in x \cap y /\ Propagates(x, y, g + 1, p - 1)
          \/ c /\ Propagates(x, y, 0, p - 1)
  BY DEF CarryInto
<1> HIDE DEF c
<1>5. CarryInto(X, Y, FALSE, base + p) <=>
          \/ \E g \in base..(base + p - 1) :
                 g \in X \cap Y /\ Propagates(X, Y, g + 1, base + p - 1)
          \/ c /\ Propagates(X, Y, base, base + p - 1)
  BY CarrySplit DEF c
<1> QED
  BY <1>2, <1>3, <1>4, <1>5 DEF c

\* The sum of two words as long as a stream, mod 2^size.
LongPlus(X, Y, size) ==
    {pos \in 0..(size - 1) : ((pos \in X) # (pos \in Y)) # CarryInto(X, Y, FALSE, pos)}

\* += adds the blocks one after the other, the carry of each being the spare
\* bit of its sum.  The sums of the blocks, each with the carry of the long
\* addition that reaches it, are the only ones to be so chained.
LEMMA PlusStreamBits ==
    ASSUME NEW s, NEW t, NEW n, IsStream(s, n), IsStream(t, n)
    PROVE  /\ IsStream(PlusStream(s, t), n)
           /\ Positions(PlusStream(s, t)) = LongPlus(Positions(s), Positions(t), n * BlockSize)
<1> DEFINE X == Positions(s)
           Y == Positions(t)
           Into(b) == CarryInto(X, Y, FALSE, b * BlockSize)
           carried == [b \in DOMAIN s |-> Plus(s[b], t[b], Into(b))]
           Chained(f) ==
               f = [b \in DOMAIN s |-> Plus(s[b], t[b], IF b = 0 THEN FALSE ELSE LastBit(f[b - 1]))]
           sum == CHOOSE f : Chained(f)
<1>0. /\ n \in Nat /\ n * BlockSize \in Nat /\ BlockSize \in Nat /\ BlockSize > 0
      /\ DOMAIN s = 0..(n - 1)
  BY StreamSize, BlockSizeAssumption DEF IsStream
<1>1. ASSUME NEW b \in 0..(n - 1), NEW p \in Bit
      PROVE  CarryInto(s[b], t[b], Into(b), p) <=> CarryInto(X, Y, FALSE, b * BlockSize + p)
  <2>1. b * BlockSize \in Nat /\ p \in Nat
    BY <1>0 DEF Bit
  <2>2. \A q \in 0..(p - 1) : q \in Payload
    BY <1>0 DEF Bit, Payload
  <2>3. \A q \in 0..(p - 1) : q \in s[b] <=> b * BlockSize + q \in X
    BY <2>2, PositionsAt
  <2>4. \A q \in 0..(p - 1) : q \in t[b] <=> b * BlockSize + q \in Y
    BY <2>2, PositionsAt
  <2> HIDE DEF X, Y
  <2> QED
    BY <2>1, <2>3, <2>4, BlockCarry
<1>2. \A b \in Nat : Into(b) \in BOOLEAN
  BY DEF CarryInto
<1>3. ~ Into(0)
  <2>1. 0 * BlockSize = 0
    BY <1>0
  <2> QED
    BY <2>1 DEF CarryInto
<1>4. ASSUME NEW b \in 0..(n - 1)
      PROVE  LastBit(carried[b]) <=> Into(b + 1)
  <2>1. SpareBit \in Bit /\ SpareBit \notin s[b] /\ SpareBit \notin t[b]
    BY <1>0 DEF IsStream, SpareBit, Bit, Payload
  <2>2. LastBit(carried[b]) <=> CarryInto(s[b], t[b], Into(b), SpareBit)
    <3> HIDE DEF Into
    <3>1. carried[b] = Plus(s[b], t[b], Into(b))
      BY <1>0
    <3>2. CarryInto(s[b], t[b], Into(b), SpareBit) \in BOOLEAN
      BY <1>2, <1>0 DEF CarryInto
    <3> QED
      BY <2>1, <3>1, <3>2 DEF LastBit, Plus
  <2>3. b * BlockSize + SpareBit = (b + 1) * BlockSize
    BY <1>0 DEF SpareBit
  <2> QED
    BY <1>1, <2>1, <2>2, <2>3
<1>5. Chained(carried)
  <2> SUFFICES ASSUME NEW b \in 0..(n - 1)
               PROVE  Into(b) = IF b = 0 THEN FALSE ELSE LastBit(carried[b - 1])
    BY <1>0
  <2>1. CASE b = 0
    BY <2>1, <1>2, <1>3
  <2>2. CASE b # 0
    <3>1. b - 1 \in 0..(n - 1) /\ (b - 1) + 1 = b /\ b \in Nat
      BY <1>0, <2>2
    <3>2. LastBit(carried[b - 1]) \in BOOLEAN
      BY DEF LastBit
    <3> HIDE DEF Into, carried
    <3>3. LastBit(carried[b - 1]) <=> Into(b)
      BY <1>4, <3>1
    <3> QED
      BY <1>2, <2>2, <3>1, <3>2, <3>3
  <2> QED
    BY <2>1, <2>2
<1> HIDE DEF Into, carried, X, Y
<1>6. Chained(sum)
  <2> HIDE DEF Chained
  <2> QED
    BY <1>5
<1>7. \A b \in 0..(n - 1) : sum[b] = carried[b]
  <2> DEFINE S == {b \in Nat : b \in 0..(n - 1) => sum[b] = carried[b]}
  <2> HIDE DEF sum
  <2>1. \A b \in 0..(n - 1) :
            /\ sum[b] = Plus(s[b], t[b], IF b = 0 THEN FALSE ELSE LastBit(sum[b - 1]))
            /\ carried[b] = Plus(s[b], t[b], IF b = 0 THEN FALSE ELSE LastBit(carried[b - 1]))
    BY <1>0, <1>5, <1>6
  <2> HIDE DEF Chained
  <2>2. 0 \in S
    BY <2>1
  <2>3. \A b \in Nat : b \in S => b + 1 \in S
    <3> SUFFICES ASSUME NEW b \in Nat, b \in S, b + 1 \in 0..(n - 1)
                 PROVE  sum[b + 1] = carried[b + 1]
      OBVIOUS
    <3>1. b \in 0..(n - 1) /\ b + 1 # 0 /\ (b + 1) - 1 = b
      BY <1>0
    <3>2. sum[b] = carried[b]
      BY <3>1
    <3>3. \A c \in 0..(n - 1) : c # 0 =>
              /\ sum[c] = Plus(s[c], t[c], LastBit(sum[c - 1]))
              /\ carried[c] = Plus(s[c], t[c], LastBit(carried[c - 1]))
      BY <2>1
    <3> QED
      BY <3>1, <3>2, <3>3
  <2>4. Nat \subseteq S
    <3> HIDE DEF S
    <3> QED
      BY <2>2, <2>3, SetOfNat
  <2> QED
    BY <1>0, <2>4
<1>8. PlusStream(s, t) = [b \in DOMAIN s |-> ClearLast(sum[b])]
  BY DEF PlusStream
<1> HIDE DEF sum, Chained
<1> DEFINE u == PlusStream(s, t)
<1>9. \A b \in 0..(n - 1) : u[b] = ClearLast(Plus(s[b], t[b], Into(b)))
  BY <1>0, <1>7, <1>8 DEF carried
<1>10. /\ Payload \subseteq Bit /\ SpareBit \notin Payload
       /\ Bit \ {SpareBit} = Payload
  BY <1>0 DEF Payload, SpareBit, Bit
<1>11. IsStream(u, n)
  <2>1. \A b \in 0..(n - 1) : u[b] \in SUBSET Payload
    BY <1>9, <1>10 DEF ClearLast, Plus
  <2> QED
    BY <1>0, <1>8, <2>1 DEF IsStream
<1>12. ASSUME NEW b \in 0..(n - 1), NEW p \in Payload
       PROVE  p \in u[b] <=> b * BlockSize + p \in LongPlus(X, Y, n * BlockSize)
  <2>1. b \in Nat /\ p \in Bit /\ b * BlockSize + p \in 0..(n * BlockSize - 1)
    BY <1>0, <1>10, PlaceWithin
  <2>2. p \in s[b] <=> b * BlockSize + p \in X
    BY PositionsAt DEF X
  <2>3. p \in t[b] <=> b * BlockSize + p \in Y
    BY PositionsAt DEF Y
  <2> DEFINE c == CarryInto(s[b], t[b], Into(b), p)
             C == CarryInto(X, Y, FALSE, b * BlockSize + p)
  <2>4. c <=> C
    BY <1>1, <2>1
  <2>5. c \in BOOLEAN /\ C \in BOOLEAN
    BY <1>2, <2>1 DEF CarryInto
  <2>6. p \in u[b] <=> ((p \in s[b]) # (p \in t[b])) # c
    BY <1>9, <1>10, <2>1 DEF ClearLast, Plus
  <2>7. b * BlockSize + p \in LongPlus(X, Y, n * BlockSize) <=>
            ((b * BlockSize + p \in X) # (b * BlockSize + p \in Y)) # C
    BY <2>1 DEF LongPlus
  <2> HIDE DEF c, C
  <2> QED
    BY <2>2, <2>3, <2>4, <2>5, <2>6, <2>7
<1>13. LongPlus(X, Y, n * BlockSize) \in SUBSET (0..(n * BlockSize - 1))
  BY DEF LongPlus
<1> HIDE DEF u
<1>14. Positions(u) = LongPlus(X, Y, n * BlockSize)
  BY <1>11, <1>12, <1>13, PositionsAre
<1> QED
  BY <1>11, <1>14 DEF u, X, Y

(***************************************************************************)
(* operations/marker.h on streams.                                         *)
(***************************************************************************)

\* A carry reaches position p of M /\ CC + CC + c exactly when a marker below
\* it, or the carry-in, sees only class bits up to p: addition runs along the
\* class.
LEMMA StarCarry ==
    ASSUME NEW CC, NEW M, NEW c \in BOOLEAN, NEW p \in Nat
    PROVE  CarryInto(M \cap CC, CC, c, p) <=>
               \/ \E s \in 0..(p - 1) : s \in M /\ \A q \in s..(p - 1) : q \in CC
               \/ c /\ \A q \in 0..(p - 1) : q \in CC
<1>1. (M \cap CC) \cap CC = M \cap CC /\ (M \cap CC) \cup CC = CC
  OBVIOUS
<1>2. CarryInto(M \cap CC, CC, c, p) <=>
          \/ \E g \in 0..(p - 1) :
                 g \in M /\ g \in CC /\ \A q \in (g + 1)..(p - 1) : q \in CC
          \/ c /\ \A q \in 0..(p - 1) : q \in CC
  BY <1>1 DEF CarryInto, Propagates
<1>3. \A g \in 0..(p - 1) :
          (\A q \in g..(p - 1) : q \in CC) <=>
              g \in CC /\ \A q \in (g + 1)..(p - 1) : q \in CC
  <2>1. \A g \in 0..(p - 1) : \A q \in Int :
            q \in g..(p - 1) <=> q = g \/ q \in (g + 1)..(p - 1)
    OBVIOUS
  <2> QED
    BY <2>1
<1> QED
  BY <1>2, <1>3

\* The bit that MatchStar leaves where the sum has the carry into: every
\* marker stays, and what a carry reaches is added.
LEMMA StarXor ==
    ASSUME NEW CC, NEW M, NEW sum, NEW p, NEW into \in BOOLEAN,
           p \in sum <=> ((p \in M \cap CC) # (p \in CC)) # into
    PROVE  p \in SymDiff(sum, CC) \cup M <=> p \in M \/ into
<1>1. p \in sum <=> IF p \in CC /\ p \notin M THEN ~ into ELSE into
  <2>1. CASE p \in CC /\ p \notin M
    BY <2>1
  <2>2. CASE ~ (p \in CC /\ p \notin M)
    BY <2>2
  <2> QED
    BY <2>1, <2>2
<1>2. p \in SymDiff(sum, CC) <=> ~ (p \in sum <=> p \in CC)
  BY DEF SymDiff
<1>3. p \in SymDiff(sum, CC) <=> IF p \in CC /\ p \in M THEN ~ into ELSE into
  BY <1>1, <1>2, Zenon
<1> QED
  BY <1>3

\* advance: a marker on a bit of the class moves to the next position.
LEMMA AdvanceStreamBits ==
    ASSUME NEW s, NEW t, NEW n, IsStream(s, n), IsStream(t, n)
    PROVE  /\ IsStream(AdvanceStream(s, t), n)
           /\ Positions(AdvanceStream(s, t)) =
                  Moved(Positions(s) \cap Positions(t), n * BlockSize)
<1> DEFINE u == AndStream(s, t)
<1>1. IsStream(u, n) /\ Positions(u) = Positions(s) \cap Positions(t)
  BY AndStreamBits
<1>2. AdvanceStream(s, t) = ShiftStream(u)
  BY DEF AdvanceStream
<1> HIDE DEF u
<1> QED
  BY <1>1, <1>2, ShiftStreamBits

\* Every position after a marker up to which the class goes on.
RunEnds(M, C, size) == {p \in 0..(size - 1) : \E s \in M : s < p /\ s..(p - 1) \subseteq C}

\* The carry of the star's sum enters a position that a run ends at.
LEMMA StarRunEnds ==
    ASSUME NEW size \in Nat, NEW M \in SUBSET (0..(size - 1)), NEW C,
           NEW p \in 0..(size - 1)
    PROVE  CarryInto(M \cap C, C, FALSE, p) <=> p \in RunEnds(M, C, size)
<1>1. CarryInto(M \cap C, C, FALSE, p) <=>
          \E q \in 0..(p - 1) : q \in M /\ \A r \in q..(p - 1) : r \in C
  <2>1. FALSE \in BOOLEAN /\ p \in Nat
    OBVIOUS
  <2> QED
    BY <2>1, StarCarry
<1>2. \A q \in M : q \in 0..(p - 1) <=> q < p
  OBVIOUS
<1> QED
  BY <1>1, <1>2 DEF RunEnds

\* match_star: every marker stays, and the positions that its class runs up
\* to are marked.
LEMMA MatchStarStreamBits ==
    ASSUME NEW s, NEW t, NEW n, IsStream(s, n), IsStream(t, n)
    PROVE  /\ IsStream(MatchStarStream(s, t), n)
           /\ Positions(MatchStarStream(s, t)) =
                  Positions(s) \cup RunEnds(Positions(s), Positions(t), n * BlockSize)
<1> DEFINE M == Positions(s)
           C == Positions(t)
           size == n * BlockSize
           sum == LongPlus(M \cap C, C, size)
           and == AndStream(s, t)
           plus == PlusStream(and, t)
           xor == XorStream(plus, t)
           u == OrStream(xor, s)
<1>1. IsStream(and, n) /\ Positions(and) = M \cap C
  BY AndStreamBits
<1>2. MatchStarStream(s, t) = u
  BY DEF MatchStarStream
<1> HIDE DEF and
<1>3. IsStream(plus, n) /\ Positions(plus) = sum
  BY <1>1, PlusStreamBits
<1> HIDE DEF plus
<1>4. IsStream(xor, n) /\ Positions(xor) = SymDiff(sum, C)
  BY <1>3, XorStreamBits
<1> HIDE DEF xor
<1>5. IsStream(u, n) /\ Positions(u) = SymDiff(sum, C) \cup M
  BY <1>4, OrStreamBits
<1>6. size \in Nat /\ M \in SUBSET (0..(size - 1)) /\ C \in SUBSET (0..(size - 1))
  BY StreamSize, PositionsWithin
<1> HIDE DEF size, M, C
<1>7. ASSUME NEW p \in 0..(size - 1)
      PROVE  p \in SymDiff(sum, C) \cup M <=> p \in M \cup RunEnds(M, C, size)
  <2> DEFINE into == CarryInto(M \cap C, C, FALSE, p)
  <2>1. p \in sum <=> ((p \in M \cap C) # (p \in C)) # into
    BY DEF LongPlus
  <2>2. into \in BOOLEAN
    BY DEF CarryInto
  <2>3. into <=> p \in RunEnds(M, C, size)
    BY <1>6, StarRunEnds
  <2> HIDE DEF into, sum
  <2> QED
    BY <2>1, <2>2, <2>3, StarXor
<1>8. SymDiff(sum, C) \cup M \in SUBSET (0..(size - 1))
  BY <1>6 DEF SymDiff, LongPlus
<1>9. M \cup RunEnds(M, C, size) \in SUBSET (0..(size - 1))
  BY <1>6 DEF RunEnds
<1> HIDE DEF sum, u
<1>10. Positions(u) = M \cup RunEnds(M, C, size)
  BY <1>5, <1>7, <1>8, <1>9
<1> QED
  BY <1>2, <1>5, <1>10 DEF M, C, size

\* scan_thru: a marker moves through a run of the class to its end.
LEMMA ScanThruStreamBits ==
    ASSUME NEW s, NEW t, NEW n, IsStream(s, n), IsStream(t, n)
    PROVE  /\ IsStream(ScanThruStream(s, t), n)
           /\ Positions(ScanThruStream(s, t)) =
                  LongPlus(Positions(s), Positions(t), n * BlockSize) \ Positions(t)
<1> DEFINE u == PlusStream(s, t)
<1>1. IsStream(u, n) /\ Positions(u) = LongPlus(Positions(s), Positions(t), n * BlockSize)
  BY PlusStreamBits
<1>2. ScanThruStream(s, t) = AndStream(u, NotStream(t))
  BY DEF ScanThruStream
<1> HIDE DEF u
<1> QED
  BY <1>1, <1>2, AndNotStreamBits

(***************************************************************************)
(* pop_count.                                                              *)
(***************************************************************************)

\* The bits of one block.
LEMMA BlockBits ==
    ASSUME NEW s, NEW n, IsStream(s, n), NEW c \in 0..(n - 1)
    PROVE  LET block == {pos \in Positions(s) : pos \div BlockSize = c}
           IN  IsFiniteSet(block) /\ Cardinality(block) = Cardinality(s[c])
<1> DEFINE block == {pos \in Positions(s) : pos \div BlockSize = c}
           place == [p \in s[c] |-> c * BlockSize + p]
<1>1. IsFiniteSet(block)
  BY PositionsWithin, FS_Subset
<1>2. n \in Nat /\ c \in Nat /\ s[c] \in SUBSET Payload
  BY DEF IsStream
<1>3. IsFiniteSet(s[c])
  <2>1. IsFiniteSet(Payload)
    BY FS_Interval, BlockSizeAssumption DEF Payload
  <2> QED
    BY <1>2, <2>1, FS_Subset
<1>4. place \in [s[c] -> block]
  <2>1. \A p \in s[c] : c * BlockSize + p \in Positions(s) /\ (c * BlockSize + p) \div BlockSize = c
    BY <1>2, PositionsAt, Place
  <2> QED
    BY <2>1
<1>5. \A p, q \in s[c] : place[p] = place[q] => p = q
  BY <1>2, BlockSizeAssumption DEF Payload
<1>6. \A pos \in block : \E p \in s[c] : place[p] = pos
  <2> SUFFICES ASSUME NEW pos \in block
               PROVE  \E p \in s[c] : place[p] = pos
    OBVIOUS
  <2> DEFINE p == pos % BlockSize
  <2>1. pos \in Nat
    BY PositionsWithin
  <2>2. p \in Payload /\ pos = c * BlockSize + p
    BY <2>1, PositionOf
  <2> HIDE DEF p
  <2>3. p \in s[c]
    BY <2>2, PositionsAt
  <2> QED
    BY <2>2, <2>3
<1> HIDE DEF place, block
<1>7. place \in Bijection(s[c], block)
  BY <1>4, <1>5, <1>6 DEF Bijection, Injection, IsInjective, Surjection
<1>8. Cardinality(block) = Cardinality(s[c])
  BY <1>3, <1>7, FS_Bijection DEF ExistsBijection
<1> QED
  BY <1>1, <1>8 DEF block

\* Block by block, pop_count adds up the number of positions: the sum over the
\* blocks is the only function of sets of blocks that starts at 0 and grows by
\* a block's count with each block.
LEMMA PopCountBits ==
    ASSUME NEW s, NEW n, IsStream(s, n)
    PROVE  PopCount(s) = Cardinality(Positions(s))
<1> DEFINE D == DOMAIN s
           In(T) == {pos \in Positions(s) : pos \div BlockSize \in T}
           count == [T \in SUBSET D |-> Cardinality(In(T))]
           Adds(f) == f = [T \in SUBSET D |->
                              IF T = {} THEN 0
                              ELSE Cardinality(s[CHOOSE x \in T : TRUE]) + f[T \ {CHOOSE x \in T : TRUE}]]
           iter == CHOOSE f : Adds(f)
<1>0. n \in Nat /\ D = 0..(n - 1)
  BY DEF IsStream
<1>1. \A T : IsFiniteSet(In(T)) /\ Cardinality(In(T)) \in Nat
  BY PositionsWithin, FS_Subset, FS_CardinalityType
<1>2. Cardinality(In({})) = 0
  <2>1. In({}) = {}
    OBVIOUS
  <2> QED
    BY <2>1, FS_EmptySet
<1>3. ASSUME NEW T \in SUBSET D, NEW x \in T
      PROVE  Cardinality(In(T)) = Cardinality(s[x]) + Cardinality(In(T \ {x}))
  <2> DEFINE block == {pos \in Positions(s) : pos \div BlockSize = x}
             rest == In(T \ {x})
  <2>1. In(T) = block \cup rest /\ block \cap rest = {}
    OBVIOUS
  <2>2. IsFiniteSet(block) /\ Cardinality(block) = Cardinality(s[x])
    BY <1>0, BlockBits
  <2>3. IsFiniteSet(rest)
    BY <1>1
  <2> HIDE DEF block, rest, In
  <2>4. Cardinality(block \cup rest) =
            Cardinality(block) + Cardinality(rest) - Cardinality(block \cap rest)
    BY <2>2, <2>3, FS_Union
  <2>5. Cardinality(block \cap rest) = 0
    BY <2>1, FS_EmptySet
  <2>6. Cardinality(block) \in Nat /\ Cardinality(rest) \in Nat
    BY <2>2, <2>3, FS_CardinalityType
  <2>7. Cardinality(In(T)) = Cardinality(block) + Cardinality(rest)
    BY <2>1, <2>4, <2>5, <2>6
  <2> QED
    BY <2>2, <2>7 DEF rest
<1> HIDE DEF In
<1>4. Adds(count)
  <2> SUFFICES ASSUME NEW T \in SUBSET D, T # {}
               PROVE  count[T] = Cardinality(s[CHOOSE x \in T : TRUE]) + count[T \ {CHOOSE x \in T : TRUE}]
    BY <1>2
  <2> DEFINE x == CHOOSE x \in T : TRUE
  <2>1. x \in T
    OBVIOUS
  <2> HIDE DEF x
  <2>2. count[T] = Cardinality(s[x]) + count[T \ {x}]
    BY <1>3, <2>1
  <2> QED
    BY <2>2 DEF x
<1> HIDE DEF count
<1>5. Adds(iter)
  <2> HIDE DEF Adds
  <2> QED
    BY <1>4
<1>6. \A T \in SUBSET D : iter[T] = count[T]
  <2> DEFINE S == {T \in SUBSET D : iter[T] = count[T]}
  <2> HIDE DEF iter
  <2>1. ASSUME NEW T \in SUBSET D, \A U \in SUBSET T : U # T => U \in S
        PROVE  T \in S
    <3>1. CASE T = {}
      BY <3>1, <1>4, <1>5
    <3>2. CASE T # {}
      <4> DEFINE x == CHOOSE x \in T : TRUE
      <4>1. x \in T
        BY <3>2
      <4>2. /\ iter[T] = Cardinality(s[x]) + iter[T \ {x}]
            /\ count[T] = Cardinality(s[x]) + count[T \ {x}]
        BY <3>2, <1>4, <1>5
      <4> HIDE DEF x
      <4>3. T \ {x} \in S
        BY <2>1, <4>1
      <4> QED
        BY <4>2, <4>3
    <3> QED
      BY <3>1, <3>2
  <2>2. IsFiniteSet(D)
    BY <1>0, FS_Interval
  <2> HIDE DEF S, D
  <2>3. SUBSET D \subseteq S
    BY <2>1, <2>2, SetOfSubsets
  <2> QED
    BY <2>3 DEF S
<1>7. PopCount(s) = iter[D]
  BY DEF PopCount, MapThenSumSet, MapThenFoldSet
<1>8. In(D) = Positions(s)
  <2>1. \A pos \in Positions(s) : pos \div BlockSize \in D
    <3> SUFFICES ASSUME NEW pos \in Positions(s)
                 PROVE  pos \div BlockSize \in 0..(n - 1)
      BY <1>0
    <3> DEFINE b == pos \div BlockSize
               p == pos % BlockSize
    <3>1. pos \in Nat /\ pos \in 0..(n * BlockSize - 1)
      BY PositionsWithin
    <3>2. b \in Nat /\ p \in Payload /\ pos = b * BlockSize + p
      BY <3>1, PositionOf
    <3> HIDE DEF b, p
    <3>3. b \in 0..(n - 1)
      BY <1>0, <3>1, <3>2, PlaceWithin
    <3> QED
      BY <3>3 DEF b
  <2> QED
    BY <2>1 DEF In
<1> QED
  BY <1>6, <1>7, <1>8 DEF count

(***************************************************************************)
(* Matches.  These facts let the proofs go item by item and block by block *)
(* without ever looking at the cuts again.                                 *)
(***************************************************************************)

\* Before any item, exactly the positions of the first class are marked: the
\* code's marker[0] = cc[0].
LEMMA MarkedZero ==
    ASSUME NEW list, NEW mem, NEW p \in Nat
    PROVE  Marked(list, mem, 0, p) <=> mem[p] \in list[0].class
<1>1. ASSUME NEW cut \in [0..0 -> 0..p], Covers(list, mem, 0, p, cut)
      PROVE  cut[0] = p
  BY <1>1 DEF Covers
<1>2. ASSUME mem[p] \in list[0].class
      PROVE  Marked(list, mem, 0, p)
  <2> DEFINE cut == [j \in 0..0 |-> p]
  <2>1. cut \in [0..0 -> 0..p]
    OBVIOUS
  <2>2. mem[cut[0]] \in list[0].class
    BY <1>2
  <2>3. Covers(list, mem, 0, p, cut)
    BY DEF Covers
  <2> QED
    BY <2>1, <2>2, <2>3 DEF Marked
<1> QED
  BY <1>1, <1>2 DEF Marked

\* An item takes no negative number of bytes.
LEMMA SegmentOrder ==
    ASSUME NEW it \in Item, NEW mem, NEW s \in Nat, NEW e \in Nat, Segment(it, mem, s, e)
    PROVE  s <= e
  BY DEF Segment, Item

\* One more item: what is marked after k+1 items is what item k reaches from
\* a position marked after k items.
LEMMA MarkedStep ==
    ASSUME NEW list, NEW mem, NEW k \in Nat, NEW p \in Nat, list[k] \in Item
    PROVE  Marked(list, mem, k + 1, p) <=>
               \E s \in 0..p : Marked(list, mem, k, s) /\ Segment(list[k], mem, s, p)
<1>1. ASSUME NEW cut \in [0..(k + 1) -> 0..p],
             mem[cut[0]] \in list[0].class,
             Covers(list, mem, k + 1, p, cut)
      PROVE  \E s \in 0..p : Marked(list, mem, k, s) /\ Segment(list[k], mem, s, p)
  <2> DEFINE s == cut[k]
             front == [j \in 0..k |-> cut[j]]
  <2>1. s \in 0..p
    OBVIOUS
  <2>2. Segment(list[k], mem, s, p)
    BY <1>1 DEF Covers
  <2>3. front \in [0..k -> 0..s]
    <3>1. \A j \in 0..k : cut[j] \in 0..p /\ cut[j] <= cut[k]
      BY <1>1 DEF Covers
    <3> QED
      BY <3>1, <2>1
  <2>4. mem[front[0]] \in list[0].class
    BY <1>1
  <2>5. Covers(list, mem, k, s, front)
    <3>1. \A j \in 0..k : front[j] = cut[j]
      OBVIOUS
    <3>2. \A j \in 0..k : \A l \in j..k : front[j] <= front[l]
      BY <3>1, <1>1 DEF Covers
    <3>3. \A j \in 0..(k - 1) : Segment(list[j], mem, front[j], front[j + 1])
      BY <3>1, <1>1 DEF Covers
    <3>4. front[k] = s
      BY <3>1
    <3> HIDE DEF front, s
    <3> QED
      BY <3>2, <3>3, <3>4 DEF Covers
  <2>6. Marked(list, mem, k, s)
    BY <2>3, <2>4, <2>5 DEF Marked
  <2> QED
    BY <2>1, <2>2, <2>6
<1>2. ASSUME NEW s \in 0..p,
             NEW front \in [0..k -> 0..s],
             mem[front[0]] \in list[0].class,
             Covers(list, mem, k, s, front),
             Segment(list[k], mem, s, p)
      PROVE  Marked(list, mem, k + 1, p)
  <2> DEFINE cut == [j \in 0..(k + 1) |-> IF j = k + 1 THEN p ELSE front[j]]
  <2>1. cut \in [0..(k + 1) -> 0..p]
    <3>1. \A j \in 0..k : front[j] \in 0..p
      OBVIOUS
    <3> QED
      BY <3>1
  <2>2. cut[k + 1] = p /\ cut[k] = s /\ \A j \in 0..k : cut[j] = front[j]
    BY <1>2 DEF Covers
  <2>3. mem[cut[0]] \in list[0].class
    BY <1>2, <2>2
  <2>4. \A j \in 0..(k + 1) : \A l \in j..(k + 1) : cut[j] <= cut[l]
    <3> SUFFICES ASSUME NEW j \in 0..(k + 1), NEW l \in j..(k + 1)
                 PROVE  cut[j] <= cut[l]
      OBVIOUS
    <3>1. CASE l = k + 1
      BY <3>1, <2>1, <2>2
    <3>2. CASE l # k + 1
      <4>1. j \in 0..k /\ l \in j..k
        BY <3>2
      <4>2. front[j] <= front[l]
        BY <4>1, <1>2 DEF Covers
      <4> QED
        BY <4>1, <4>2, <2>2
    <3> QED
      BY <3>1, <3>2
  <2>5. \A j \in 0..k : Segment(list[j], mem, cut[j], cut[j + 1])
    <3> SUFFICES ASSUME NEW j \in 0..k
                 PROVE  Segment(list[j], mem, cut[j], cut[j + 1])
      OBVIOUS
    <3>1. CASE j = k
      BY <3>1, <1>2, <2>2
    <3>2. CASE j # k
      <4>1. j \in 0..(k - 1) /\ j + 1 \in 0..k
        BY <3>2
      <4>2. Segment(list[j], mem, front[j], front[j + 1])
        BY <4>1, <1>2 DEF Covers
      <4> QED
        BY <4>1, <4>2, <2>2
    <3> QED
      BY <3>1, <3>2
  <2> HIDE DEF cut
  <2>6. Covers(list, mem, k + 1, p, cut)
    BY <2>2, <2>4, <2>5 DEF Covers
  <2> QED
    BY <2>1, <2>3, <2>6 DEF Marked
<1> QED
  BY <1>1, <1>2 DEF Marked

\* A starred item keeps every position it is given, and reaches further ones
\* from the positions before them.
LEMMA MarkedStar ==
    ASSUME NEW list, NEW mem, NEW k \in Nat, NEW p \in Nat,
           list[k] \in Item, list[k].star
    PROVE  Marked(list, mem, k + 1, p) <=>
               Marked(list, mem, k, p) \/ Pending(list, mem, k, p)
<1>1. Segment(list[k], mem, p, p)
  BY DEF Segment
<1>2. \A s \in 0..p : s = p \/ s \in 0..(p - 1)
  OBVIOUS
<1> QED
  BY <1>1, <1>2, MarkedStep DEF Pending

\* A plain item moves every position of its class on by one.
LEMMA MarkedAdvance ==
    ASSUME NEW list, NEW mem, NEW k \in Nat, NEW p \in Nat,
           list[k] \in Item, ~ list[k].star
    PROVE  Marked(list, mem, k + 1, p) <=> Pending(list, mem, k, p)
<1>1. ~ Segment(list[k], mem, p, p)
  BY DEF Segment
<1>2. \A s \in 0..p : s = p \/ s \in 0..(p - 1)
  OBVIOUS
<1> QED
  BY <1>1, <1>2, MarkedStep DEF Pending

\* What a plain item hands to position p: position p - 1, if it is marked and
\* in the class.
LEMMA PendingAdvance ==
    ASSUME NEW list, NEW mem, NEW k \in Nat, NEW p \in Nat, ~ list[k].star
    PROVE  Pending(list, mem, k, p) <=>
               p > 0 /\ Marked(list, mem, k, p - 1) /\ mem[p - 1] \in list[k].class
  BY DEF Pending, Segment

\* What a starred item hands to position p: a marked position before it with
\* only bytes of the class between.  It splits at any boundary b.
LEMMA PendingStar ==
    ASSUME NEW list, NEW mem, NEW k \in Nat, NEW b \in Nat, NEW p \in Nat, b <= p,
           list[k].star
    PROVE  Pending(list, mem, k, p) <=>
               \/ \E s \in b..(p - 1) :
                      Marked(list, mem, k, s) /\ \A q \in s..(p - 1) : mem[q] \in list[k].class
               \/ /\ Pending(list, mem, k, b)
                  /\ \A q \in b..(p - 1) : mem[q] \in list[k].class
<1> DEFINE In(q) == mem[q] \in list[k].class
<1>1. ASSUME NEW s \in 0..(b - 1)
      PROVE  (\A q \in s..(p - 1) : In(q)) <=>
                 (\A q \in s..(b - 1) : In(q)) /\ (\A q \in b..(p - 1) : In(q))
  <2> HIDE DEF In
  <2>1. \A q \in Int : q \in s..(p - 1) <=> q \in s..(b - 1) \/ q \in b..(p - 1)
    BY <1>1
  <2> QED
    BY <2>1
<1>2. \A s \in Int : s \in 0..(p - 1) <=> s \in 0..(b - 1) \/ s \in b..(p - 1)
  OBVIOUS
<1>3. \A s \in 0..(p - 1) : Segment(list[k], mem, s, p) <=> \A q \in s..(p - 1) : In(q)
  BY DEF Segment
<1>4. \A s \in 0..(b - 1) : Segment(list[k], mem, s, b) <=> \A q \in s..(b - 1) : In(q)
  BY DEF Segment
<1> HIDE DEF In
<1>5. Pending(list, mem, k, b) <=>
          \E s \in 0..(b - 1) : Marked(list, mem, k, s) /\ \A q \in s..(b - 1) : In(q)
  BY <1>4 DEF Pending
<1>6. Pending(list, mem, k, p) <=>
          \E s \in 0..(p - 1) : Marked(list, mem, k, s) /\ \A q \in s..(p - 1) : In(q)
  BY <1>3 DEF Pending
<1>7. Pending(list, mem, k, p) <=>
          \/ \E s \in b..(p - 1) : Marked(list, mem, k, s) /\ \A q \in s..(p - 1) : In(q)
          \/ /\ Pending(list, mem, k, b)
             /\ \A q \in b..(p - 1) : In(q)
  BY <1>1, <1>2, <1>5, <1>6
<1> QED
  BY <1>7 DEF In

\* With a plain first item a match begins with a byte of the first class, so
\* the scanners mark all of them.
LEMMA PlainFirstItem ==
    ASSUME NEW list, NEW bytes, NEW k \in Nat, k > 0, ~ list[0].star, NEW p
    PROVE  Marked(list, bytes, k, p) <=> MatchEnd(list, bytes, k, p)
<1>1. ASSUME NEW cut, Covers(list, bytes, k, p, cut)
      PROVE  bytes[cut[0]] \in list[0].class
  <2>1. Segment(list[0], bytes, cut[0], cut[0 + 1])
    BY <1>1 DEF Covers
  <2> QED
    BY <2>1 DEF Segment
<1> QED
  BY <1>1 DEF Marked, MatchEnd
================================================================================
