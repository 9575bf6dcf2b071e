----------------------------- MODULE ParabixProofs -----------------------------
(***************************************************************************)
(* Both scanners keep their words meaningful and count exactly, for every  *)
(* block size, pattern, input and memory: parabix_cpp, which interprets    *)
(* the items, and the function that the compiled scanner runs.             *)
(***************************************************************************)
EXTENDS ParabixCpp, ParabixLlvm, StreamProofs

(***************************************************************************)
(* What the operation of one item makes of one block, whatever the bytes:  *)
(* the step from machine arithmetic to matching.                           *)
(***************************************************************************)

\* The bits MatchStar leaves in a block: every marker stays, and every position
\* that a carry reaches is added.
LEMMA StarBits ==
    ASSUME NEW CC \in SUBSET Payload, NEW M \in SUBSET Payload, NEW c \in BOOLEAN,
           NEW p \in Bit
    PROVE  p \in SymDiff(Plus(M \cap CC, CC, c), CC) \cup M <=>
               p \in M \/ CarryInto(M \cap CC, CC, c, p)
<1> DEFINE into == CarryInto(M \cap CC, CC, c, p)
           sum == Plus(M \cap CC, CC, c)
<1>1. p \in sum <=> ((p \in M \cap CC) # (p \in CC)) # into
  BY DEF Plus
<1>2. into \in BOOLEAN
  BY DEF CarryInto
<1> HIDE DEF into, sum
<1> QED
  BY <1>1, <1>2, StarXor DEF into, sum

\* The two scanners take the carry at different moments, before and after the
\* XOR and the OR, and clear the spare bit at different moments.  As long as
\* no operand has its spare bit set, they do the same.
LEMMA CppStarIsBuildMatchStar ==
    ASSUME NEW CC \in SUBSET Payload, NEW M \in SUBSET Payload, NEW c \in BOOLEAN
    PROVE  LET sum == Plus(M \cap CC, CC, c)
               built == BuildMatchStar(CC, M, c)
           IN  /\ LastBit(sum) = built.carry
               /\ SymDiff(ClearLast(sum), CC) \cup M = built.marker
<1> DEFINE sum == Plus(M \cap CC, CC, c)
<1>1. SpareBit \notin CC /\ SpareBit \notin M
  BY BlockSizeAssumption DEF SpareBit, Payload
<1> HIDE DEF sum
<1>2. LastBit(sum) <=> LastBit(SymDiff(sum, CC) \cup M)
  BY <1>1 DEF LastBit, SymDiff
<1>3. SymDiff(ClearLast(sum), CC) \cup M = ClearLast(SymDiff(sum, CC) \cup M)
  BY <1>1 DEF ClearLast, SymDiff
<1>4. LastBit(sum) \in BOOLEAN /\ LastBit(SymDiff(sum, CC) \cup M) \in BOOLEAN
  BY DEF LastBit
<1> QED
  BY <1>2, <1>3, <1>4 DEF BuildMatchStar, Split, sum

\* What one item makes of a block.  CC and M describe the block at offset
\* base: the bytes of the item's class, and the positions marked before it; c
\* says whether the item is still matching at base.  Then the words it leaves
\* describe the positions marked after it, and whether it is still matching
\* at the start of the next block.
Describes(list, bytes, k, base, CC, M, c) ==
    /\ k \in Nat /\ base \in Nat /\ list[k] \in Item
    /\ CC \in SUBSET Payload /\ M \in SUBSET Payload /\ c \in BOOLEAN
    /\ \A p \in Payload : p \in CC <=> bytes[base + p] \in list[k].class
    /\ \A p \in Payload : p \in M <=> Marked(list, bytes, k, base + p)
    /\ c <=> Pending(list, bytes, k, base)

\* The carry chain of MatchStar is the reach of a starred item.
LEMMA StarCarryIsPending ==
    ASSUME NEW list, NEW bytes, NEW k, NEW base, NEW CC, NEW M, NEW c,
           Describes(list, bytes, k, base, CC, M, c), list[k].star,
           NEW p \in Bit
    PROVE  CarryInto(M \cap CC, CC, c, p) <=> Pending(list, bytes, k, base + p)
<1>0. /\ k \in Nat /\ base \in Nat /\ list[k] \in Item
      /\ CC \in SUBSET Payload /\ M \in SUBSET Payload /\ c \in BOOLEAN
  BY DEF Describes
<1> USE <1>0
<1> DEFINE In(q) == bytes[q] \in list[k].class
           Mk(q) == Marked(list, bytes, k, q)
<1>1. p \in Nat /\ base + p \in Nat /\ base <= base + p
  BY BlockSizeAssumption DEF Bit
<1>2. Pending(list, bytes, k, base + p) <=>
          \/ \E s \in base..(base + p - 1) : Mk(s) /\ \A q \in s..(base + p - 1) : In(q)
          \/ c /\ \A q \in base..(base + p - 1) : In(q)
  <2> SUFFICES ASSUME NEW e \in Nat, base <= e
               PROVE  Pending(list, bytes, k, e) <=>
                          \/ \E s \in base..(e - 1) : Mk(s) /\ \A q \in s..(e - 1) : In(q)
                          \/ c /\ \A q \in base..(e - 1) : In(q)
    BY <1>1
  <2>1. Pending(list, bytes, k, e) <=>
            \/ \E s \in base..(e - 1) : Mk(s) /\ \A q \in s..(e - 1) : In(q)
            \/ Pending(list, bytes, k, base) /\ \A q \in base..(e - 1) : In(q)
    BY PendingStar
  <2>2. c <=> Pending(list, bytes, k, base)
    BY DEF Describes
  <2> HIDE DEF In, Mk
  <2> QED
    BY <2>1, <2>2
<1>3. \A q \in 0..(p - 1) : (q \in CC <=> In(base + q)) /\ (q \in M <=> Mk(base + q))
  BY BlockSizeAssumption DEF Describes, Bit, Payload
<1> HIDE DEF In, Mk
<1>4. \A s \in 0..(p - 1) :
          (\A q \in s..(p - 1) : q \in CC) <=> \A q \in (base + s)..(base + p - 1) : In(q)
  <2> SUFFICES ASSUME NEW s \in 0..(p - 1)
               PROVE  (\A q \in s..(p - 1) : q \in CC) <=>
                          \A q \in (base + s)..(base + p - 1) : In(q)
    OBVIOUS
  <2>1. ASSUME \A q \in s..(p - 1) : q \in CC,
               NEW q \in (base + s)..(base + p - 1)
        PROVE  In(q)
    <3>1. q - base \in s..(p - 1) /\ q - base \in 0..(p - 1) /\ base + (q - base) = q
      BY <1>1
    <3> QED
      BY <3>1, <2>1, <1>3
  <2>2. ASSUME \A q \in (base + s)..(base + p - 1) : In(q),
               NEW q \in s..(p - 1)
        PROVE  q \in CC
    <3>1. base + q \in (base + s)..(base + p - 1) /\ q \in 0..(p - 1)
      BY <1>1
    <3> QED
      BY <3>1, <2>2, <1>3
  <2> QED
    BY <2>1, <2>2
<1>5. (\A q \in 0..(p - 1) : q \in CC) <=> \A q \in base..(base + p - 1) : In(q)
  <2>1. ASSUME \A q \in 0..(p - 1) : q \in CC,
               NEW q \in base..(base + p - 1)
        PROVE  In(q)
    <3>1. q - base \in 0..(p - 1) /\ base + (q - base) = q
      BY <1>1
    <3> QED
      BY <3>1, <2>1, <1>3
  <2>2. ASSUME \A q \in base..(base + p - 1) : In(q),
               NEW q \in 0..(p - 1)
        PROVE  q \in CC
    <3>1. base + q \in base..(base + p - 1)
      BY <1>1
    <3> QED
      BY <3>1, <2>2, <1>3
  <2> QED
    BY <2>1, <2>2
<1>6. (\E s \in 0..(p - 1) : s \in M /\ \A q \in s..(p - 1) : q \in CC) <=>
          \E s \in base..(base + p - 1) : Mk(s) /\ \A q \in s..(base + p - 1) : In(q)
  <2>1. ASSUME NEW s \in 0..(p - 1), s \in M, \A q \in s..(p - 1) : q \in CC
        PROVE  \E t \in base..(base + p - 1) : Mk(t) /\ \A q \in t..(base + p - 1) : In(q)
    <3>1. base + s \in base..(base + p - 1)
      BY <1>1
    <3>2. Mk(base + s) /\ \A q \in (base + s)..(base + p - 1) : In(q)
      BY <2>1, <1>3, <1>4
    <3> QED
      BY <3>1, <3>2
  <2>2. ASSUME NEW t \in base..(base + p - 1), Mk(t), \A q \in t..(base + p - 1) : In(q)
        PROVE  \E s \in 0..(p - 1) : s \in M /\ \A q \in s..(p - 1) : q \in CC
    <3> DEFINE s == t - base
    <3>1. s \in 0..(p - 1) /\ base + s = t
      BY <1>1
    <3> HIDE DEF s
    <3>2. s \in M /\ \A q \in s..(p - 1) : q \in CC
      BY <3>1, <2>2, <1>3, <1>4
    <3> QED
      BY <3>1, <3>2
  <2> QED
    BY <2>1, <2>2
<1> QED
  BY <1>1, <1>2, <1>5, <1>6, StarCarry

\* MatchStar on a block.
LEMMA BuildMatchStarMeaning ==
    ASSUME NEW list, NEW bytes, NEW k, NEW base, NEW CC, NEW M, NEW c,
           Describes(list, bytes, k, base, CC, M, c), list[k].star
    PROVE  LET next == BuildMatchStar(CC, M, c)
           IN  /\ next.marker \in SUBSET Payload
               /\ next.carry \in BOOLEAN
               /\ \A p \in Payload : p \in next.marker <=> Marked(list, bytes, k + 1, base + p)
               /\ next.carry <=> Pending(list, bytes, k, base + BlockSize)
<1>0. /\ k \in Nat /\ base \in Nat /\ list[k] \in Item
      /\ CC \in SUBSET Payload /\ M \in SUBSET Payload /\ c \in BOOLEAN
  BY DEF Describes
<1> USE <1>0
<1> DEFINE sum == Plus(M \cap CC, CC, c)
           bits == SymDiff(sum, CC) \cup M
<1>1. \A p \in Bit : p \in bits <=> p \in M \/ Pending(list, bytes, k, base + p)
  <2> SUFFICES ASSUME NEW p \in Bit
               PROVE  p \in bits <=> p \in M \/ Pending(list, bytes, k, base + p)
    OBVIOUS
  <2>1. p \in bits <=> p \in M \/ CarryInto(M \cap CC, CC, c, p)
    BY StarBits
  <2>2. CarryInto(M \cap CC, CC, c, p) <=> Pending(list, bytes, k, base + p)
    BY StarCarryIsPending
  <2> QED
    BY <2>1, <2>2
<1>2. bits \subseteq Bit
  <2>1. sum \subseteq Bit
    BY DEF Plus
  <2>2. CC \subseteq Bit /\ M \subseteq Bit
    BY BlockSizeAssumption DEF Bit, Payload
  <2> HIDE DEF sum
  <2> QED
    BY <2>1, <2>2 DEF SymDiff
<1>3. Payload \subseteq Bit /\ SpareBit \in Bit /\ SpareBit \notin Payload
      /\ Bit \ {SpareBit} = Payload /\ SpareBit = BlockSize
  BY BlockSizeAssumption DEF Bit, Payload, SpareBit
<1>4. BuildMatchStar(CC, M, c) = [marker |-> ClearLast(bits), carry |-> LastBit(bits)]
  BY DEF BuildMatchStar, Split
<1> HIDE DEF bits
<1>5. ClearLast(bits) \in SUBSET Payload
  BY <1>2, <1>3 DEF ClearLast
<1>6. \A p \in Payload : p \in ClearLast(bits) <=> Marked(list, bytes, k + 1, base + p)
  <2> SUFFICES ASSUME NEW p \in Payload
               PROVE  p \in ClearLast(bits) <=> Marked(list, bytes, k + 1, base + p)
    OBVIOUS
  <2>1. p \in Nat /\ base + p \in Nat
    BY DEF Payload
  <2>2. Marked(list, bytes, k + 1, base + p) <=>
            Marked(list, bytes, k, base + p) \/ Pending(list, bytes, k, base + p)
    BY <2>1, MarkedStar
  <2>3. p \in ClearLast(bits) <=> p \in bits
    BY <1>3 DEF ClearLast
  <2> QED
    BY <2>2, <2>3, <1>1, <1>3 DEF Describes
<1>7. LastBit(bits) <=> Pending(list, bytes, k, base + BlockSize)
  BY <1>1, <1>3 DEF LastBit
<1>8. LastBit(bits) \in BOOLEAN
  BY DEF LastBit
<1> QED
  BY <1>4, <1>5, <1>6, <1>7, <1>8

\* Advance on a block.
LEMMA BuildAdvanceMeaning ==
    ASSUME NEW list, NEW bytes, NEW k, NEW base, NEW CC, NEW M, NEW c,
           Describes(list, bytes, k, base, CC, M, c), ~ list[k].star
    PROVE  LET next == BuildAdvance(CC, M, c)
           IN  /\ next.marker \in SUBSET Payload
               /\ next.carry \in BOOLEAN
               /\ \A p \in Payload : p \in next.marker <=> Marked(list, bytes, k + 1, base + p)
               /\ next.carry <=> Pending(list, bytes, k, base + BlockSize)
<1>0. /\ k \in Nat /\ base \in Nat /\ list[k] \in Item
      /\ CC \in SUBSET Payload /\ M \in SUBSET Payload /\ c \in BOOLEAN
  BY DEF Describes
<1> USE <1>0
<1> DEFINE bits == ShiftLeftOne(M \cap CC) \cup CarryWord(c)
<1>1. \A p \in Bit : p \in bits <=> Pending(list, bytes, k, base + p)
  <2> SUFFICES ASSUME NEW p \in Bit
               PROVE  p \in bits <=> Pending(list, bytes, k, base + p)
    OBVIOUS
  <2>1. p \in Nat /\ base + p \in Nat
    BY BlockSizeAssumption DEF Bit
  <2>2. CASE p = 0
    <3>1. p \in bits <=> c
      BY <2>2 DEF ShiftLeftOne, CarryWord
    <3> QED
      BY <3>1, <2>2 DEF Describes
  <2>3. CASE p # 0
    <3>1. p - 1 \in Payload /\ p \in 1..BlockSize /\ base + p - 1 = base + (p - 1) /\ base + p > 0
      BY <2>3, <2>1, BlockSizeAssumption DEF Bit, Payload
    <3>2. p \in bits <=> p - 1 \in M /\ p - 1 \in CC
      BY <2>3, <3>1 DEF ShiftLeftOne, CarryWord
    <3>3. Pending(list, bytes, k, base + p) <=>
              Marked(list, bytes, k, base + (p - 1)) /\ bytes[base + (p - 1)] \in list[k].class
      <4> DEFINE e == base + p
      <4>1. e \in Nat /\ e > 0 /\ e - 1 = base + (p - 1)
        BY <3>1, <2>1
      <4> HIDE DEF e
      <4>2. Pending(list, bytes, k, e) <=>
                e > 0 /\ Marked(list, bytes, k, e - 1) /\ bytes[e - 1] \in list[k].class
        BY <4>1, PendingAdvance
      <4> QED
        BY <4>1, <4>2 DEF e
    <3> QED
      BY <3>1, <3>2, <3>3 DEF Describes
  <2> QED
    BY <2>2, <2>3
<1>2. bits \subseteq Bit
  BY BlockSizeAssumption DEF ShiftLeftOne, CarryWord, Bit
<1>3. Payload \subseteq Bit /\ SpareBit \in Bit /\ SpareBit \notin Payload
      /\ Bit \ {SpareBit} = Payload /\ SpareBit = BlockSize
  BY BlockSizeAssumption DEF Bit, Payload, SpareBit
<1>4. BuildAdvance(CC, M, c) = [marker |-> ClearLast(bits), carry |-> LastBit(bits)]
  BY DEF BuildAdvance, Split
<1> HIDE DEF bits
<1>5. ClearLast(bits) \in SUBSET Payload
  BY <1>2, <1>3 DEF ClearLast
<1>6. \A p \in Payload : p \in ClearLast(bits) <=> Marked(list, bytes, k + 1, base + p)
  <2> SUFFICES ASSUME NEW p \in Payload
               PROVE  p \in ClearLast(bits) <=> Marked(list, bytes, k + 1, base + p)
    OBVIOUS
  <2>1. base + p \in Nat
    BY DEF Payload
  <2>2. Marked(list, bytes, k + 1, base + p) <=> Pending(list, bytes, k, base + p)
    BY <2>1, MarkedAdvance
  <2>3. p \in ClearLast(bits) <=> p \in bits
    BY <1>3 DEF ClearLast
  <2> QED
    BY <2>2, <2>3, <1>1, <1>3
<1>7. LastBit(bits) <=> Pending(list, bytes, k, base + BlockSize)
  BY <1>1, <1>3 DEF LastBit
<1>8. LastBit(bits) \in BOOLEAN
  BY DEF LastBit
<1> QED
  BY <1>4, <1>5, <1>6, <1>7, <1>8

\* The population count of a block's last marker word is the number of marked
\* ends in the block.
LEMMA BlockEnds ==
    ASSUME NEW list, NEW size \in Nat, NEW bytes, NEW base \in Nat,
           NEW M \in SUBSET Payload,
           \A p \in Payload : p \in M <=> size > 0 /\ Marked(list, bytes, size, base + p)
    PROVE  Cardinality(MarkedEnds(list, size, bytes, base, base + BlockSize - 1)) = Cardinality(M)
<1> DEFINE ends == MarkedEnds(list, size, bytes, base, base + BlockSize - 1)
           shift == [p \in M |-> base + p]
<1>1. IsFiniteSet(M)
  <2>1. IsFiniteSet(Payload)
    BY FS_Interval, BlockSizeAssumption DEF Payload
  <2> QED
    BY <2>1, FS_Subset
<1>2. shift \in [M -> ends]
  BY BlockSizeAssumption DEF Payload, MarkedEnds
<1>3. \A p, q \in M : shift[p] = shift[q] => p = q
  BY DEF Payload
<1>4. \A e \in ends : \E p \in M : shift[p] = e
  <2> SUFFICES ASSUME NEW e \in ends
               PROVE  \E p \in M : shift[p] = e
    OBVIOUS
  <2>1. e \in Int /\ e - base \in Payload /\ base + (e - base) = e
    BY BlockSizeAssumption DEF Payload, MarkedEnds
  <2>2. e - base \in M
    BY <2>1 DEF MarkedEnds
  <2> QED
    BY <2>1, <2>2
<1> HIDE DEF ends, shift
<1>5. shift \in Bijection(M, ends)
  BY <1>2, <1>3, <1>4 DEF Bijection, Injection, IsInjective, Surjection
<1> QED
  BY <1>1, <1>5, FS_Bijection DEF ExistsBijection, ends

\* The marked ends of the first blocks and of one more block are counted
\* separately.
LEMMA CountSplit ==
    ASSUME NEW list, NEW size \in Nat, NEW bytes, NEW lo \in Nat, NEW hi \in Nat, lo <= hi
    PROVE  Cardinality(MarkedEnds(list, size, bytes, 0, hi - 1)) =
               Cardinality(MarkedEnds(list, size, bytes, 0, lo - 1)) +
               Cardinality(MarkedEnds(list, size, bytes, lo, hi - 1))
<1> DEFINE below == MarkedEnds(list, size, bytes, 0, lo - 1)
           above == MarkedEnds(list, size, bytes, lo, hi - 1)
           all == MarkedEnds(list, size, bytes, 0, hi - 1)
<1>1. IsFiniteSet(below) /\ IsFiniteSet(above)
  <2>1. below \in SUBSET (0..(lo - 1)) /\ above \in SUBSET (lo..(hi - 1))
    BY DEF MarkedEnds
  <2> HIDE DEF below, above
  <2>2. IsFiniteSet(0..(lo - 1)) /\ IsFiniteSet(lo..(hi - 1))
    BY FS_Interval
  <2> QED
    BY <2>1, <2>2, FS_Subset
<1>2. all = below \cup above
  BY DEF MarkedEnds
<1>3. below \cap above = {}
  BY DEF MarkedEnds
<1> HIDE DEF below, above, all
<1>4. Cardinality(below \cup above) =
          Cardinality(below) + Cardinality(above) - Cardinality(below \cap above)
  BY <1>1, FS_Union
<1>5. Cardinality(below) \in Nat /\ Cardinality(above) \in Nat
  BY <1>1, FS_CardinalityType
<1>6. Cardinality(below \cap above) = 0
  BY <1>3, FS_EmptySet
<1>7. Cardinality(all) = Cardinality(below) + Cardinality(above)
  BY <1>2, <1>4, <1>5, <1>6
<1> QED
  BY <1>7 DEF below, above, all

(***************************************************************************)
(* A call, step by step.                                                   *)
(***************************************************************************)

\* What the words mean, between any two steps of a call.  Each part needs the
\* others: CountExact says nothing of the block being processed,
\* MarkersAreMatches nothing of the next one, and only the carries link them.
ScanInv ==
    /\ TypeOK
    /\ SpareBitClear
    /\ CarryIsPending
    /\ MarkersAreMatches
    /\ CountExact

\* No bit of a class word is set but those of the bytes in the class: in
\* particular the spare position, masked to '\0', is in no class.
LEMMA ExecuteBits ==
    ASSUME NEW class \in Class, NEW base \in Nat
    PROVE  /\ Execute(Basis(base), class) \in SUBSET Payload
           /\ \A p \in Payload :
                  p \in Execute(Basis(base), class) <=> mem[base + p] \in class
<1>1. Nul \notin class
  BY ClassAssumption
<1>2. Bit \ {SpareBit} = Payload /\ SpareBit \notin Payload
  BY BlockSizeAssumption DEF Bit, SpareBit, Payload
<1> QED
  BY <1>1, <1>2 DEF Execute, Basis

\* A call starts with empty words and no match.
LEMMA InitScan ==
    ASSUME Init, pc \in {"compile", "block"}
    PROVE  ScanInv
<1> USE DEF Init
<1>1. cc_size \in Nat
  BY BoundsAssumption DEF Arguments
<1>2. TypeOK
  BY <1>1 DEF TypeOK, Word
<1>3. SpareBitClear
  BY <1>1 DEF SpareBitClear, LastBit
<1>4. MarkersAreMatches
  BY DEF MarkersAreMatches
<1>5. CarryIsPending
  <2>1. \A k \in 0..(cc_size - 1) : ~ Pending(cc_list, mem, k, 0)
    BY DEF Pending
  <2> QED
    BY <1>1, <2>1 DEF CarryIsPending, CarryBoundary
<1>6. CountExact
  <2>1. MarkedEnds(cc_list, cc_size, mem, 0, 0 - 1) = {}
    BY DEF MarkedEnds
  <2> QED
    BY <2>1, FS_EmptySet DEF CountExact
<1> QED
  BY <1>2, <1>3, <1>4, <1>5, <1>6 DEF ScanInv

\* The operation of one item leaves words that describe the block one item
\* further.  N and C are the marker and the class word it ran on, which it
\* may have stored on the way (the first marker, when it is the first item).
LEMMA OperationScan ==
    ASSUME ScanInv, pc = "item", item < cc_size,
           NEW C \in SUBSET Payload, NEW N \in SUBSET Payload,
           NEW M \in SUBSET Payload, NEW c \in BOOLEAN,
           item = 0 \/ N = marker[item],
           \A p \in Payload : p \in M <=> Marked(cc_list, mem, item + 1, i + p),
           c <=> Pending(cc_list, mem, item, i + BlockSize),
           cc' = [cc EXCEPT ![item] = C],
           marker' = [marker EXCEPT ![item] = N, ![item + 1] = M],
           carry' = [carry EXCEPT ![item] = c],
           item' = item + 1,
           UNCHANGED <<arguments, i, matched, pc>>
    PROVE  ScanInv'
<1> USE DEF arguments
<1>1. /\ item \in Nat /\ cc_size \in Nat /\ i \in Nat
      /\ item \in 0..(cc_size - 1) /\ item + 1 \in 0..cc_size /\ item \in 0..cc_size
  BY BoundsAssumption DEF ScanInv, TypeOK, Arguments
<1>2. Payload \subseteq Bit /\ SpareBit \notin Payload
  BY BlockSizeAssumption DEF Bit, SpareBit, Payload
<1>3. TypeOK'
  <2>1. /\ cc' \in [0..(cc_size - 1) -> Word]
        /\ marker' \in [0..cc_size -> Word]
        /\ carry' \in [0..(cc_size - 1) -> BOOLEAN]
    BY <1>1, <1>2 DEF ScanInv, TypeOK, Word
  <2> QED
    BY <1>1, <2>1 DEF ScanInv, TypeOK, Arguments
<1>4. SpareBitClear'
  BY <1>1, <1>2 DEF ScanInv, TypeOK, SpareBitClear, LastBit
<1>5. CarryIsPending'
  <2> SUFFICES ASSUME NEW k \in 0..(cc_size - 1)
               PROVE  carry'[k] <=> Pending(cc_list, mem, k, CarryBoundary(k)')
    BY DEF CarryIsPending
  <2>1. CASE k = item
    <3>1. carry'[k] = c /\ CarryBoundary(k)' = i + BlockSize
      BY <2>1, <1>1 DEF ScanInv, TypeOK, CarryBoundary
    <3> QED
      BY <3>1, <2>1
  <2>2. CASE k # item
    <3>1. carry'[k] = carry[k] /\ CarryBoundary(k)' = CarryBoundary(k)
      BY <2>2, <1>1 DEF ScanInv, TypeOK, CarryBoundary
    <3> QED
      BY <3>1 DEF ScanInv, CarryIsPending
  <2> QED
    BY <2>1, <2>2
<1>6. MarkersAreMatches'
  <2> SUFFICES ASSUME NEW k \in 1..(item + 1), NEW p \in Payload
               PROVE  p \in marker'[k] <=> Marked(cc_list, mem, k, i + p)
    BY DEF MarkersAreMatches
  <2>1. CASE k = item + 1
    <3>1. marker'[k] = M
      BY <2>1, <1>1 DEF ScanInv, TypeOK
    <3> QED
      BY <3>1, <2>1
  <2>2. CASE k # item + 1
    <3>1. k \in 1..item /\ k \in 0..cc_size /\ marker'[k] = marker[k]
      BY <2>2, <1>1 DEF ScanInv, TypeOK
    <3> QED
      BY <3>1 DEF ScanInv, MarkersAreMatches
  <2> QED
    BY <2>1, <2>2
<1>7. CountExact'
  BY DEF ScanInv, CountExact
<1> QED
  BY <1>3, <1>4, <1>5, <1>6, <1>7 DEF ScanInv

\* At the end of a block, the bits of the last marker word are the marked
\* ends in the block.  Without any item, nothing may be marked.
LEMMA BlockMatches ==
    ASSUME ScanInv, CountBlock, cc_size = 0 => marker[0] = {}
    PROVE  /\ Cardinality(marker[cc_size]) \in Nat
           /\ Cardinality(marker[cc_size]) =
                  Cardinality(MarkedEnds(cc_list, cc_size, mem, i, i + BlockSize - 1))
<1>1. cc_size \in Nat /\ i \in Nat /\ pc = "item" /\ item = cc_size
  BY BoundsAssumption DEF ScanInv, TypeOK, Arguments, CountBlock
<1>2. marker[cc_size] \in SUBSET Payload
  <2>1. Bit \ {SpareBit} = Payload
    BY BlockSizeAssumption DEF Bit, SpareBit, Payload
  <2>2. cc_size \in 0..cc_size
    BY <1>1
  <2> QED
    BY <2>1, <2>2 DEF ScanInv, TypeOK, SpareBitClear, LastBit, Word
<1>3. \A p \in Payload :
          p \in marker[cc_size] <=> cc_size > 0 /\ Marked(cc_list, mem, cc_size, i + p)
  <2>1. CASE cc_size = 0
    BY <2>1
  <2>2. CASE cc_size # 0
    <3>1. cc_size \in 1..item /\ cc_size > 0
      BY <1>1, <2>2
    <3> QED
      BY <1>1, <3>1 DEF ScanInv, MarkersAreMatches
  <2> QED
    BY <2>1, <2>2
<1>4. IsFiniteSet(Payload)
  BY FS_Interval, BlockSizeAssumption DEF Payload
<1>5. Cardinality(marker[cc_size]) \in Nat
  BY <1>2, <1>4, FS_Subset, FS_CardinalityType
<1> QED
  BY <1>1, <1>2, <1>3, <1>5, BlockEnds

\* Counting a block keeps the count exact, and the carries become those of
\* the next block.
LEMMA CountBlockScan ==
    ASSUME ScanInv, CountBlock, cc_size = 0 => marker[0] = {}
    PROVE  ScanInv'
<1> USE DEF CountBlock, arguments, words
<1>1. cc_size \in Nat /\ i \in Nat /\ matched \in Nat /\ i' \in Nat
  BY BoundsAssumption, BlockSizeAssumption DEF ScanInv, TypeOK, Arguments
<1>2. TypeOK'
  BY <1>1, BlockMatches DEF ScanInv, TypeOK, Arguments
<1>3. SpareBitClear'
  BY DEF ScanInv, SpareBitClear
<1>4. MarkersAreMatches'
  BY DEF MarkersAreMatches
<1>5. CarryIsPending'
  BY <1>1 DEF ScanInv, TypeOK, CarryIsPending, CarryBoundary
<1>6. CountExact'
  <2>1. i' = i + BlockSize /\ i <= i'
    BY <1>1, BlockSizeAssumption
  <2>2. Cardinality(MarkedEnds(cc_list, cc_size, mem, 0, i' - 1)) =
            Cardinality(MarkedEnds(cc_list, cc_size, mem, 0, i - 1)) +
            Cardinality(MarkedEnds(cc_list, cc_size, mem, i, i' - 1))
    <3>1. \A hi \in Nat : i <= hi =>
              Cardinality(MarkedEnds(cc_list, cc_size, mem, 0, hi - 1)) =
                  Cardinality(MarkedEnds(cc_list, cc_size, mem, 0, i - 1)) +
                  Cardinality(MarkedEnds(cc_list, cc_size, mem, i, hi - 1))
      BY <1>1, CountSplit
    <3> QED
      BY <1>1, <2>1, <3>1
  <2>3. matched = Cardinality(MarkedEnds(cc_list, cc_size, mem, 0, i - 1))
    BY DEF ScanInv, CountExact
  <2>4. matched' = matched + Cardinality(MarkedEnds(cc_list, cc_size, mem, i, i' - 1))
    <3>1. matched' = matched + Cardinality(marker[cc_size])
      OBVIOUS
    <3>2. Cardinality(marker[cc_size]) =
              Cardinality(MarkedEnds(cc_list, cc_size, mem, i, i + BlockSize - 1))
      BY BlockMatches
    <3>3. i + BlockSize - 1 = i' - 1
      BY <1>1, <2>1, BlockSizeAssumption
    <3> QED
      BY <3>1, <3>2, <3>3, Zenon
  <2> QED
    BY <2>2, <2>3, <2>4 DEF CountExact
<1> QED
  BY <1>2, <1>3, <1>4, <1>5, <1>6 DEF ScanInv

\* A step between blocks that leaves the words alone: a block begins or the
\* call ends, in whatever way.
LEMMA BetweenBlocksScan ==
    ASSUME ScanInv, pc # "item", pc' \in {"block", "done", "failed"},
           UNCHANGED <<arguments, i, item, words, matched>>
    PROVE  ScanInv'
<1> USE DEF arguments, words
<1>1. TypeOK' /\ SpareBitClear'
  BY DEF ScanInv, TypeOK, Arguments, SpareBitClear
<1>2. MarkersAreMatches'
  BY DEF MarkersAreMatches
<1>3. CarryIsPending'
  BY DEF ScanInv, CarryIsPending, CarryBoundary
<1>4. CountExact'
  BY DEF ScanInv, CountExact
<1> QED
  BY <1>1, <1>2, <1>3, <1>4 DEF ScanInv

LEMMA StutterScan == ScanInv /\ UNCHANGED vars => ScanInv'
  BY DEF vars, arguments, words, ScanInv, TypeOK, Arguments, SpareBitClear, LastBit,
         CarryIsPending, CarryBoundary, MarkersAreMatches, CountExact

(***************************************************************************)
(* The result of a call.                                                   *)
(***************************************************************************)

\* The offset of a block is a multiple of the block size and the last block
\* is the first one that reaches the end of the input.
BlockOffset ==
    /\ \E n \in 0..i : i = n * BlockSize
    /\ i < input_size + BlockSize
    /\ pc = "item" => i < input_size
    /\ pc = "done" => i >= input_size

\* A call begins with the first block.
LEMMA InitOffset == Init /\ pc \in {"compile", "block"} => BlockOffset
<1> SUFFICES ASSUME Init, pc \in {"compile", "block"} PROVE BlockOffset
  OBVIOUS
<1>1. input_size \in Nat /\ i = 0 /\ BlockSize \in Nat /\ BlockSize > 0
  BY BoundsAssumption, BlockSizeAssumption DEF Init, Arguments
<1>2. 0 \in 0..i /\ i = 0 * BlockSize
  BY <1>1
<1> QED
  BY <1>1, <1>2 DEF BlockOffset

\* Only the end of a block moves the offset; a block is entered below the end
\* of the input, and the loop is left at or after it.
LEMMA StepOffset ==
    ASSUME BlockOffset, TypeOK, UNCHANGED arguments,
           \/ CountBlock
           \/ i' = i /\ pc' = "item" /\ i < input_size
           \/ i' = i /\ pc' = "done" /\ i >= input_size
           \/ i' = i /\ pc' \in {"block", "failed"}
           \/ i' = i /\ pc' = pc
    PROVE  BlockOffset'
<1> USE DEF arguments
<1>1. input_size \in Nat /\ i \in Nat /\ BlockSize \in Nat /\ BlockSize > 0
  BY BoundsAssumption, BlockSizeAssumption DEF TypeOK, Arguments
<1>2. CASE CountBlock
  <2>1. i' = i + BlockSize /\ i < input_size /\ pc' = "block"
    BY <1>2 DEF CountBlock, BlockOffset
  <2>2. PICK n \in 0..i : i = n * BlockSize
    BY DEF BlockOffset
  <2>3. n + 1 \in 0..i' /\ i' = (n + 1) * BlockSize
    BY <1>1, <2>1, <2>2
  <2> QED
    BY <1>1, <2>1, <2>3 DEF BlockOffset
<1>3. CASE i' = i /\ (\/ pc' = "item" /\ i < input_size
                      \/ pc' = "done" /\ i >= input_size
                      \/ pc' \in {"block", "failed"}
                      \/ pc' = pc)
  BY <1>3 DEF BlockOffset
<1> QED
  BY <1>2, <1>3

\* What the scanners return.
LEMMA ResultExact ==
    ASSUME TypeOK, BlockOffset, CountExact, pc = "done", cc_size > 0, ~ cc_list[0].star
    PROVE  /\ input_size % BlockSize = 0 =>
                  matched = Cardinality(MatchEnds(cc_list, cc_size, mem, 0, input_size - 1))
           /\ input_size % BlockSize # 0 =>
                  matched >= Cardinality(MatchEnds(cc_list, cc_size, mem, 0, input_size))
<1>1. input_size \in Nat /\ i \in Nat /\ BlockSize \in Nat /\ cc_size \in Nat
  BY BoundsAssumption, BlockSizeAssumption DEF TypeOK, Arguments
<1>2. PICK n \in 0..i : i = n * BlockSize
  BY DEF BlockOffset
<1>3. /\ input_size % BlockSize = 0 => input_size = i
      /\ input_size % BlockSize # 0 => input_size < i
  <2>1. n \in Nat /\ input_size <= n * BlockSize /\ n * BlockSize < input_size + BlockSize
    BY <1>1, <1>2 DEF BlockOffset
  <2> QED
    BY <1>1, <1>2, <2>1, NextMultiple
<1>4. \A p : Marked(cc_list, mem, cc_size, p) <=> MatchEnd(cc_list, mem, cc_size, p)
  BY <1>1, PlainFirstItem
<1>5. MarkedEnds(cc_list, cc_size, mem, 0, i - 1) = MatchEnds(cc_list, cc_size, mem, 0, i - 1)
  BY <1>4 DEF MarkedEnds, MatchEnds
<1>6. ASSUME input_size < i
      PROVE  matched >= Cardinality(MatchEnds(cc_list, cc_size, mem, 0, input_size))
  <2> DEFINE counted == MatchEnds(cc_list, cc_size, mem, 0, i - 1)
             required == MatchEnds(cc_list, cc_size, mem, 0, input_size)
  <2>1. required \subseteq counted /\ counted \in SUBSET (0..(i - 1))
    BY <1>1, <1>6 DEF MatchEnds
  <2>2. matched = Cardinality(counted)
    BY <1>5 DEF CountExact
  <2> HIDE DEF counted, required
  <2>3. IsFiniteSet(counted)
    <3>1. IsFiniteSet(0..(i - 1))
      BY <1>1, FS_Interval
    <3> QED
      BY <2>1, <3>1, FS_Subset
  <2>4. Cardinality(required) <= Cardinality(counted)
    BY <2>1, <2>3, FS_Subset
  <2>5. Cardinality(required) \in Nat /\ Cardinality(counted) \in Nat
    BY <2>1, <2>3, FS_Subset, FS_CardinalityType
  <2> QED
    BY <2>2, <2>4, <2>5 DEF required
<1> QED
  BY <1>3, <1>5, <1>6 DEF CountExact

(***************************************************************************)
(* What the scanners promise (MatchCounter), step by step.                 *)
(***************************************************************************)

\* The reference counts what the model calls marked ends.
LEMMA CounterMarkedEnds ==
    ASSUME NEW list, NEW size, NEW bytes, NEW lo, NEW hi
    PROVE  Counter!MarkedEnds(list, size, bytes, lo, hi) = MarkedEnds(list, size, bytes, lo, hi)
  BY DEF Counter!MarkedEnds, Counter!Marked, Counter!Covers, Counter!Segment,
         MarkedEnds, Marked, Covers, Segment

\* ... and counts them alike.
LEMMA CounterCardinality == \A S : Counter!Cardinality(S) = Cardinality(S)
  BY DEF Cardinality, Counter!Cardinality, IsFiniteSet, Counter!IsFiniteSet

\* A call begins where the reference begins.
LEMMA CounterInit == Init /\ pc \in {"compile", "block"} => Counter!Init
  BY DEF Init, Arguments, Blocks, Item,
         Counter!Init, Counter!Arguments, Counter!Blocks, Counter!Item

\* The end of a block is the reference's one step over the block.
LEMMA CounterScanBlock ==
    ASSUME ScanInv, BlockOffset, CountBlock, cc_size = 0 => marker[0] = {}
    PROVE  Counter!ScanBlock
<1>1. pc = "item" /\ pc' = "block" /\ i < input_size
  BY DEF BlockOffset, CountBlock
<1>2. matched' = matched + Cardinality(MarkedEnds(cc_list, cc_size, mem, i, i + BlockSize - 1))
  <2>1. matched' = matched + Cardinality(marker[cc_size])
    BY DEF CountBlock
  <2>2. Cardinality(marker[cc_size]) =
            Cardinality(MarkedEnds(cc_list, cc_size, mem, i, i + BlockSize - 1))
    BY BlockMatches
  <2> QED
    BY <2>1, <2>2, Zenon
<1>3. matched' = matched +
          Counter!Cardinality(Counter!MarkedEnds(cc_list, cc_size, mem, i, i + BlockSize - 1))
  BY <1>2, CounterMarkedEnds, CounterCardinality
<1> QED
  BY <1>1, <1>3 DEF CountBlock, arguments, Counter!ScanBlock, Counter!arguments

\* The end of the loop is the reference's last step.
LEMMA CounterFinish == Return => Counter!Finish
  BY DEF Return, arguments, Counter!Finish, Counter!arguments

\* Every failure has a reason the reference allows.
LEMMA CounterFail ==
    ASSUME pc \notin {"done", "failed"}, pc' = "failed",
           UNCHANGED <<arguments, i, matched>>,
           i = 0 \/ cc_size = 0 \/ Overreads(i, input_size)
    PROVE  Counter!Fail
  BY DEF arguments, Overreads, Counter!Fail, Counter!arguments, Counter!Overreads

\* Inside a block the reference stands still.
LEMMA CounterStutter ==
    ASSUME UNCHANGED <<arguments, i, matched>>,
           pc' = pc \/ {pc, pc'} \cap {"done", "failed"} = {}
    PROVE  UNCHANGED Counter!vars
  BY DEF arguments, Counter!vars, Counter!arguments

(***************************************************************************)
(* parabix_cpp.                                                            *)
(***************************************************************************)

\* Inside a block, every class word holds the bytes of its class in it, and
\* the first marker word is the first class word.
BlockLoaded ==
    pc = "item" =>
        /\ cc_size > 0
        /\ \A k \in 0..(cc_size - 1) : \A p \in Payload :
               p \in cc[k] <=> mem[i + p] \in cc_list[k].class
        /\ marker[0] = cc[0]

\* The inductive invariant.
CppInv == ScanInv /\ BlockLoaded

LEMMA EnterBlockInvariant == CppInv /\ EnterBlock => CppInv'
<1> SUFFICES ASSUME CppInv, EnterBlock PROVE CppInv'
  OBVIOUS
<1> USE DEF EnterBlock, arguments, CppInv
<1>1. /\ cc_size \in Nat /\ cc_size > 0 /\ i \in Nat
      /\ \A k \in 0..(cc_size - 1) : cc_list[k] \in Item /\ cc_list[k].class \in Class
  BY BoundsAssumption DEF ScanInv, TypeOK, Arguments, Item
<1>2. \A k \in 0..(cc_size - 1) :
          /\ cc'[k] \in SUBSET Payload
          /\ \A p \in Payload : p \in cc'[k] <=> mem[i + p] \in cc_list[k].class
  BY <1>1, ExecuteBits
<1>3. Payload \subseteq Bit /\ SpareBit \notin Payload
  BY BlockSizeAssumption DEF Bit, SpareBit, Payload
<1>4. marker' = [marker EXCEPT ![0] = cc'[0]] /\ 0 \in 0..cc_size /\ 0 \in 0..(cc_size - 1)
  BY <1>1
<1>5. TypeOK'
  <2>1. cc' \in [0..(cc_size - 1) -> Word]
    BY <1>2, <1>3 DEF Word
  <2>2. marker' \in [0..cc_size -> Word]
    BY <1>4, <2>1 DEF ScanInv, TypeOK
  <2> QED
    BY <1>1, <2>1, <2>2 DEF ScanInv, TypeOK, Arguments
<1>6. SpareBitClear'
  BY <1>1, <1>2, <1>3, <1>4 DEF ScanInv, TypeOK, SpareBitClear, LastBit
<1>7. BlockLoaded'
  <2>1. marker'[0] = cc'[0]
    BY <1>4 DEF ScanInv, TypeOK
  <2> QED
    BY <1>1, <1>2, <2>1 DEF BlockLoaded
<1>8. CarryIsPending'
  BY DEF ScanInv, CarryIsPending, CarryBoundary
<1>9. MarkersAreMatches'
  BY DEF MarkersAreMatches
<1>10. CountExact'
  BY DEF ScanInv, CountExact
<1> QED
  BY <1>5, <1>6, <1>7, <1>8, <1>9, <1>10 DEF ScanInv

\* What an operation finds in its words.
LEMMA ItemReady ==
    ASSUME CppInv, pc = "item", item < cc_size
    PROVE  /\ item \in Nat /\ cc_size \in Nat /\ i \in Nat
           /\ item \in 0..(cc_size - 1) /\ item + 1 \in 0..cc_size /\ item \in 0..cc_size
           /\ Describes(cc_list, mem, item, i, cc[item], marker[item], carry[item])
<1>1. /\ item \in Nat /\ cc_size \in Nat /\ i \in Nat
      /\ item \in 0..(cc_size - 1) /\ item + 1 \in 0..cc_size /\ item \in 0..cc_size
  BY BoundsAssumption DEF CppInv, ScanInv, TypeOK, Arguments
<1>2. /\ cc_list[item] \in Item
      /\ cc[item] \in Word /\ marker[item] \in Word /\ carry[item] \in BOOLEAN
  BY <1>1 DEF CppInv, ScanInv, TypeOK, Arguments
<1>3. Bit \ {SpareBit} = Payload
  BY BlockSizeAssumption DEF Bit, SpareBit, Payload
<1>4. cc[item] \in SUBSET Payload /\ marker[item] \in SUBSET Payload
  BY <1>1, <1>2, <1>3 DEF CppInv, ScanInv, SpareBitClear, LastBit, Word
<1>5. \A p \in Payload : p \in cc[item] <=> mem[i + p] \in cc_list[item].class
  BY <1>1 DEF CppInv, BlockLoaded
<1>6. \A p \in Payload : p \in marker[item] <=> Marked(cc_list, mem, item, i + p)
  <2>1. CASE item = 0
    <3>1. \A p \in Payload : Marked(cc_list, mem, 0, i + p) <=> mem[i + p] \in cc_list[0].class
      <4>1. \A p \in Payload : i + p \in Nat
        BY <1>1 DEF Payload
      <4> QED
        BY <4>1, MarkedZero
    <3> QED
      BY <2>1, <3>1, <1>5 DEF CppInv, BlockLoaded
  <2>2. CASE item # 0
    <3>1. item \in 1..item
      BY <2>2, <1>1
    <3> QED
      BY <3>1 DEF CppInv, ScanInv, MarkersAreMatches
  <2> QED
    BY <2>1, <2>2
<1>7. carry[item] <=> Pending(cc_list, mem, item, i)
  BY <1>1 DEF CppInv, ScanInv, CarryIsPending, CarryBoundary
<1> QED
  BY <1>1, <1>2, <1>4, <1>5, <1>6, <1>7 DEF Describes

\* Either operation stores its marker word and its carry, and leaves
\* everything else alone.
LEMMA OperationInvariant ==
    ASSUME CppInv, pc = "item", item < cc_size,
           NEW M \in SUBSET Payload, NEW c \in BOOLEAN,
           \A p \in Payload : p \in M <=> Marked(cc_list, mem, item + 1, i + p),
           c <=> Pending(cc_list, mem, item, i + BlockSize),
           marker' = [marker EXCEPT ![item + 1] = M],
           carry' = [carry EXCEPT ![item] = c],
           item' = item + 1,
           UNCHANGED <<arguments, i, cc, matched, pc>>
    PROVE  CppInv'
<1>1. /\ item \in Nat /\ cc_size \in Nat
      /\ item \in 0..(cc_size - 1) /\ item + 1 \in 0..cc_size /\ item \in 0..cc_size
      /\ cc[item] \in SUBSET Payload /\ marker[item] \in SUBSET Payload
  BY ItemReady DEF Describes
<1>2. cc' = [cc EXCEPT ![item] = cc[item]]
  BY <1>1 DEF CppInv, ScanInv, TypeOK
<1>3. marker' = [marker EXCEPT ![item] = marker[item], ![item + 1] = M]
  BY <1>1 DEF CppInv, ScanInv, TypeOK
<1>4. ScanInv'
  <2> DEFINE C == cc[item]
             N == marker[item]
  <2>1. C \in SUBSET Payload /\ N \in SUBSET Payload /\ N = marker[item]
    BY <1>1
  <2>2. cc' = [cc EXCEPT ![item] = C] /\ marker' = [marker EXCEPT ![item] = N, ![item + 1] = M]
    BY <1>2, <1>3
  <2>3. ScanInv
    BY DEF CppInv
  <2> HIDE DEF C, N
  <2> QED
    BY <2>1, <2>2, <2>3, OperationScan
<1>5. BlockLoaded'
  <2>1. marker'[0] = marker[0]
    BY <1>1 DEF CppInv, ScanInv, TypeOK
  <2> QED
    BY <2>1 DEF CppInv, BlockLoaded, arguments
<1> QED
  BY <1>4, <1>5 DEF CppInv

LEMMA MatchStarInvariant == CppInv /\ MatchStar => CppInv'
<1> SUFFICES ASSUME CppInv, MatchStar PROVE CppInv'
  OBVIOUS
<1> DEFINE CC == cc[item]
           sum == Plus(marker[item] \cap CC, CC, carry[item])
           built == BuildMatchStar(CC, marker[item], carry[item])
<1>1. pc = "item" /\ item < cc_size /\ cc_list[item].star
  BY DEF MatchStar
<1>2. /\ LastBit(sum) = built.carry
      /\ SymDiff(ClearLast(sum), CC) \cup marker[item] = built.marker
  BY <1>1, ItemReady, CppStarIsBuildMatchStar DEF Describes
<1>3. /\ built.marker \in SUBSET Payload
      /\ built.carry \in BOOLEAN
      /\ \A p \in Payload : p \in built.marker <=> Marked(cc_list, mem, item + 1, i + p)
      /\ built.carry <=> Pending(cc_list, mem, item, i + BlockSize)
  <2>1. Describes(cc_list, mem, item, i, cc[item], marker[item], carry[item])
    BY <1>1, ItemReady
  <2> QED
    BY <1>1, <2>1, BuildMatchStarMeaning
<1>4. /\ carry' = [carry EXCEPT ![item] = LastBit(sum)]
      /\ marker' = [marker EXCEPT ![item + 1] = SymDiff(ClearLast(sum), CC) \cup marker[item]]
      /\ item' = item + 1
      /\ UNCHANGED <<arguments, i, cc, matched, pc>>
  BY DEF MatchStar
<1> HIDE DEF sum, built, CC
<1> QED
  BY <1>1, <1>2, <1>3, <1>4, OperationInvariant

LEMMA AdvanceInvariant == CppInv /\ Advance => CppInv'
<1> SUFFICES ASSUME CppInv, Advance PROVE CppInv'
  OBVIOUS
<1> DEFINE bits == ShiftLeftOne(marker[item] \cap cc[item]) \cup CarryWord(carry[item])
           built == BuildAdvance(cc[item], marker[item], carry[item])
<1>1. pc = "item" /\ item < cc_size /\ ~ cc_list[item].star
  BY DEF Advance
<1>2. LastBit(bits) = built.carry /\ ClearLast(bits) = built.marker
  BY DEF BuildAdvance, Split
<1>3. /\ built.marker \in SUBSET Payload
      /\ built.carry \in BOOLEAN
      /\ \A p \in Payload : p \in built.marker <=> Marked(cc_list, mem, item + 1, i + p)
      /\ built.carry <=> Pending(cc_list, mem, item, i + BlockSize)
  <2>1. Describes(cc_list, mem, item, i, cc[item], marker[item], carry[item])
    BY <1>1, ItemReady
  <2> QED
    BY <1>1, <2>1, BuildAdvanceMeaning
<1>4. /\ carry' = [carry EXCEPT ![item] = LastBit(bits)]
      /\ marker' = [marker EXCEPT ![item + 1] = ClearLast(bits)]
      /\ item' = item + 1
      /\ UNCHANGED <<arguments, i, cc, matched, pc>>
  BY DEF Advance
<1> HIDE DEF bits, built
<1> QED
  BY <1>1, <1>2, <1>3, <1>4, OperationInvariant

LEMMA CppCountBlockInvariant == CppInv /\ CountBlock => CppInv'
<1> SUFFICES ASSUME CppInv, CountBlock PROVE CppInv'
  OBVIOUS
<1>1. cc_size > 0
  BY DEF CppInv, BlockLoaded, CountBlock
<1>2. ScanInv'
  BY <1>1, CountBlockScan DEF CppInv
<1>3. BlockLoaded'
  BY DEF BlockLoaded, CountBlock
<1> QED
  BY <1>2, <1>3 DEF CppInv

\* A step that only leaves the loop keeps the invariant.
LEMMA LeaveInvariant ==
    ASSUME CppInv, pc # "item", pc' \in {"done", "failed"},
           UNCHANGED <<arguments, i, item, words, matched>>
    PROVE  CppInv'
<1>1. ScanInv'
  BY BetweenBlocksScan DEF CppInv
<1>2. BlockLoaded'
  BY DEF BlockLoaded
<1> QED
  BY <1>1, <1>2 DEF CppInv

LEMMA CppStutterInvariant == CppInv /\ UNCHANGED vars => CppInv'
<1> SUFFICES ASSUME CppInv, UNCHANGED vars PROVE CppInv'
  OBVIOUS
<1>1. ScanInv'
  BY StutterScan DEF CppInv
<1>2. BlockLoaded'
  BY DEF CppInv, BlockLoaded, vars, arguments, words
<1> QED
  BY <1>1, <1>2 DEF CppInv

\* No step of a call breaks the invariant.
LEMMA CppStepInvariant == CppInv /\ [CppNext]_vars => CppInv'
<1> SUFFICES ASSUME CppInv, [CppNext]_vars PROVE CppInv'
  OBVIOUS
<1>1. CASE EnterBlock
  BY <1>1, EnterBlockInvariant
<1>2. CASE AbortEmptyPattern
  BY <1>2, LeaveInvariant DEF AbortEmptyPattern
<1>3. CASE AbortOverread
  BY <1>3, LeaveInvariant DEF AbortOverread
<1>4. CASE MatchStar
  BY <1>4, MatchStarInvariant
<1>5. CASE Advance
  BY <1>5, AdvanceInvariant
<1>6. CASE CountBlock
  BY <1>6, CppCountBlockInvariant
<1>7. CASE Return
  BY <1>7, LeaveInvariant DEF Return
<1>8. CASE Terminated
  BY <1>8, CppStutterInvariant DEF Terminated
<1>9. CASE UNCHANGED vars
  BY <1>9, CppStutterInvariant
<1> QED
  BY <1>1, <1>2, <1>3, <1>4, <1>5, <1>6, <1>7, <1>8, <1>9 DEF CppNext, CppStep

\* The invariant holds in every state of every call.
THEOREM CppInvariant == CppSpec => []CppInv
<1>1. CppInit => CppInv
  BY InitScan DEF CppInit, CppInv, BlockLoaded
<1> QED
  BY <1>1, CppStepInvariant, PTL DEF CppSpec

\* Every variable of parabix_cpp always has its type.
THEOREM CppTypeOK == CppSpec => []TypeOK
<1>1. CppInv => TypeOK
  BY DEF CppInv, ScanInv
<1> QED
  BY <1>1, CppInvariant, PTL

\* The spare bit never survives an operation.
THEOREM CppSpareBitClear == CppSpec => []SpareBitClear
<1>1. CppInv => SpareBitClear
  BY DEF CppInv, ScanInv
<1> QED
  BY <1>1, CppInvariant, PTL

\* The carries say exactly what is still being matched across the boundary.
THEOREM CppCarryIsPending == CppSpec => []CarryIsPending
<1>1. CppInv => CarryIsPending
  BY DEF CppInv, ScanInv
<1> QED
  BY <1>1, CppInvariant, PTL

\* The marker words are exactly the partial matches.
THEOREM CppMarkersAreMatches == CppSpec => []MarkersAreMatches
<1>1. CppInv => MarkersAreMatches
  BY DEF CppInv, ScanInv
<1> QED
  BY <1>1, CppInvariant, PTL

\* parabix_cpp counts every marked end of the blocks it has done, once.
THEOREM CppCountExact == CppSpec => []CountExact
<1>1. CppInv => CountExact
  BY DEF CppInv, ScanInv
<1> QED
  BY <1>1, CppInvariant, PTL

\* The loop over the blocks.
LEMMA CppStepOffset == CppInv /\ BlockOffset /\ [CppNext]_vars => BlockOffset'
<1> SUFFICES ASSUME CppInv, BlockOffset, [CppNext]_vars PROVE BlockOffset'
  OBVIOUS
<1>0. TypeOK
  BY DEF CppInv, ScanInv
<1>1. CASE EnterBlock
  BY <1>0, <1>1, StepOffset DEF EnterBlock
<1>2. CASE AbortEmptyPattern
  BY <1>0, <1>2, StepOffset DEF AbortEmptyPattern
<1>3. CASE AbortOverread
  BY <1>0, <1>3, StepOffset DEF AbortOverread
<1>4. CASE MatchStar
  BY <1>0, <1>4, StepOffset DEF MatchStar
<1>5. CASE Advance
  BY <1>0, <1>5, StepOffset DEF Advance
<1>6. CASE CountBlock
  BY <1>0, <1>6, StepOffset DEF CountBlock
<1>7. CASE Return
  BY <1>0, <1>7, StepOffset DEF Return
<1>8. CASE Terminated
  BY <1>0, <1>8, StepOffset DEF Terminated, vars
<1>9. CASE UNCHANGED vars
  BY <1>0, <1>9, StepOffset DEF vars
<1> QED
  BY <1>1, <1>2, <1>3, <1>4, <1>5, <1>6, <1>7, <1>8, <1>9 DEF CppNext, CppStep

\* The offset stays where the loop puts it.
LEMMA CppOffset == CppSpec => []BlockOffset
<1>1. CppInit => BlockOffset
  BY InitOffset DEF CppInit
<1> QED
  BY <1>1, CppStepOffset, CppInvariant, PTL DEF CppSpec

\* On an input that fills its blocks parabix_cpp returns the number of
\* positions where a match of the expression ends.
THEOREM CppAlignedResult == CppSpec => []AlignedResult
<1>1. CppInv /\ BlockOffset => AlignedResult
  BY ResultExact DEF CppInv, ScanInv, AlignedResult
<1> QED
  BY <1>1, CppInvariant, CppOffset, PTL

\* On any other input parabix_cpp, where it returns, has lost no match,
\* whatever lies after the input.
THEOREM CppNoMatchLost == CppSpec => []NoMatchLost
<1>1. CppInv /\ BlockOffset => NoMatchLost
  BY ResultExact DEF CppInv, ScanInv, NoMatchLost
<1> QED
  BY <1>1, CppInvariant, CppOffset, PTL

\* parabix_cpp implements the safety part of MatchCounter: block by block it
\* adds up the marked ends, and it fails only for a reason the caller can see.
THEOREM CppRefinesCounter == CppSpec => Counter!Init /\ [][Counter!Next]_(Counter!vars)
<1>1. CppInit => Counter!Init
  BY CounterInit DEF CppInit
<1>2. CppInv /\ BlockOffset /\ [CppNext]_vars => [Counter!Next]_(Counter!vars)
  <2> SUFFICES ASSUME CppInv, BlockOffset, [CppNext]_vars
               PROVE  Counter!Next \/ UNCHANGED Counter!vars
    OBVIOUS
  <2>1. CASE EnterBlock
    BY <2>1, CounterStutter DEF EnterBlock
  <2>2. CASE AbortEmptyPattern
    BY <2>2, CounterFail DEF AbortEmptyPattern, Counter!Next
  <2>3. CASE AbortOverread
    BY <2>3, CounterFail DEF AbortOverread, Counter!Next
  <2>4. CASE MatchStar
    BY <2>4, CounterStutter DEF MatchStar
  <2>5. CASE Advance
    BY <2>5, CounterStutter DEF Advance
  <2>6. CASE CountBlock
    <3>1. ScanInv /\ (cc_size = 0 => marker[0] = {})
      BY <2>6 DEF CppInv, BlockLoaded, CountBlock
    <3> QED
      BY <2>6, <3>1, CounterScanBlock DEF Counter!Next
  <2>7. CASE Return
    BY <2>7, CounterFinish DEF Counter!Next
  <2>8. CASE Terminated
    BY <2>8, CounterStutter DEF Terminated, vars
  <2>9. CASE UNCHANGED vars
    BY <2>9, CounterStutter DEF vars
  <2> QED
    BY <2>1, <2>2, <2>3, <2>4, <2>5, <2>6, <2>7, <2>8, <2>9 DEF CppNext, CppStep
<1> QED
  BY <1>1, <1>2, CppInvariant, CppOffset, PTL DEF CppSpec

(***************************************************************************)
(* parabix_llvm.                                                           *)
(***************************************************************************)

\* run of an empty pattern has an empty body: it leaves the marker it counts
\* from as it was, without a bit.
EmptyUnmarked == cc_size = 0 => marker[0] = {}

\* The inductive invariant.
LlvmInv == ScanInv /\ EmptyUnmarked

\* What the emitted operations find in the values a fragment loads.
LEMMA FragmentReady ==
    ASSUME LlvmInv, pc = "item", item < cc_size,
           NEW C, C = Execute(Basis(i), cc_list[item].class),
           NEW N, N = IF item = 0 THEN C ELSE marker[item]
    PROVE  /\ C \in SUBSET Payload
           /\ N \in SUBSET Payload
           /\ Describes(cc_list, mem, item, i, C, N, carry[item])
<1>1. /\ item \in Nat /\ cc_size \in Nat /\ i \in Nat
      /\ item \in 0..(cc_size - 1) /\ item \in 0..cc_size
  BY BoundsAssumption DEF LlvmInv, ScanInv, TypeOK, Arguments
<1>2. /\ cc_list[item] \in Item /\ cc_list[item].class \in Class
      /\ marker[item] \in Word /\ carry[item] \in BOOLEAN
  BY <1>1 DEF LlvmInv, ScanInv, TypeOK, Arguments, Item
<1>3. /\ C \in SUBSET Payload
      /\ \A p \in Payload : p \in C <=> mem[i + p] \in cc_list[item].class
  BY <1>1, <1>2, ExecuteBits
<1>4. Bit \ {SpareBit} = Payload
  BY BlockSizeAssumption DEF Bit, SpareBit, Payload
<1>5. N \in SUBSET Payload /\ \A p \in Payload : p \in N <=> Marked(cc_list, mem, item, i + p)
  <2>1. CASE item = 0
    <3>1. \A p \in Payload : Marked(cc_list, mem, 0, i + p) <=> mem[i + p] \in cc_list[0].class
      <4>1. \A p \in Payload : i + p \in Nat
        BY <1>1 DEF Payload
      <4> QED
        BY <4>1, MarkedZero
    <3> QED
      BY <2>1, <3>1, <1>3
  <2>2. CASE item # 0
    <3>1. item \in 1..item
      BY <2>2, <1>1
    <3>2. N \in SUBSET Payload
      BY <2>2, <1>1, <1>2, <1>4 DEF LlvmInv, ScanInv, SpareBitClear, LastBit, Word
    <3> QED
      BY <2>2, <3>1, <3>2 DEF LlvmInv, ScanInv, MarkersAreMatches
  <2> QED
    BY <2>1, <2>2
<1>6. carry[item] <=> Pending(cc_list, mem, item, i)
  BY <1>1 DEF LlvmInv, ScanInv, CarryIsPending, CarryBoundary
<1> QED
  BY <1>1, <1>2, <1>3, <1>5, <1>6 DEF Describes

LEMMA RunFragmentInvariant == LlvmInv /\ RunFragment => LlvmInv'
<1> SUFFICES ASSUME LlvmInv, RunFragment PROVE LlvmInv'
  OBVIOUS
<1> DEFINE C == Execute(Basis(i), cc_list[item].class)
           N == IF item = 0 THEN C ELSE marker[item]
           next == Codegen(cc_list[item].star, C, N, carry[item])
<1>1. /\ pc = "item" /\ item < cc_size
      /\ cc' = [cc EXCEPT ![item] = C]
      /\ marker' = [marker EXCEPT ![item] = N, ![item + 1] = next.marker]
      /\ carry' = [carry EXCEPT ![item] = next.carry]
      /\ item' = item + 1
      /\ UNCHANGED <<arguments, i, matched, pc>>
  BY DEF RunFragment
<1>2. /\ C \in SUBSET Payload /\ N \in SUBSET Payload
      /\ Describes(cc_list, mem, item, i, C, N, carry[item])
  BY <1>1, FragmentReady
<1>3. item = 0 \/ N = marker[item]
  OBVIOUS
<1>4. next = IF cc_list[item].star THEN BuildMatchStar(C, N, carry[item])
                                   ELSE BuildAdvance(C, N, carry[item])
  BY DEF Codegen
<1> HIDE DEF C, N, next
<1>5. /\ next.marker \in SUBSET Payload
      /\ next.carry \in BOOLEAN
      /\ \A p \in Payload : p \in next.marker <=> Marked(cc_list, mem, item + 1, i + p)
      /\ next.carry <=> Pending(cc_list, mem, item, i + BlockSize)
  <2>1. CASE cc_list[item].star
    BY <2>1, <1>2, <1>4, BuildMatchStarMeaning
  <2>2. CASE ~ cc_list[item].star
    BY <2>2, <1>2, <1>4, BuildAdvanceMeaning
  <2> QED
    BY <2>1, <2>2
<1>6. ScanInv'
  <2>1. ScanInv
    BY DEF LlvmInv
  <2> QED
    BY <1>1, <1>2, <1>3, <1>5, <2>1, OperationScan
<1>7. EmptyUnmarked'
  BY <1>1 DEF LlvmInv, ScanInv, TypeOK, EmptyUnmarked, arguments
<1> QED
  BY <1>6, <1>7 DEF LlvmInv

LEMMA CallRunInvariant == LlvmInv /\ CallRun => LlvmInv'
<1> SUFFICES ASSUME LlvmInv, CallRun PROVE LlvmInv'
  OBVIOUS
<1> USE DEF CallRun, arguments, words, LlvmInv
<1>1. cc_size \in Nat
  BY BoundsAssumption DEF ScanInv, TypeOK, Arguments
<1>2. TypeOK'
  BY <1>1 DEF ScanInv, TypeOK, Arguments
<1>3. SpareBitClear' /\ CountExact' /\ EmptyUnmarked'
  BY DEF ScanInv, SpareBitClear, CountExact, EmptyUnmarked
<1>4. CarryIsPending'
  BY <1>1 DEF ScanInv, CarryIsPending, CarryBoundary
<1>5. MarkersAreMatches'
  BY DEF MarkersAreMatches
<1> QED
  BY <1>2, <1>3, <1>4, <1>5 DEF ScanInv

LEMMA LlvmCountBlockInvariant == LlvmInv /\ CountBlock => LlvmInv'
<1> SUFFICES ASSUME LlvmInv, CountBlock PROVE LlvmInv'
  OBVIOUS
<1>1. ScanInv'
  BY CountBlockScan DEF LlvmInv, EmptyUnmarked
<1>2. EmptyUnmarked'
  BY DEF LlvmInv, EmptyUnmarked, CountBlock, arguments, words
<1> QED
  BY <1>1, <1>2 DEF LlvmInv

\* The steps between blocks leave the words alone.
LEMMA BetweenBlocksInvariant ==
    ASSUME LlvmInv, pc # "item", pc' \in {"block", "done", "failed"},
           UNCHANGED <<arguments, i, item, words, matched>>
    PROVE  LlvmInv'
<1>1. ScanInv'
  BY BetweenBlocksScan DEF LlvmInv
<1>2. EmptyUnmarked'
  BY DEF LlvmInv, EmptyUnmarked, arguments, words
<1> QED
  BY <1>1, <1>2 DEF LlvmInv

LEMMA LlvmStutterInvariant == LlvmInv /\ UNCHANGED vars => LlvmInv'
<1> SUFFICES ASSUME LlvmInv, UNCHANGED vars PROVE LlvmInv'
  OBVIOUS
<1>1. ScanInv'
  BY StutterScan DEF LlvmInv
<1>2. EmptyUnmarked'
  BY DEF LlvmInv, EmptyUnmarked, vars, arguments, words
<1> QED
  BY <1>1, <1>2 DEF LlvmInv

\* No step of a call breaks the invariant, the compilation included.
LEMMA LlvmStepInvariant == LlvmInv /\ [LlvmNext]_llvmVars => LlvmInv'
<1> SUFFICES ASSUME LlvmInv, [LlvmNext]_llvmVars PROVE LlvmInv'
  OBVIOUS
<1>1. CASE Compile
  BY <1>1, BetweenBlocksInvariant DEF Compile
<1>2. CASE CompileThrows
  BY <1>2, BetweenBlocksInvariant DEF CompileThrows
<1>3. CASE CallRun
  BY <1>3, CallRunInvariant
<1>4. CASE RunThrows
  BY <1>4, BetweenBlocksInvariant DEF RunThrows
<1>5. CASE RunFragment
  BY <1>5, RunFragmentInvariant
<1>6. CASE Shared
  <2>1. CASE AbortOverread
    BY <2>1, BetweenBlocksInvariant DEF AbortOverread
  <2>2. CASE CountBlock
    BY <2>2, LlvmCountBlockInvariant
  <2>3. CASE Return
    BY <2>3, BetweenBlocksInvariant DEF Return
  <2> QED
    BY <1>6, <2>1, <2>2, <2>3 DEF Shared
<1>7. CASE Terminated
  BY <1>7, LlvmStutterInvariant DEF Terminated
<1>8. CASE UNCHANGED llvmVars
  BY <1>8, LlvmStutterInvariant DEF llvmVars
<1> QED
  BY <1>1, <1>2, <1>3, <1>4, <1>5, <1>6, <1>7, <1>8 DEF LlvmNext, LlvmStep

\* The invariant holds in every state of every call.
THEOREM LlvmInvariant == LlvmSpec => []LlvmInv
<1>1. LlvmInit => LlvmInv
  <2> SUFFICES ASSUME LlvmInit PROVE LlvmInv
    OBVIOUS
  <2>1. ScanInv
    BY InitScan DEF LlvmInit
  <2>2. EmptyUnmarked
    BY DEF LlvmInit, Init, EmptyUnmarked
  <2> QED
    BY <2>1, <2>2 DEF LlvmInv
<1> QED
  BY <1>1, LlvmStepInvariant, PTL DEF LlvmSpec

\* Every variable of the compiled scanner always has its type.
THEOREM LlvmTypeOK == LlvmSpec => []TypeOK
<1>1. LlvmInv => TypeOK
  BY DEF LlvmInv, ScanInv
<1> QED
  BY <1>1, LlvmInvariant, PTL

\* The carries that run keeps between two calls say exactly what is still
\* being matched across the block boundary.
THEOREM LlvmCarryIsPending == LlvmSpec => []CarryIsPending
<1>1. LlvmInv => CarryIsPending
  BY DEF LlvmInv, ScanInv
<1> QED
  BY <1>1, LlvmInvariant, PTL

\* The compiled scanner counts every marked end of the blocks it has done,
\* once.
THEOREM LlvmCountExact == LlvmSpec => []CountExact
<1>1. LlvmInv => CountExact
  BY DEF LlvmInv, ScanInv
<1> QED
  BY <1>1, LlvmInvariant, PTL

\* Between two operations of run no stored word has its spare bit set.
THEOREM LlvmSpareBitClear == LlvmSpec => []SpareBitClear
<1>1. LlvmInv => SpareBitClear
  BY DEF LlvmInv, ScanInv
<1> QED
  BY <1>1, LlvmInvariant, PTL

\* The marker words that run stores are exactly the partial matches.
THEOREM LlvmMarkersAreMatches == LlvmSpec => []MarkersAreMatches
<1>1. LlvmInv => MarkersAreMatches
  BY DEF LlvmInv, ScanInv
<1> QED
  BY <1>1, LlvmInvariant, PTL

\* The offset stays where the loop puts it.  No block is entered while the
\* module is compiled, nor ever when the lookup of run has failed.
LlvmOffset ==
    /\ BlockOffset
    /\ pc = "compile" => i = 0
    /\ ~ runFnPtr => i = 0 /\ pc # "item"

\* The loop over the blocks.
LEMMA LlvmStepOffset == LlvmInv /\ LlvmOffset /\ [LlvmNext]_llvmVars => LlvmOffset'
<1> SUFFICES ASSUME LlvmInv, LlvmOffset, [LlvmNext]_llvmVars PROVE LlvmOffset'
  OBVIOUS
<1>0. TypeOK /\ BlockOffset
  BY DEF LlvmInv, ScanInv, LlvmOffset
<1>1. CASE Compile
  BY <1>0, <1>1, StepOffset DEF Compile, LlvmOffset
<1>2. CASE CompileThrows
  BY <1>0, <1>2, StepOffset DEF CompileThrows, LlvmOffset
<1>3. CASE CallRun
  BY <1>0, <1>3, StepOffset DEF CallRun, LlvmOffset
<1>4. CASE RunThrows
  BY <1>0, <1>4, StepOffset DEF RunThrows, LlvmOffset
<1>5. CASE RunFragment
  BY <1>0, <1>5, StepOffset DEF RunFragment, LlvmOffset
<1>6. CASE AbortOverread /\ UNCHANGED runFnPtr
  BY <1>0, <1>6, StepOffset DEF AbortOverread, LlvmOffset
<1>7. CASE CountBlock /\ UNCHANGED runFnPtr
  BY <1>0, <1>7, StepOffset DEF CountBlock, LlvmOffset
<1>8. CASE Return /\ UNCHANGED runFnPtr
  BY <1>0, <1>8, StepOffset DEF Return, LlvmOffset
<1>9. CASE UNCHANGED llvmVars
  BY <1>0, <1>9, StepOffset DEF llvmVars, vars, LlvmOffset
<1> QED
  BY <1>1, <1>2, <1>3, <1>4, <1>5, <1>6, <1>7, <1>8, <1>9
     DEF LlvmNext, LlvmStep, Shared, Terminated, llvmVars

LEMMA LlvmOffsetInvariant == LlvmSpec => []LlvmOffset
<1>1. LlvmInit => LlvmOffset
  BY InitOffset DEF LlvmInit, Init, LlvmOffset
<1> QED
  BY <1>1, LlvmStepOffset, LlvmInvariant, PTL DEF LlvmSpec

\* On an input that fills its blocks the compiled scanner returns the number
\* of positions where a match of the expression ends.
THEOREM LlvmAlignedResult == LlvmSpec => []AlignedResult
<1>1. LlvmInv /\ LlvmOffset => AlignedResult
  BY ResultExact DEF LlvmInv, LlvmOffset, ScanInv, AlignedResult
<1> QED
  BY <1>1, LlvmInvariant, LlvmOffsetInvariant, PTL

\* On any other input the compiled scanner, where it returns, has lost no
\* match, whatever lies after the input.
THEOREM LlvmNoMatchLost == LlvmSpec => []NoMatchLost
<1>1. LlvmInv /\ LlvmOffset => NoMatchLost
  BY ResultExact DEF LlvmInv, LlvmOffset, ScanInv, NoMatchLost
<1> QED
  BY <1>1, LlvmInvariant, LlvmOffsetInvariant, PTL

\* The compiled scanner implements the safety part of MatchCounter: block by
\* block it adds up the marked ends, and the exceptions of the compiler come
\* before the first block.
THEOREM LlvmRefinesCounter == LlvmSpec => Counter!Init /\ [][Counter!Next]_(Counter!vars)
<1>1. LlvmInit => Counter!Init
  BY CounterInit DEF LlvmInit
<1>2. LlvmInv /\ LlvmOffset /\ [LlvmNext]_llvmVars => [Counter!Next]_(Counter!vars)
  <2> SUFFICES ASSUME LlvmInv, LlvmOffset, [LlvmNext]_llvmVars
               PROVE  Counter!Next \/ UNCHANGED Counter!vars
    OBVIOUS
  <2>1. CASE Compile
    BY <2>1, CounterStutter DEF Compile
  <2>2. CASE CompileThrows
    BY <2>2, CounterFail DEF CompileThrows, LlvmOffset, Counter!Next
  <2>3. CASE CallRun
    BY <2>3, CounterStutter DEF CallRun
  <2>4. CASE RunThrows
    BY <2>4, CounterFail DEF RunThrows, LlvmOffset, Counter!Next
  <2>5. CASE RunFragment
    BY <2>5, CounterStutter DEF RunFragment
  <2>6. CASE AbortOverread /\ UNCHANGED runFnPtr
    BY <2>6, CounterFail DEF AbortOverread, Counter!Next
  <2>7. CASE CountBlock /\ UNCHANGED runFnPtr
    <3>1. ScanInv /\ BlockOffset /\ (cc_size = 0 => marker[0] = {})
      BY DEF LlvmInv, LlvmOffset, EmptyUnmarked
    <3> QED
      BY <2>7, <3>1, CounterScanBlock DEF Counter!Next
  <2>8. CASE Return /\ UNCHANGED runFnPtr
    BY <2>8, CounterFinish DEF Counter!Next
  <2>9. CASE UNCHANGED llvmVars
    BY <2>9, CounterStutter DEF llvmVars, vars
  <2> QED
    BY <2>1, <2>2, <2>3, <2>4, <2>5, <2>6, <2>7, <2>8, <2>9
       DEF LlvmNext, LlvmStep, Shared, Terminated, llvmVars
<1> QED
  BY <1>1, <1>2, LlvmInvariant, LlvmOffsetInvariant, PTL DEF LlvmSpec
================================================================================
