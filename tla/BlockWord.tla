------------------------------ MODULE BlockWord ------------------------------
(***************************************************************************)
(* The machine words of the scanners.  A word holds one bit per byte of a  *)
(* block (BlockSize of them, 63 in the code) and one spare bit on top (bit *)
(* 63), which catches what a block hands to the next one.  A word is       *)
(* written as the set of its 1 bits: AND is \cap, OR is \cup, XOR is       *)
(* SymDiff and a population count is Cardinality.                          *)
(***************************************************************************)
EXTENDS Integers, FiniteSets, FiniteSetsExt

CONSTANT BlockSize    \* payload bits of a word: block_size == 63

ASSUME BlockSizeAssumption == BlockSize \in Nat \ {0}

Bit == 0..BlockSize
SpareBit == BlockSize
Payload == 0..(BlockSize - 1)
Word == SUBSET Bit

\* x << 1 on BlockSize+1 bits: the spare bit is pushed out.
ShiftLeftOne(x) == {p \in 1..BlockSize : p - 1 \in x}

\* (x >> block_size) & 1
LastBit(x) == SpareBit \in x

\* Mutant: the spare bit is not cleared.
Uncleared(x) == x

\* x & ~(1ULL << block_size)
ClearLast(x) == x \ {SpareBit}

\* A carry bit as a word: bit 0 or nothing.
CarryWord(c) == IF c THEN {0} ELSE {}

(***************************************************************************)
(* Unsigned addition, mod 2^(BlockSize+1), by what the carry chain does: a *)
(* carry enters position p when a lower position generates one (both bits  *)
(* set) and every position between propagates it, or when the carry-in     *)
(* propagates all the way from position 0.                                 *)
(***************************************************************************)
Propagates(x, y, lo, hi) == \A q \in lo..hi : q \in x \cup y

CarryInto(x, y, c, p) ==
    \/ \E g \in 0..(p - 1) : g \in x \cap y /\ Propagates(x, y, g + 1, p - 1)
    \/ c /\ Propagates(x, y, 0, p - 1)

Plus(x, y, c) == {p \in Bit : ((p \in x) # (p \in y)) # CarryInto(x, y, c, p)}
==============================================================================
