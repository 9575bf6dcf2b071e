------------------------------- MODULE BitStream -------------------------------
(***************************************************************************)
(* stream::BitStream and operations/marker.h: a stream of bits, one for    *)
(* every position of an input, stored BlockSize to a word, and the         *)
(* operations that pass a carry from one word to the next.                 *)
(***************************************************************************)
EXTENDS BlockWord, Sequences

Zeros(n) == [b \in 0..(n - 1) |-> {}]
BlockCount(s) == Cardinality(DOMAIN s)

\* BitStream(length)
BlocksFor(length) == (length + BlockSize - 1) \div BlockSize

(***************************************************************************)
(* Single bits: find_block is the pair of pos \div BlockSize and           *)
(* pos % BlockSize.                                                        *)
(***************************************************************************)
IsSet(s, pos) == (pos % BlockSize) \in s[pos \div BlockSize]

\* set(pos, value): nothing is cleared.
SetBit(s, pos, value) ==
    IF value
    THEN [s EXCEPT ![pos \div BlockSize] = @ \cup {pos % BlockSize}]
    ELSE s

\* The positions whose bit is set, whatever the spare bits hold.
Positions(s) == {pos \in 0..(BlockCount(s) * BlockSize - 1) : IsSet(s, pos)}

\* pop_count: the spare bits are counted too.
PopCount(s) == MapThenSumSet(LAMBDA b : Cardinality(s[b]), DOMAIN s)

(***************************************************************************)
(* Block by block.                                                         *)
(***************************************************************************)
AndStream(s, t) == [b \in DOMAIN s |-> s[b] \cap t[b]]
OrStream(s, t) == [b \in DOMAIN s |-> s[b] \cup t[b]]
XorStream(s, t) == [b \in DOMAIN s |-> SymDiff(s[b], t[b])]
NotStream(s) == [b \in DOMAIN s |-> Bit \ s[b]]

\* Mutant: the carry is read where += leaves it.
ShiftStreamSpareCarry(s) ==
    [b \in DOMAIN s |->
        ClearLast(ShiftLeftOne(s[b])) \cup CarryWord(b > 0 /\ LastBit(s[b - 1]))]

\* s >>= 1: what leaves a block enters the next one.
ShiftStream(s) ==
    [b \in DOMAIN s |->
        ClearLast(ShiftLeftOne(s[b])) \cup CarryWord(b > 0 /\ BlockSize - 1 \in s[b - 1])]

\* Mutant: the sum keeps its spare bits.
PlusStreamUncleared(s, t) ==
    LET sum[b \in DOMAIN s] == Plus(s[b], t[b], IF b = 0 THEN FALSE ELSE LastBit(sum[b - 1]))
    IN  sum

\* s += t: the carry of a block's sum is its spare bit.
PlusStream(s, t) ==
    LET sum[b \in DOMAIN s] == Plus(s[b], t[b], IF b = 0 THEN FALSE ELSE LastBit(sum[b - 1]))
    IN  [b \in DOMAIN s |-> ClearLast(sum[b])]

(***************************************************************************)
(* operations/marker.h                                                     *)
(***************************************************************************)
AdvanceStream(marker, cc) == ShiftStream(AndStream(marker, cc))

\* Mutant: the markers the star leaves where they are get lost.
MatchPlusStream(marker, cc) == XorStream(PlusStream(AndStream(marker, cc), cc), cc)

MatchStarStream(marker, cc) ==
    OrStream(XorStream(PlusStream(AndStream(marker, cc), cc), cc), marker)

ScanThruStream(marker, cc) == AndStream(PlusStream(marker, cc), NotStream(cc))
================================================================================
