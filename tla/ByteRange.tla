------------------------------- MODULE ByteRange -------------------------------
(***************************************************************************)
(* Ranges of characters: parser::CC::match, which says what a list of them *)
(* accepts, and the bits in which the bounds of one differ, from which the *)
(* class compiler starts.  A byte of EncodingBits bits (8 in the code) is  *)
(* its value as an unsigned number.                                        *)
(***************************************************************************)
EXTENDS Integers, Sequences

CONSTANT EncodingBits    \* ENCODING_BITS

ASSUME EncodingAssumption == EncodingBits \in Nat \ {0}

Byte == 0..(2^EncodingBits - 1)
BitSet(v, b) == (v \div 2^b) % 2 = 1

\* match compares bytes as signed numbers.
Signed(c) == IF BitSet(c, EncodingBits - 1) THEN c - 2^EncodingBits ELSE c
Within(c, range) == Signed(range[1]) <= Signed(c) /\ Signed(c) <= Signed(range[2])
Accepted(ranges) == {c \in Byte : \E k \in 1..Len(ranges) : Within(c, ranges[k])}

\* The ranges go upwards.
Ascending(ranges) == \A k \in 1..Len(ranges) : Signed(ranges[k][1]) <= Signed(ranges[k][2])

\* Mutant: one bit too many is masked off.
DifferingBitsAndOne(low, high) ==
    CHOOSE c \in 1..(EncodingBits + 1) :
        /\ low \div 2^(c - 1) = high \div 2^(c - 1)
        /\ \A d \in 0..(c - 2) : low \div 2^d # high \div 2^d

\* The number of low bits from the highest one in which two bytes differ.
DifferingBits(low, high) ==
    CHOOSE c \in 0..EncodingBits :
        /\ low \div 2^c = high \div 2^c
        /\ \A d \in 0..(c - 1) : low \div 2^d # high \div 2^d

\* The bits of the bounds all differ: createBitPattern has no bit to test.
NoCommonBit(range) == DifferingBits(range[1], range[2]) = EncodingBits
================================================================================
