---------------------------- MODULE BitStreamObject ----------------------------
(***************************************************************************)
(* Two bit streams of one length and every call on them that the tools and *)
(* operations/marker.h make, in any order: what the streams hold stays     *)
(* what one long word would.                                               *)
(***************************************************************************)
EXTENDS BitStream, SimdMarker

CONSTANT StreamBlocks    \* bound: the blocks of a stream

ASSUME StreamBlocksAssumption == StreamBlocks \in Nat \ {0}

VARIABLES
    self,     \* the stream a call is made on
    other     \* its operand

vars == <<self, other>>

Size == StreamBlocks * BlockSize

Init == self = Zeros(StreamBlocks) /\ other = Zeros(StreamBlocks)

Set == \E pos \in 0..(Size - 1), value \in BOOLEAN : self' = SetBit(self, pos, value)

\* self &= other, self |= other, self ^= other
Combine == self' \in {AndStream(self, other), OrStream(self, other), XorStream(self, other)}

\* self += other
Add == self' = PlusStream(self, other)

\* self >>= 1
Shift == self' = ShiftStream(self)

Advance == self' = AdvanceStream(self, other)

MatchStar == self' = MatchStarStream(self, other)

ScanThru == self' = ScanThruStream(self, other)

\* The calls are made on the other stream from now on.
Swap == self' = other /\ other' = self

Next ==
    \/ (Set \/ Combine \/ Add \/ Shift \/ Advance \/ MatchStar \/ ScanThru) /\ UNCHANGED other
    \/ Swap

Spec == Init /\ [][Next]_vars

(***************************************************************************)
(* Properties                                                              *)
(***************************************************************************)

\* pop_count counts the bits that is_set shows: no operation leaves a spare
\* bit behind.
PopCountExact == PopCount(self) = Cardinality(Positions(self))

\* advance of simd.h, on vectors of bytes, is advance of marker.h: no position
\* is left out between the registers and the bytes after them, and none moves
\* differently at the border of a block.
SimdAdvanceIsMarker ==
    SimdAdvance(Positions(self), Positions(other), Size) = Positions(AdvanceStream(self, other))

\* match_star of simd.h never returns markers: it is stopped at the last
\* position, by the write behind carry.  Until then it adds as marker.h does,
\* its carry running through registers where the other runs through blocks:
\* all positions but the last one, which is left with its operand, are right.
SimdMatchStarStops ==
    LET operand == AndStream(self, other)
        star == SimdMatchStar(Positions(self), Positions(other), Size)
        last == Size - 1
    IN  /\ ~ star.returns
        /\ star.result \ {last} = Positions(PlusStream(operand, other)) \ {last}
        /\ last \in star.result <=> last \in Positions(operand)

\* The stream is one long word: no carry is lost or made up between blocks.
Long == INSTANCE LongWord WITH word <- Positions(self), other <- Positions(other)
StreamIsLongWord == Long!Spec
================================================================================
