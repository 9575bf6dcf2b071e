------------------------------ MODULE SimdMarker ------------------------------
(***************************************************************************)
(* operations/simd.h: the marker operations on vectors with a byte, 0 or   *)
(* 1, for each position.  The bitwise steps take SimdSize bytes at a time, *)
(* and what is left one by one; the addition goes byte by byte.  A vector  *)
(* is the set of the positions that hold 1.                                *)
(***************************************************************************)
EXTENDS Integers, FiniteSets

CONSTANT SimdSize    \* bytes of a register: 32

ASSUME SimdSizeAssumption == SimdSize \in Nat \ {0}

Near(size) == size - (size % SimdSize)

\* Mutant: the bytes after the last full register are left out.
PassesFullRegisters(size) ==
    UNION {{at + b : b \in 0..(SimdSize - 1)} : at \in {p \in 0..(Near(size) - 1) : p % SimdSize = 0}}

\* The positions that the two loops of a bitwise step go through.
Passes(size) ==
    (UNION {{at + b : b \in 0..(SimdSize - 1)} : at \in {p \in 0..(Near(size) - 1) : p % SimdSize = 0}})
        \cup Near(size)..(size - 1)

AndPass(marker, cc, size) == {p \in Passes(size) : p \in marker /\ p \in cc}

\* memmove by one, and a 0 in front; the last byte leaves the vector.  (The
\* size is not 0: the memmove of an empty vector would have no end.)
SimdAdvance(marker, cc, size) ==
    {p \in 1..(size - 1) : p - 1 \in AndPass(marker, cc, size)}

\* The bytes of carry(size, 0).
CarryBytes(size) == 0..(size - 1)

\* Mutant: the carry does not pass from one register to the next.
SimdCarryPerRegister(op1, cc, size) ==
    LET carry[p \in CarryBytes(size)] ==
            /\ p % SimdSize > 0
            /\ IF carry[p - 1] THEN p - 1 \in op1 \cup cc ELSE p - 1 \in op1 \cap cc
    IN  carry

\* The carry into each position.
SimdCarry(op1, cc, size) ==
    LET carry[p \in CarryBytes(size)] ==
            /\ p > 0
            /\ IF carry[p - 1] THEN p - 1 \in op1 \cup cc ELSE p - 1 \in op1 \cap cc
    IN  carry

\* The positions that the addition is done with: the carry out of a position
\* is written before its sum, and a write behind carry stops the program,
\* since -mavx2, which the header needs, comes with the address sanitizer.
Added(size) == {p \in 0..(size - 1) : \A q \in 0..p : q + 1 \in CarryBytes(size)}

\* What result holds when the program stops, or when match_star returns.
SimdMatchStar(marker, cc, size) ==
    LET op1 == AndPass(marker, cc, size)
        carry == SimdCarry(op1, cc, size)
        op2 == {p \in 0..(size - 1) :
                   IF p \in Added(size) THEN ((p \in op1) # (p \in cc)) # carry[p] ELSE p \in op1}
        op4 == (op2 \ Passes(size)) \cup {p \in Passes(size) : (p \in op2) # (p \in cc) \/ p \in marker}
        returns == Added(size) = 0..(size - 1)
    IN  [returns |-> returns, result |-> IF returns THEN op4 ELSE op2]
===============================================================================
