------------------------------- MODULE Transpose -------------------------------
(***************************************************************************)
(* parabix::transpose_sse: the bytes of a block go through a register, 16  *)
(* at a time; the highest bit of every byte is read off as a row of the    *)
(* result, and the register is shifted so that the next bit is highest.    *)
(* The scanners take the rows in reverse, for basis bit 0 is the lowest.   *)
(*                                                                         *)
(* The register is the set of its 1 bits, bit b of byte n being <<n, b>>;  *)
(* a row is the set of the bytes whose bit it shows.                       *)
(***************************************************************************)
EXTENDS Integers

CONSTANTS
    EncodingBits,     \* bits of a byte
    RegisterBytes,    \* bytes of a register: 16
    LaneBytes         \* bytes that are shifted as one number: 8

Register == (0..(RegisterBytes - 1)) \X (0..(EncodingBits - 1))

\* tmp.b[at] = inp[rr * 16 + at]
Load(inp, rr) ==
    {r \in Register : (inp[rr * RegisterBytes + r[1]] \div 2^r[2]) % 2 = 1}

\* Mutant: a lane is shifted towards its lowest bit.
srli_epi64(tmp) ==
    {r \in Register :
        \/ r[2] + 1 < EncodingBits /\ <<r[1], r[2] + 1>> \in tmp
        \/ r[2] + 1 = EncodingBits /\ (r[1] + 1) % LaneBytes # 0 /\ <<r[1] + 1, 0>> \in tmp}

\* tmp << 1 in each lane: the highest bit of a byte becomes the lowest of the
\* next byte of its lane, and the highest of the lane is lost.
slli_epi64(tmp) ==
    {r \in Register :
        \/ r[2] > 0 /\ <<r[1], r[2] - 1>> \in tmp
        \/ r[2] = 0 /\ r[1] % LaneBytes # 0 /\ <<r[1] - 1, EncodingBits - 1>> \in tmp}

movemask_epi8(tmp) ==
    {at \in 0..(RegisterBytes - 1) : <<at, EncodingBits - 1>> \in tmp}

transpose_sse(inp, registers) ==
    LET tmp[rr \in 0..(registers - 1), row \in 0..(EncodingBits - 1)] ==
            IF row = 0 THEN Load(inp, rr) ELSE slli_epi64(tmp[rr, row - 1])
    IN  [row \in 0..(EncodingBits - 1) |->
            UNION {{rr * RegisterBytes + at : at \in movemask_epi8(tmp[rr, row])} :
                       rr \in 0..(registers - 1)}]

\* basis[b] is the row counted from the other end.
BasisOf(rows) == [b \in 0..(EncodingBits - 1) |-> rows[EncodingBits - 1 - b]]
================================================================================
