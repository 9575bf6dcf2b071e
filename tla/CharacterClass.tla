----------------------------- MODULE CharacterClass -----------------------------
(***************************************************************************)
(* Compiled character classes, and a block with every byte in it, on which *)
(* they are compared with parser::CC::match.                               *)
(***************************************************************************)
EXTENDS CCCompiler

CONSTANTS RegisterBytes, LaneBytes    \* see Transpose

INSTANCE Transpose

\* The block has byte c at position c.
BasisWords == BasisOf(transpose_sse([c \in Byte |-> c], 2^EncodingBits \div RegisterBytes))
=================================================================================
