--------------------------- MODULE OperationBuilder ---------------------------
(***************************************************************************)
(* codegen::OperationBuilder: what the instructions it emits for one item  *)
(* of a pattern compute from the class word, the marker word and the carry *)
(* of the item: its next marker word and its next carry.                   *)
(***************************************************************************)
EXTENDS BlockWord

\* Mutant: the spare bit is cleared before it is read.
SplitCleared(bits) == [marker |-> ClearLast(bits), carry |-> LastBit(ClearLast(bits))]

\* The spare bit becomes the carry and is cleared.
Split(bits) == [marker |-> ClearLast(bits), carry |-> LastBit(bits)]

\* Mutant: the markers are moved before the class is tested.
BuildAdvanceShiftFirst(CC, M, CARRY) == Split((ShiftLeftOne(M) \cap CC) \cup CarryWord(CARRY))

BuildAdvance(CC, M, CARRY) == Split(ShiftLeftOne(M \cap CC) \cup CarryWord(CARRY))

BuildMatchStar(CC, M, CARRY) == Split(SymDiff(Plus(M \cap CC, CC, CARRY), CC) \cup M)

Codegen(star, CC, M, CARRY) ==
    IF star THEN BuildMatchStar(CC, M, CARRY) ELSE BuildAdvance(CC, M, CARRY)
===============================================================================
