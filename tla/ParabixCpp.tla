------------------------------ MODULE ParabixCpp ------------------------------
(***************************************************************************)
(* parabix::parabix_cpp: the scanner that interprets the compiled classes  *)
(* and applies the items of the pattern with its own word operations.      *)
(***************************************************************************)
EXTENDS ParabixBlocks

CppInit == Init /\ pc = "block"

\* A new block: transposed, masked, every class evaluated on it, and the
\* first marker word taken from the first class.
EnterBlock ==
    /\ pc = "block"
    /\ i < input_size
    /\ cc_size > 0
    /\ cc' = [k \in 0..(cc_size - 1) |-> Execute(Basis(i), cc_list[k].class)]
    /\ marker' = [marker EXCEPT ![0] = cc'[0]]
    /\ item' = 0
    /\ pc' = "item"
    /\ UNCHANGED <<arguments, i, carry, matched>>

\* marker[0] = cc[0] where cc is an empty vector: a null pointer is read.
AbortEmptyPattern ==
    /\ pc = "block"
    /\ i < input_size
    /\ cc_size = 0
    /\ pc' = "failed"
    /\ UNCHANGED <<arguments, i, item, words, matched>>

\* Mutant: the carry of the block before is not added.
MatchStarNoCarryIn ==
    /\ pc = "item"
    /\ item < cc_size
    /\ cc_list[item].star
    /\ LET CC == cc[item]
           sum == Plus(marker[item] \cap CC, CC, FALSE)
       IN  /\ carry' = [carry EXCEPT ![item] = LastBit(sum)]
           /\ marker' = [marker EXCEPT ![item + 1] =
                            SymDiff(ClearLast(sum), CC) \cup marker[item]]
    /\ item' = item + 1
    /\ UNCHANGED <<arguments, i, cc, matched, pc>>

\* Mutant: the markers the star leaves where they are get lost.
MatchPlus ==
    /\ pc = "item"
    /\ item < cc_size
    /\ cc_list[item].star
    /\ LET CC == cc[item]
           sum == Plus(marker[item] \cap CC, CC, carry[item])
       IN  /\ carry' = [carry EXCEPT ![item] = LastBit(sum)]
           /\ marker' = [marker EXCEPT ![item + 1] = SymDiff(ClearLast(sum), CC)]
    /\ item' = item + 1
    /\ UNCHANGED <<arguments, i, cc, matched, pc>>

MatchStar ==
    /\ pc = "item"
    /\ item < cc_size
    /\ cc_list[item].star
    /\ LET CC == cc[item]
           sum == Plus(marker[item] \cap CC, CC, carry[item])
       IN  /\ carry' = [carry EXCEPT ![item] = LastBit(sum)]
           /\ marker' = [marker EXCEPT ![item + 1] =
                            SymDiff(ClearLast(sum), CC) \cup marker[item]]
    /\ item' = item + 1
    /\ UNCHANGED <<arguments, i, cc, matched, pc>>

\* Mutant: what the block before handed on is ignored.
AdvanceNoCarryIn ==
    /\ pc = "item"
    /\ item < cc_size
    /\ ~ cc_list[item].star
    /\ LET M == ShiftLeftOne(marker[item] \cap cc[item])
       IN  /\ carry' = [carry EXCEPT ![item] = LastBit(M)]
           /\ marker' = [marker EXCEPT ![item + 1] = ClearLast(M)]
    /\ item' = item + 1
    /\ UNCHANGED <<arguments, i, cc, matched, pc>>

Advance ==
    /\ pc = "item"
    /\ item < cc_size
    /\ ~ cc_list[item].star
    /\ LET M == ShiftLeftOne(marker[item] \cap cc[item]) \cup CarryWord(carry[item])
       IN  /\ carry' = [carry EXCEPT ![item] = LastBit(M)]
           /\ marker' = [marker EXCEPT ![item + 1] = ClearLast(M)]
    /\ item' = item + 1
    /\ UNCHANGED <<arguments, i, cc, matched, pc>>

CppStep ==
    \/ EnterBlock
    \/ AbortEmptyPattern
    \/ AbortOverread
    \/ MatchStar
    \/ Advance
    \/ CountBlock
    \/ Return

CppNext == CppStep \/ Terminated

\* A call runs by itself until it returns or fails.
CppSpec == CppInit /\ [][CppNext]_vars /\ WF_vars(CppNext)
===============================================================================
