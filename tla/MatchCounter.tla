----------------------------- MODULE MatchCounter -----------------------------
(***************************************************************************)
(* What a scanner promises: it goes through the input one block at a time, *)
(* adds up exactly the marked ends that lie in the blocks it has been      *)
(* through, and ends.  It gives up (an exception, an abort) only for a     *)
(* reason the caller can see: before the first block, on an empty pattern, *)
(* or on an input that does not fill its last block.  Which words, carries *)
(* and markers get it there is not said.                                   *)
(***************************************************************************)
EXTENDS Matching

CONSTANTS
    BlockSize,    \* bytes per block
    MaxItems,     \* bound: items of a pattern
    MaxInput      \* bound: bytes of the input

VARIABLES
    cc_list,      \* the pattern
    cc_size,      \* its number of items
    input_size,   \* bytes of the input
    mem,          \* the bytes from the start of the input on
    scanned,      \* the positions counted so far
    count,        \* the matches counted so far
    status        \* "running", "done" or "failed"

arguments == <<cc_list, cc_size, input_size, mem>>
vars == <<arguments, scanned, count, status>>

Blocks(n) == (n + BlockSize - 1) \div BlockSize

\* The last byte of the last block lies after the end of the input.
Overreads(start, n) == start + BlockSize > n

Arguments ==
    /\ cc_size \in 0..MaxItems
    /\ cc_list \in [0..(cc_size - 1) -> Item]
    /\ input_size \in 0..MaxInput
    /\ mem \in [0..(Blocks(input_size) * BlockSize) -> Byte]
    /\ mem[input_size] = Nul

Init ==
    /\ Arguments
    /\ scanned = 0
    /\ count = 0
    /\ status = "running"

ScanBlock ==
    /\ status = "running"
    /\ scanned < input_size
    /\ count' = count + Cardinality(
                  MarkedEnds(cc_list, cc_size, mem, scanned, scanned + BlockSize - 1))
    /\ scanned' = scanned + BlockSize
    /\ UNCHANGED <<arguments, status>>

Finish ==
    /\ status = "running"
    /\ scanned >= input_size
    /\ status' = "done"
    /\ UNCHANGED <<arguments, scanned, count>>

Fail ==
    /\ status = "running"
    /\ scanned = 0 \/ cc_size = 0 \/ Overreads(scanned, input_size)
    /\ status' = "failed"
    /\ UNCHANGED <<arguments, scanned, count>>

Terminated == status # "running" /\ UNCHANGED vars

Next == ScanBlock \/ Finish \/ Fail \/ Terminated

Spec == Init /\ [][Next]_vars /\ WF_vars(Next)
===============================================================================
