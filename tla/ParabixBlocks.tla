---------------------------- MODULE ParabixBlocks ----------------------------
(***************************************************************************)
(* What the two scanners of parabix.cc share: the arguments of a call, the *)
(* words it keeps, the loop over the blocks of the input, and what those   *)
(* words mean.  ParabixCpp and ParabixLlvm add the body of the loop.       *)
(*                                                                         *)
(* The eight basis words of a block are kept as the byte at each position: *)
(* bit p of basis word b is bit b of that byte.                            *)
(***************************************************************************)
EXTENDS BlockWord, Matching

CONSTANTS
    MaxItems,     \* bound: items of a pattern
    MaxInput      \* bound: bytes of the input

ASSUME BoundsAssumption == MaxItems \in Nat /\ MaxInput \in Nat

VARIABLES
    cc_list,      \* the parsed pattern
    cc_size,      \* cc_list.size()
    input_size,   \* input.length()
    mem,          \* input.data(): the input, its final '\0', and what lies after
    i,            \* offset of the current block
    item,         \* index of the item being applied to the block
    cc,           \* the character-class word of each item
    marker,       \* the marker word before each item, and after the last one
    carry,        \* what each item hands to the next block
    matched,      \* matches counted
    pc            \* where control is

arguments == <<cc_list, cc_size, input_size, mem>>
words == <<cc, marker, carry>>
vars == <<arguments, i, item, words, matched, pc>>

(***************************************************************************)
(* The memory a call touches.  transpose_sse loads BlockSize + 1 bytes per *)
(* block whatever the length of the input: after the input and its '\0'    *)
(* it finds any bytes at all.                                              *)
(***************************************************************************)
Blocks(n) == (n + BlockSize - 1) \div BlockSize
Overreads(start, n) == start + BlockSize > n

Arguments ==
    /\ cc_size \in 0..MaxItems
    /\ cc_list \in [0..(cc_size - 1) -> Item]
    /\ input_size \in 0..MaxInput
    /\ mem \in [0..(Blocks(input_size) * BlockSize) -> Byte]
    /\ mem[input_size] = Nul

\* Mutant: the basis words are not masked.
BasisUnmasked(start) == [p \in Bit |-> mem[start + p]]

\* The block at offset start, transposed, each basis word masked with
\* ~(1ULL << block_size): at the spare position every basis bit is 0.
Basis(start) == [p \in Bit |-> IF p = SpareBit THEN Nul ELSE mem[start + p]]

\* The compiled expression of a class, evaluated on the basis words.
Execute(basis, class) == {p \in Bit : basis[p] \in class}

\* Mutant: there are as many markers as items.
InitOneMarkerLess ==
    /\ Arguments
    /\ i = 0
    /\ item = 0
    /\ cc = [k \in 0..(cc_size - 1) |-> {}]
    /\ marker = [k \in 0..(cc_size - 1) |-> {}]
    /\ carry = [k \in 0..(cc_size - 1) |-> FALSE]
    /\ matched = 0

Init ==
    /\ Arguments
    /\ i = 0
    /\ item = 0
    /\ cc = [k \in 0..(cc_size - 1) |-> {}]
    /\ marker = [k \in 0..cc_size |-> {}]
    /\ carry = [k \in 0..(cc_size - 1) |-> FALSE]
    /\ matched = 0

\* Mutant: a block is taken to be as long as a word.
CountBlockOfWordSize ==
    /\ pc = "item"
    /\ item = cc_size
    /\ matched' = matched + Cardinality(marker[cc_size])
    /\ i' = i + BlockSize + 1
    /\ pc' = "block"
    /\ UNCHANGED <<arguments, item, words>>

\* The block is done: its matches are the bits of the last marker word.
CountBlock ==
    /\ pc = "item"
    /\ item = cc_size
    /\ matched' = matched + Cardinality(marker[cc_size])
    /\ i' = i + BlockSize
    /\ pc' = "block"
    /\ UNCHANGED <<arguments, item, words>>

\* Mutant: only full blocks are scanned.
ReturnAfterFullBlocks ==
    /\ pc = "block"
    /\ i + BlockSize > input_size
    /\ pc' = "done"
    /\ UNCHANGED <<arguments, i, item, words, matched>>

\* for (...; i < input_size; ...) ends.
Return ==
    /\ pc = "block"
    /\ i >= input_size
    /\ pc' = "done"
    /\ UNCHANGED <<arguments, i, item, words, matched>>

\* transpose_sse reads past the end of the input's buffer and the address
\* sanitizer, linked into every build, stops the program.
AbortOverread ==
    /\ pc = "block"
    /\ i < input_size
    /\ Overreads(i, input_size)
    /\ pc' = "failed"
    /\ UNCHANGED <<arguments, i, item, words, matched>>

\* The call has returned or failed.
Terminated == pc \in {"done", "failed"} /\ UNCHANGED vars

(***************************************************************************)
(* Properties                                                              *)
(***************************************************************************)

\* Every variable has its type; a marker exists before and after each item.
TypeOK ==
    /\ Arguments
    /\ i \in Nat
    /\ item \in 0..cc_size
    /\ cc \in [0..(cc_size - 1) -> Word]
    /\ marker \in [0..cc_size -> Word]
    /\ carry \in [0..(cc_size - 1) -> BOOLEAN]
    /\ matched \in Nat
    /\ pc \in {"compile", "block", "item", "done", "failed"}

\* Between two operations no word has its spare bit set, so the next block
\* finds there only what its own additions and shifts put in.
SpareBitClear ==
    /\ \A k \in 0..(cc_size - 1) : ~ LastBit(cc[k])
    /\ \A k \in 0..cc_size : ~ LastBit(marker[k])

\* The boundary that carry[k] is about: the start of the block until item k
\* has been applied to it, the start of the next one afterwards.
CarryBoundary(k) == IF pc = "item" /\ k < item THEN i + BlockSize ELSE i

\* carry[k] says exactly whether a text begun before the block boundary is
\* still being matched by item k across it: no match that straddles a block
\* boundary is lost, and none is invented.
CarryIsPending ==
    \A k \in 0..(cc_size - 1) : carry[k] <=> Pending(cc_list, mem, k, CarryBoundary(k))

\* A bit of marker[k] is set exactly when the first k items match some text,
\* of this block or of earlier ones, that ends at its position.
MarkersAreMatches ==
    pc = "item" =>
        \A k \in 1..item : \A p \in Payload :
            p \in marker[k] <=> Marked(cc_list, mem, k, i + p)

\* At any time, matched is the number of marked ends in the blocks done: each
\* is counted once, in whichever block it falls.
CountExact == matched = Cardinality(MarkedEnds(cc_list, cc_size, mem, 0, i - 1))

\* On an input that fills its blocks and a pattern with a plain first item,
\* the result is the number of positions before the end of the input where a
\* match of the regular expression ends.
AlignedResult ==
    pc = "done" /\ input_size % BlockSize = 0 /\ cc_size > 0 /\ ~ cc_list[0].star =>
        matched = Cardinality(MatchEnds(cc_list, cc_size, mem, 0, input_size - 1))

\* On any other input, whatever lies after it in memory, every match of the
\* input is counted, the one that ends with the input included.
NoMatchLost ==
    pc = "done" /\ input_size % BlockSize # 0 /\ cc_size > 0 /\ ~ cc_list[0].star =>
        matched >= Cardinality(MatchEnds(cc_list, cc_size, mem, 0, input_size))

\* The scanner does what MatchCounter promises, and ends.
Counter == INSTANCE MatchCounter WITH
    scanned <- i,
    count <- matched,
    status <- IF pc \in {"done", "failed"} THEN pc ELSE "running"
CountsMatches == Counter!Spec
==============================================================================
