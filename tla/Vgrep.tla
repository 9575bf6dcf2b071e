--------------------------------- MODULE Vgrep ---------------------------------
(***************************************************************************)
(* tools/vgrep.cc: the matcher that keeps whole bit streams, one for each  *)
(* item's class and one for each marker, and applies an item to all of the *)
(* input at once.                                                          *)
(***************************************************************************)
EXTENDS BitStream, Matching

CONSTANTS
    MaxItems,     \* bound: items of a pattern
    MaxInput      \* bound: bytes of the input

ASSUME BoundsAssumption == MaxItems \in Nat /\ MaxInput \in Nat

VARIABLES
    cc_list,           \* the parsed pattern
    cc_size,           \* cc_list.size()
    input_size,        \* input.length()
    input,             \* the bytes of the input
    cc_bit_streams,    \* the positions of the bytes in each item's class
    markers,           \* the markers before each item, and after the last one
    i,                 \* the next item
    matched,           \* what the program prints
    pc                 \* "classes", "markers", "done" or "aborted"

vars == <<cc_list, cc_size, input_size, input, cc_bit_streams, markers, i, matched, pc>>
arguments == <<cc_list, cc_size, input_size, input>>

Init ==
    /\ cc_size \in 0..MaxItems
    /\ cc_list \in [0..(cc_size - 1) -> Item]
    /\ input_size \in 0..MaxInput
    /\ input \in [0..(input_size - 1) -> Byte]
    /\ cc_bit_streams = [k \in 0..(cc_size - 1) |-> Zeros(BlocksFor(input_size))]
    /\ markers = [k \in 0..cc_size |-> Zeros(BlocksFor(input_size))]
    /\ i = 0
    /\ matched = 0
    /\ pc = "classes"

\* Every byte is matched against every class.
ClassStream(class) ==
    LET after[p \in 0..input_size] ==
            IF p = 0 THEN Zeros(BlocksFor(input_size))
            ELSE SetBit(after[p - 1], p - 1, input[p - 1] \in class)
    IN  after[input_size]

\* Then the first class is the first marker stream.
MatchClasses ==
    /\ pc = "classes"
    /\ cc_size > 0
    /\ cc_bit_streams' = [k \in 0..(cc_size - 1) |-> ClassStream(cc_list[k].class)]
    /\ markers' = [markers EXCEPT ![0] = cc_bit_streams'[0]]
    /\ pc' = "markers"
    /\ UNCHANGED <<arguments, i, matched>>

\* markers[0] = cc_bit_streams[0] where there is no stream.
AbortEmptyPattern ==
    /\ pc = "classes"
    /\ cc_size = 0
    /\ pc' = "aborted"
    /\ UNCHANGED <<arguments, cc_bit_streams, markers, i, matched>>

MatchStar ==
    /\ pc = "markers" /\ i < cc_size
    /\ cc_list[i].star
    /\ markers' = [markers EXCEPT ![i + 1] = MatchStarStream(markers[i], cc_bit_streams[i])]
    /\ i' = i + 1
    /\ UNCHANGED <<arguments, cc_bit_streams, matched, pc>>

Advance ==
    /\ pc = "markers" /\ i < cc_size
    /\ ~ cc_list[i].star
    /\ markers' = [markers EXCEPT ![i + 1] = AdvanceStream(markers[i], cc_bit_streams[i])]
    /\ i' = i + 1
    /\ UNCHANGED <<arguments, cc_bit_streams, matched, pc>>

PrintMatched ==
    /\ pc = "markers" /\ i = cc_size
    /\ matched' = PopCount(markers[cc_size])
    /\ pc' = "done"
    /\ UNCHANGED <<arguments, cc_bit_streams, markers, i>>

Exited == pc \in {"done", "aborted"} /\ UNCHANGED vars

Next ==
    \/ MatchClasses
    \/ AbortEmptyPattern
    \/ MatchStar
    \/ Advance
    \/ PrintMatched
    \/ Exited

Spec == Init /\ [][Next]_vars

(***************************************************************************)
(* Properties                                                              *)
(***************************************************************************)

Capacity == BlocksFor(input_size) * BlockSize

\* The input, and after it bytes of no class.
Padded == [p \in 0..Capacity |-> IF p < input_size THEN input[p] ELSE Nul]

\* After k items, the marker stream holds the ends of the texts they match,
\* wherever the blocks are cut.
MarkersAreEnds ==
    pc = "markers" =>
        \A k \in 1..i :
            Positions(markers[k]) =
                {p \in 0..(Capacity - 1) : Marked(cc_list, Padded, k, p)}

\* The matches printed are those of the pattern.  The match that ends with
\* the input has a position to be marked at when the last block has room.
PrintsMatches ==
    pc = "done" /\ ~ cc_list[0].star =>
        LET last == IF input_size % BlockSize = 0 THEN input_size - 1 ELSE input_size
        IN  matched = Cardinality(MatchEnds(cc_list, cc_size, Padded, 0, last))
================================================================================
