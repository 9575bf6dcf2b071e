------------------------------- MODULE LongWord -------------------------------
(***************************************************************************)
(* What a bit stream promises: it is one word as long as the stream, and   *)
(* its operations are those of a word.  The blocks it is cut into, the     *)
(* spare bits and the carries from one block to the next do not show.      *)
(***************************************************************************)
EXTENDS Integers

CONSTANT Size    \* bits of the word

INSTANCE BlockWord WITH BlockSize <- Size

VARIABLES word, other    \* the words, as the sets of their 1 bits

vars == <<word, other>>

Shifted(x) == ClearLast(ShiftLeftOne(x))
Sum(x, y) == ClearLast(Plus(x, y, FALSE))

Init == word = {} /\ other = {}

\* A bit can be set. (Asking for a 0 changes nothing.)
Set(pos) == word' = word \cup {pos} /\ UNCHANGED other

Combine ==
    /\ word' \in {word \cap other, word \cup other, SymDiff(word, other), Sum(word, other)}
    /\ UNCHANGED other

Shift == word' = Shifted(word) /\ UNCHANGED other

Advance == word' = Shifted(word \cap other) /\ UNCHANGED other

\* Every run of 1s of other in which a bit of word lies is marked from there
\* to the position after it.
MatchStar ==
    /\ word' = word \cup {p \in Payload : \E s \in word : s < p /\ s..(p - 1) \subseteq other}
    /\ UNCHANGED other

\* A bit of word in a run of 1s of other moves to the position after it.
ScanThru == word' = Sum(word, other) \ other /\ UNCHANGED other

Swap == word' = other /\ other' = word

Next ==
    \/ \E pos \in Payload : Set(pos)
    \/ Combine
    \/ Shift
    \/ Advance
    \/ MatchStar
    \/ ScanThru
    \/ Swap

Spec == Init /\ [][Next]_vars
===============================================================================
