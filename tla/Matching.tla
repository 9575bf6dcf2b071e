------------------------------- MODULE Matching -------------------------------
(***************************************************************************)
(* Patterns, and what it means for one to match: the reference that the    *)
(* scanners' bit tricks are measured against.  A pattern is the list of    *)
(* character classes that ReParser::parse returns; each is matched once or *)
(* is starred.  Only what the scanners can tell apart is kept of a class:  *)
(* the set of the bytes it contains.                                       *)
(***************************************************************************)
EXTENDS Integers, FiniteSets

CONSTANTS
    Byte,     \* the values of an input byte
    Nul,      \* the byte '\0'
    Class     \* the character classes patterns are made of

ASSUME NulAssumption == Nul \in Byte
\* A pattern is a C string, so no literal and no ascending range of ASCII
\* bounds contains the byte that ends it (parser::ReParser::parse).
ASSUME ClassAssumption == Class \subseteq SUBSET (Byte \ {Nul})

Item == [class : Class, star : BOOLEAN]

\* An item takes the bytes s..e-1: exactly one of its class, or, when it is
\* starred, any number of them.
Segment(item, mem, s, e) ==
    IF item.star
    THEN s <= e /\ \A q \in s..(e - 1) : mem[q] \in item.class
    ELSE e = s + 1 /\ mem[s] \in item.class

\* The k first items of the list, laid end to end, cover the bytes from
\* cut[0] up to p.
Covers(list, mem, k, p, cut) ==
    /\ cut[k] = p
    /\ \A j \in 0..k : \A l \in j..k : cut[j] <= cut[l]
    /\ \A j \in 0..(k - 1) : Segment(list[j], mem, cut[j], cut[j + 1])

\* Some text that ends just before position p matches the k first items.
MatchEnd(list, mem, k, p) == \E cut \in [0..k -> 0..p] : Covers(list, mem, k, p, cut)

\* What the scanners mark at position p after k items.  They start from the
\* positions whose byte is in the first class (marker[0] = cc[0]), even when
\* the first item is starred.
Marked(list, mem, k, p) ==
    \E cut \in [0..k -> 0..p] :
        mem[cut[0]] \in list[0].class /\ Covers(list, mem, k, p, cut)

\* What carry[k] says at a block boundary e: item k is still matching there,
\* from a position already marked before the boundary.
Pending(list, mem, k, e) ==
    \E s \in 0..(e - 1) : Marked(list, mem, k, s) /\ Segment(list[k], mem, s, e)

\* The ends in lo..hi that a scan for the whole list counts.
MarkedEnds(list, size, mem, lo, hi) ==
    {p \in lo..hi : size > 0 /\ Marked(list, mem, size, p)}

\* The ends in lo..hi at which a match of the list ends.
MatchEnds(list, size, mem, lo, hi) == {p \in lo..hi : MatchEnd(list, mem, size, p)}
===============================================================================
