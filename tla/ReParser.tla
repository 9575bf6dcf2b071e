------------------------------- MODULE ReParser -------------------------------
(***************************************************************************)
(* parser::ReParser: the cursor that turns the text of a pattern into a    *)
(* list of character classes.  One parser parses any number of patterns,   *)
(* one after the other (generator/main.cc keeps one for all of its own).   *)
(*                                                                         *)
(* A text is a sequence of characters without '\0'; reading at its end     *)
(* finds the '\0' that every C string ends with.                           *)
(***************************************************************************)
EXTENDS Integers, Sequences

CONSTANTS
    Char,        \* the characters of a pattern
    Open, Close, Dash, Asterisk,    \* '[', ']', '-' and '*'
    NulChar,     \* '\0'
    Pattern      \* the texts that are parsed

ASSUME CharAssumption ==
    /\ {Open, Close, Dash, Asterisk} \subseteq Char /\ NulChar \notin Char
    /\ Open \notin {Close, Dash, Asterisk} /\ Close \notin {Dash, Asterisk} /\ Dash # Asterisk
ASSUME PatternAssumption == Pattern \subseteq Seq(Char)

VARIABLES
    input,       \* input_
    pos,         \* pos_, counted from 1
    cc_list,     \* cc_list_
    result,      \* the ranges of the class being parsed
    pc           \* "idle", "parse", "range", "closed" or "aborted"

vars == <<input, pos, cc_list, result, pc>>

Eof(p) == p > Len(input)
At(p) == IF Eof(p) THEN NulChar ELSE input[p]
ForwardUnchecked(p) == p + 1    \* mutant: the end of the text is not tested
Forward(p) == IF Eof(p) THEN p ELSE p + 1
Match(p, c) == ~ Eof(p) /\ input[p] = c

\* parser::CC
CC(ranges, star) == [ranges |-> ranges, star |-> star]

Init ==
    /\ input = <<>>
    /\ pos = 1
    /\ cc_list = <<>>
    /\ result = <<>>
    /\ pc = "idle"

\* Mutant: the list of the pattern parsed before is kept.
ParseKeepsList ==
    /\ pc = "idle"
    /\ input' \in Pattern
    /\ pos' = 1
    /\ pc' = "parse"
    /\ UNCHANGED <<cc_list, result>>

\* parse(const char*): the cursor and the list start afresh.
Parse ==
    /\ pc = "idle"
    /\ input' \in Pattern
    /\ pos' = 1
    /\ cc_list' = <<>>
    /\ pc' = "parse"
    /\ UNCHANGED result

\* The item whose text ends just before p is added, with the star at p if
\* there is one.
AddItem(ranges, p) ==
    /\ cc_list' = Append(cc_list, CC(ranges, Match(p, Asterisk)))
    /\ pos' = IF Match(p, Asterisk) THEN Forward(p) ELSE p

SingleCharacter ==
    /\ pc = "parse"
    /\ ~ Eof(pos)
    /\ ~ Match(pos, Open)
    /\ AddItem(<< <<At(pos), At(pos)>> >>, Forward(pos))
    /\ UNCHANGED <<input, result, pc>>

StartRange ==
    /\ pc = "parse"
    /\ Match(pos, Open)
    /\ pos' = Forward(pos)
    /\ result' = <<>>
    /\ pc' = "range"
    /\ UNCHANGED <<input, cc_list>>

\* Mutant: with assertions compiled out, the cursor moves once.
ToHighBoundNoAssert(p) == Forward(p)

\* assert(forward_match('-')); forward();
ToHighBound(p) == Forward(Forward(p))

\* One turn of the loop of parseRanges.
ParseRange ==
    /\ pc = "range"
    /\ Match(Forward(pos), Dash)
    /\ LET high == ToHighBound(pos)
       IN  /\ result' = Append(result, <<At(pos), At(high)>>)
           /\ pos' = Forward(high)
           /\ pc' = IF Match(pos', Close) THEN "closed" ELSE "range"
    /\ UNCHANGED <<input, cc_list>>

\* Mutant: a failed assertion is ignored and the loop goes on.
AssertIgnored == pc = "range" /\ ~ Match(Forward(pos), Dash) /\ UNCHANGED vars

\* The assertion fails: the program aborts.
AssertFails ==
    /\ pc = "range"
    /\ ~ Match(Forward(pos), Dash)
    /\ pc' = "aborted"
    /\ UNCHANGED <<input, pos, cc_list, result>>

EndRange ==
    /\ pc = "closed"
    /\ AddItem(result, Forward(pos))
    /\ pc' = "parse"
    /\ UNCHANGED <<input, result>>

Return ==
    /\ pc = "parse"
    /\ Eof(pos)
    /\ pc' = "idle"
    /\ UNCHANGED <<input, pos, cc_list, result>>

Aborted == pc = "aborted" /\ UNCHANGED vars

Step == SingleCharacter \/ StartRange \/ ParseRange \/ AssertFails \/ EndRange \/ Return

Next == Parse \/ Step \/ Aborted

\* A call runs by itself; nobody has to make one.
Spec == Init /\ [][Next]_vars /\ WF_vars(Step)

(***************************************************************************)
(* The grammar: an item is a character other than '[', or ranges between   *)
(* brackets, and takes the '*' that follows it.                            *)
(***************************************************************************)
Bracketed(p, q) ==
    /\ q <= Len(input)
    /\ input[p] = Open /\ input[q] = Close
    /\ q - p >= 4 /\ (q - p) % 3 = 1
    /\ \A m \in (p + 1)..(q - 1) :
           CASE (m - p) % 3 = 1 -> m = p + 1 \/ input[m] # Close
             [] (m - p) % 3 = 2 -> input[m] = Dash
             [] OTHER -> TRUE

\* The item of the text p..q-1 is c.
ItemText(p, q, c) ==
    LET last == IF c.star THEN q - 2 ELSE q - 1
    IN  /\ p <= last
        /\ IF c.star THEN Match(last + 1, Asterisk) ELSE ~ Match(q, Asterisk)
        /\ \/ input[p] # Open /\ last = p /\ c.ranges = << <<input[p], input[p]>> >>
           \/ /\ Bracketed(p, last)
              /\ c.ranges = [n \in 1..((last - p - 1) \div 3) |->
                                <<input[p + 3 * n - 2], input[p + 3 * n]>>]

WellFormedFrom[p \in 1..(Len(input) + 1)] ==
    \/ p > Len(input)
    \/ input[p] # Open /\ WellFormedFrom[p + 1]
    \/ \E q \in p..Len(input) : Bracketed(p, q) /\ WellFormedFrom[q + 1]

(***************************************************************************)
(* Properties                                                              *)
(***************************************************************************)

\* The cursor never leaves the text and its final '\0'.
TypeOK ==
    /\ input \in Pattern \cup {<<>>}
    /\ pos \in 1..(Len(input) + 1)
    /\ \A k \in 1..Len(cc_list) : cc_list[k].star \in BOOLEAN /\ Len(cc_list[k].ranges) > 0
    /\ pc \in {"idle", "parse", "range", "closed", "aborted"}

\* parse returns the items of the text, all of them and in order, each with
\* its ranges and its star, whatever this parser parsed before.
ParsesGrammar ==
    pc = "idle" =>
        \E cut \in [0..Len(cc_list) -> 1..(Len(input) + 1)] :
            /\ cut[0] = 1 /\ cut[Len(cc_list)] = Len(input) + 1
            /\ \A k \in 1..Len(cc_list) : ItemText(cut[k - 1], cut[k], cc_list[k])

\* A text of the grammar is never refused.
AbortsIfIllFormed == pc = "aborted" => ~ WellFormedFrom[1]

\* Every call ends: it returns, or a bracket without its end is refused.
ParseEnds == pc # "idle" ~> pc \in {"idle", "aborted"}
===============================================================================
