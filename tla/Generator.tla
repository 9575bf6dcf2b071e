------------------------------- MODULE Generator -------------------------------
(***************************************************************************)
(* generate of generator/main.cc: random strings, each put together from a *)
(* list of inputs, some of which are left out by chance.  A character is   *)
(* what the pattern a[0-9]*z makes of it: "a", "z", another letter "b", a  *)
(* digit "0", or "_".                                                      *)
(***************************************************************************)
EXTENDS Integers, Sequences, FiniteSets, SequencesExt

CONSTANTS
    Times,       \* times: the strings of one call, 5000 in the code
    MaxCount     \* max_count of the digits, 5 in the code

ASSUME TimesAssumption == Times \in Nat /\ MaxCount \in Nat

\* A GeneratorInput: the ranges of its pattern, and its flags.
Sometimes(ranges) == [ranges |-> ranges, star |-> FALSE, random |-> TRUE]
Once(ranges) == [ranges |-> ranges, star |-> FALSE, random |-> FALSE]
Digits == [ranges |-> <<{"0"}>>, star |-> TRUE, random |-> FALSE]

\* Mutant: the last character of the match is left out by chance.
z_at_random ==
    <<Sometimes(<<{"a", "b", "z"}, {"b"}>>), Once(<<{"a"}>>), Digits, Sometimes(<<{"z"}>>),
      Sometimes(<<{"a", "b", "z"}, {"b"}>>), Sometimes(<<{"_"}>>)>>

\* [a-zA-Z]? a [0-9]* z [a-zA-Z]? _?
always_matching_pattern ==
    <<Sometimes(<<{"a", "b", "z"}, {"b"}>>), Once(<<{"a"}>>), Digits, Once(<<{"z"}>>),
      Sometimes(<<{"a", "b", "z"}, {"b"}>>), Sometimes(<<{"_"}>>)>>

\* [a-zA-Z]? [a-d] [0-9]* [x-z] [a-zA-Z]? _?
randomly_matching_pattern ==
    <<Sometimes(<<{"a", "b", "z"}, {"b"}>>), Once(<<{"a", "b"}>>), Digits, Once(<<{"b", "z"}>>),
      Sometimes(<<{"a", "b", "z"}, {"b"}>>), Sometimes(<<{"_"}>>)>>

\* [b-zA-Z]? [b-d] [0-9]* [x-y] [a-yA-Z]? _?
never_matching_pattern ==
    <<Sometimes(<<{"b", "z"}, {"b"}>>), Once(<<{"b"}>>), Digits, Once(<<{"b"}>>),
      Sometimes(<<{"a", "b"}, {"b"}>>), Sometimes(<<{"_"}>>)>>

VARIABLES
    generator_inputs,    \* the list generate is called with
    next,                \* the input the loop is at
    generated,           \* the string so far
    output               \* the strings

vars == <<generator_inputs, next, generated, output>>

Init ==
    /\ generator_inputs \in
           {always_matching_pattern, randomly_matching_pattern, never_matching_pattern}
    /\ next = 1
    /\ generated = <<>>
    /\ output = <<>>

InString == Len(output) < Times /\ next <= Len(generator_inputs)
Input == generator_inputs[next]

\* One range of the pattern, and that many characters of it.
Push(count) ==
    /\ \E index \in 1..Len(Input.ranges) :
           \E characters \in [1..count -> Input.ranges[index]] :
               generated' = generated \o characters
    /\ next' = next + 1
    /\ UNCHANGED <<generator_inputs, output>>

LeaveOut ==
    /\ InString /\ Input.random
    /\ next' = next + 1
    /\ UNCHANGED <<generator_inputs, generated, output>>

PushOne == InString /\ ~ Input.star /\ Push(1)

PushStar == InString /\ Input.star /\ \E count \in 0..MaxCount : Push(count)

EmplaceBack ==
    /\ Len(output) < Times /\ next > Len(generator_inputs)
    /\ output' = Append(output, generated)
    /\ generated' = <<>>
    /\ next' = 1
    /\ UNCHANGED generator_inputs

Returned == Len(output) = Times /\ UNCHANGED vars

Next == LeaveOut \/ PushOne \/ PushStar \/ EmplaceBack \/ Returned

Spec == Init /\ [][Next]_vars

(***************************************************************************)
(* Properties                                                              *)
(***************************************************************************)
\* The matches of a[0-9]*z in s: first and last position.
MatchesIn(s) ==
    {m \in (1..Len(s)) \X (1..Len(s)) :
        /\ m[1] < m[2] /\ s[m[1]] = "a" /\ s[m[2]] = "z"
        /\ \A p \in (m[1] + 1)..(m[2] - 1) : s[p] = "0"}

\* The strings one after the other, as they are written.
Joined(strings) == FoldLeft(LAMBDA s, part : s \o part, <<>>, strings)

\* Each string of the first list has exactly one match, whatever was left out
\* of it or put around it; no string of the last list has one.
StringMatches ==
    \A k \in 1..Len(output) :
        LET matches == Cardinality(MatchesIn(output[k]))
        IN  /\ generator_inputs = always_matching_pattern => matches = 1
            /\ generator_inputs = never_matching_pattern => matches = 0

\* The strings are written one after the other.  The only matches this adds
\* are an "a" at the end of one and a "z" at the start of the next: they make
\* matches even of strings of the last list, but none that is longer.
JointMatches ==
    LET text == Joined(output)
        End(k) == Len(Joined(SubSeq(output, 1, k)))
    IN  \A m \in MatchesIn(text) : \A k \in 1..Len(output) :
            m[1] <= End(k) /\ End(k) < m[2] => m = <<End(k), End(k) + 1>>
================================================================================
