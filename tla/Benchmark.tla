------------------------------- MODULE Benchmark -------------------------------
(***************************************************************************)
(* tools/benchmark.cc on one input file: four matchers count the matches   *)
(* of one pattern, "a[0-9]*z", and the counts are compared.  The calls run *)
(* one after the other, so the two scanners' locals share one frame, the   *)
(* variables of ParabixBlocks, which every call finds fresh.  The input is *)
(* what generator/main.cc writes: its size is a multiple of the block's.   *)
(***************************************************************************)
EXTENDS ParabixCpp, ParabixLlvm, Sequences

CONSTANTS
    Letter,     \* the class of 'a'
    Digit,      \* the class of [0-9]
    Last        \* the class of 'z'

ASSUME PatternAssumption == {Letter, Digit, Last} \subseteq Class /\ MaxItems >= 3
\* The automaton's transitions are written for three disjoint classes.
ASSUME DisjointAssumption ==
    Letter \cap Digit = {} /\ Letter \cap Last = {} /\ Digit \cap Last = {}

VARIABLES
    j,          \* the next algorithm, 1..4; 5 when all have run
    results,    \* what the algorithms before it returned
    control     \* "main", "call", or how the program ended

benchVars == <<llvmVars, j, results, control>>

Pattern == <<[class |-> Letter, star |-> FALSE],
             [class |-> Digit, star |-> TRUE],
             [class |-> Last, star |-> FALSE]>>

BenchInit ==
    /\ cc_size = 3
    /\ cc_list = [k \in 0..2 |-> Pattern[k + 1]]
    /\ Init
    /\ input_size % BlockSize = 0
    /\ pc = "done"
    /\ runFnPtr = FALSE
    /\ j = 1
    /\ results = <<>>
    /\ control = "main"

(***************************************************************************)
(* std::regex, an external matcher: leftmost matches, each search begun    *)
(* where the last match ended.                                             *)
(***************************************************************************)
RegexMatch(s, e) ==
    /\ s + 2 <= e
    /\ mem[s] \in Letter
    /\ \A q \in (s + 1)..(e - 2) : mem[q] \in Digit
    /\ mem[e - 1] \in Last

RegexCount ==
    LET from[p \in 0..input_size] ==
            LET found == {m \in (p..input_size) \X (p..input_size) : RegexMatch(m[1], m[2])}
            IN  IF found = {} THEN 0
                ELSE LET first == CHOOSE m \in found : \A o \in found : m[1] <= o[1]
                     IN  1 + from[first[2]]
    IN  from[0]

StdRegex ==
    /\ control = "main" /\ j = 1
    /\ results' = Append(results, RegexCount)
    /\ j' = 2
    /\ UNCHANGED <<llvmVars, control>>

(***************************************************************************)
(* DFA(): four states, of which 3 is final and is left for 0 at once.      *)
(***************************************************************************)
\* Mutant: an 'a' starts a match from the first state only.
NextStateNoRestart(state, c) ==
    CASE c \in Letter /\ state = 0 -> 1
      [] c \in Digit /\ state \in 1..2 -> 2
      [] c \in Last /\ state \in 1..2 -> 3
      [] OTHER -> 0

NextState(state, c) ==
    CASE c \in Letter /\ state \in 0..2 -> 1
      [] c \in Digit /\ state \in 1..2 -> 2
      [] c \in Last /\ state \in 1..2 -> 3
      [] OTHER -> 0

DfaCount ==
    LET after[p \in 0..input_size] ==
            IF p = 0 THEN [state |-> 0, matched |-> 0]
            ELSE LET state == NextState(after[p - 1].state, mem[p - 1])
                 IN  IF state = 3
                     THEN [state |-> 0, matched |-> after[p - 1].matched + 1]
                     ELSE [state |-> state, matched |-> after[p - 1].matched]
    IN  after[input_size].matched

Dfa ==
    /\ control = "main" /\ j = 2
    /\ results' = Append(results, DfaCount)
    /\ j' = 3
    /\ UNCHANGED <<llvmVars, control>>

\* Mutant: the carries of the last call are found again.
CallKeepsCarry ==
    /\ control = "main" /\ j \in 3..4
    /\ i' = 0
    /\ item' = 0
    /\ cc' = [k \in 0..(cc_size - 1) |-> {}]
    /\ marker' = [k \in 0..cc_size |-> {}]
    /\ matched' = 0
    /\ pc' = IF j = 3 THEN "block" ELSE "compile"
    /\ runFnPtr' = FALSE
    /\ control' = "call"
    /\ UNCHANGED <<arguments, carry, j, results>>

\* parabix_cpp or parabix_llvm is called: its locals are fresh.
Call ==
    /\ control = "main" /\ j \in 3..4
    /\ i' = 0
    /\ item' = 0
    /\ cc' = [k \in 0..(cc_size - 1) |-> {}]
    /\ marker' = [k \in 0..cc_size |-> {}]
    /\ carry' = [k \in 0..(cc_size - 1) |-> FALSE]
    /\ matched' = 0
    /\ pc' = IF j = 3 THEN "block" ELSE "compile"
    /\ runFnPtr' = FALSE
    /\ control' = "call"
    /\ UNCHANGED <<arguments, j, results>>

\* The called scanner makes a step.
Scan ==
    /\ control = "call"
    /\ \/ j = 3 /\ CppStep /\ UNCHANGED runFnPtr
       \/ j = 4 /\ LlvmStep
    /\ UNCHANGED <<j, results, control>>

\* Mutant: the next algorithm is not called.
ReturnedToSame ==
    /\ control = "call"
    /\ pc = "done"
    /\ results' = Append(results, matched)
    /\ control' = "main"
    /\ UNCHANGED <<llvmVars, j>>

Returned ==
    /\ control = "call"
    /\ pc = "done"
    /\ results' = Append(results, matched)
    /\ j' = j + 1
    /\ control' = "main"
    /\ UNCHANGED llvmVars

\* Mutant: the call is made again.
Retry ==
    /\ control = "call"
    /\ pc = "failed"
    /\ control' = "main"
    /\ UNCHANGED <<llvmVars, j, results>>

\* An exception that main does not catch, or an abort.
Terminate ==
    /\ control = "call"
    /\ pc = "failed"
    /\ control' = "terminated"
    /\ UNCHANGED <<llvmVars, j, results>>

\* "results must be same", or exit(1).
Compare ==
    /\ control = "main" /\ j = 5
    /\ control' = IF \A l \in 1..3 : results[l] = results[l + 1] THEN "agreed" ELSE "differ"
    /\ UNCHANGED <<llvmVars, j, results>>

Exited == control \in {"terminated", "agreed", "differ"} /\ UNCHANGED benchVars

BenchNext ==
    \/ StdRegex
    \/ Dfa
    \/ Call
    \/ Scan
    \/ Returned
    \/ Terminate
    \/ Compare
    \/ Exited

\* One thread, which never waits for anything.
BenchSpec == BenchInit /\ [][BenchNext]_benchVars /\ WF_benchVars(BenchNext)

(***************************************************************************)
(* Properties                                                              *)
(***************************************************************************)

\* The benchmark's own variables have their types, the scanners' theirs.
BenchTypeOK ==
    /\ TypeOK
    /\ runFnPtr \in BOOLEAN
    /\ j \in 1..5
    /\ results \in Seq(Nat) /\ Len(results) = j - 1
    /\ control \in {"main", "call", "terminated", "agreed", "differ"}

\* The hand-written automaton counts what std::regex counts: falling back to
\* state 0, or to 1 on an 'a', never loses a match nor counts one twice.
DfaIsRegex == Len(results) >= 2 => results[2] = results[1]

MatchAtEnd == \E s \in 0..input_size : RegexMatch(s, input_size)

\* Both scanners return the matches std::regex counts but for one that ends
\* with the input: on a whole number of blocks, that one stays in a carry
\* that no block reads.
OnlyMatchAtEndMissed ==
    \A l \in 3..Len(results) :
        results[l] = results[1] - (IF MatchAtEnd THEN 1 ELSE 0)

\* The benchmark ends.
BenchmarkEnds == <>(control \in {"terminated", "agreed", "differ"})

\* "results must be same" (tools/benchmark.cc): the program never finds that
\* they are not.
ResultsMustBeSame == control # "differ"
================================================================================
