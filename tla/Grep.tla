--------------------------------- MODULE Grep ---------------------------------
(***************************************************************************)
(* The three tools that search a file for a pattern, run one after the     *)
(* other on the same file and text: tools/vgrep_block.cc and vgrep_llvm.cc *)
(* call a scanner, tools/vgrep.cc matches whole bit streams.  Each parses  *)
(* the text with a ReParser of its own.  The scanners have the classes     *)
(* compiled and evaluated on transposed bytes; vgrep asks CC::match.       *)
(*                                                                         *)
(* This module composes the specifications of the parts.  The tools do not *)
(* overlap, so their matchers share the variables of the same names.       *)
(***************************************************************************)
EXTENDS CharacterClass, FiniteSets

CONSTANTS
    Char, Open, Close, Dash, Asterisk,    \* see ReParser
    Regex,          \* the items each text stands for; none if it is ill-formed
    FileBytes,      \* the bytes files are made of
    BlockSize,
    MaxItems,       \* bounds: items of a pattern and bytes of a file
    MaxInput

ASSUME BytesAssumption == FileBytes \subseteq Byte

VARIABLES
    file, text,        \* the arguments of the tools
    tool,              \* the one that runs
    stage,             \* "start", "parse" or "match"
    printed,           \* how each tool ended
    \* ReParser:
    pos, parsed, result, parsing,
    \* the scanners and vgrep:
    cc_list, cc_size, input_size, i, matched, pc,
    mem, item, cc, marker, carry, runFnPtr,
    input, cc_bit_streams, markers

parserVars == <<pos, parsed, result, parsing>>
matcherVars == <<cc_list, cc_size, input_size, i, matched, pc>>
scannerVars == <<mem, item, cc, marker, carry, runFnPtr>>
vgrepVars == <<input, cc_bit_streams, markers>>
arguments == <<file, text>>
vars == <<arguments, tool, stage, printed, parserVars, matcherVars, scannerVars, vgrepVars>>

Nul == 0
Class == SUBSET (Byte \ {Nul})

Parser == INSTANCE ReParser WITH
    input <- text, cc_list <- parsed, pc <- parsing, Pattern <- DOMAIN Regex, NulChar <- Nul
CppScanner == INSTANCE ParabixCpp
LlvmScanner == INSTANCE ParabixLlvm
Streams == INSTANCE Vgrep

Tools == <<"vgrep_block", "vgrep_llvm", "vgrep">>

Init ==
    /\ \E size \in 0..MaxInput : file \in [0..(size - 1) -> FileBytes]
    /\ text \in DOMAIN Regex
    /\ tool = 1
    /\ stage = "start"
    /\ printed = <<>>
    /\ pos = 1 /\ parsed = <<>> /\ result = <<>> /\ parsing = "idle"
    /\ cc_list = <<>> /\ cc_size = 0 /\ input_size = 0 /\ i = 0 /\ matched = 0 /\ pc = "none"
    /\ mem = <<>> /\ item = 0 /\ cc = <<>> /\ marker = <<>> /\ carry = <<>> /\ runFnPtr = FALSE
    /\ input = <<>> /\ cc_bit_streams = <<>> /\ markers = <<>>

Running(t) == tool <= Len(Tools) /\ Tools[tool] = t

(***************************************************************************)
(* Parsing                                                                 *)
(***************************************************************************)
StartParse ==
    /\ tool <= Len(Tools) /\ stage = "start"
    /\ Parser!Parse /\ text' = text
    /\ stage' = "parse"
    /\ UNCHANGED <<file, tool, printed, matcherVars, scannerVars, vgrepVars>>

Parse ==
    /\ stage = "parse"
    /\ Parser!Step
    /\ UNCHANGED <<file, tool, stage, printed, matcherVars, scannerVars, vgrepVars>>

(***************************************************************************)
(* Matching.  items is the pattern as the matchers see it, a class being   *)
(* the set of the bytes it accepts.                                        *)
(***************************************************************************)
Parsed == stage = "parse" /\ parsing = "idle"

CanCompile == \A k \in 1..Len(parsed) : \A r \in ToSet(parsed[k].ranges) : ~ NoCommonBit(r)

Compiled(ranges) == Execute(BasisWords, compile(ranges))

\* The locals of a matcher, fresh, as Init of its specification has them.
Call(class, control) ==
    /\ cc_size' = Len(parsed)
    /\ cc_list' = [k \in 0..(Len(parsed) - 1) |->
                      [class |-> class[k + 1], star |-> parsed[k + 1].star]]
    /\ input_size' = Cardinality(DOMAIN file)
    /\ i' = 0
    /\ matched' = 0
    /\ pc' = control
    /\ stage' = "match"
    /\ UNCHANGED <<arguments, tool, printed, parserVars>>

\* The memory of a scanner: the file, its '\0', and what lies behind.
CallScanner(control) ==
    /\ Parsed /\ CanCompile
    /\ Call([k \in 1..Len(parsed) |-> Compiled(parsed[k].ranges)], control)
    /\ mem' \in {[p \in 0..(CppScanner!Blocks(input_size') * BlockSize) |->
                     IF p < input_size' THEN file[p] ELSE IF p = input_size' THEN Nul ELSE behind] :
                         behind \in FileBytes \cup {Nul}}
    /\ item' = 0
    /\ cc' = [k \in 0..(cc_size' - 1) |-> {}]
    /\ marker' = [k \in 0..cc_size' |-> {}]
    /\ carry' = [k \in 0..(cc_size' - 1) |-> FALSE]
    /\ runFnPtr' = FALSE
    /\ UNCHANGED vgrepVars

CallCpp == Running("vgrep_block") /\ CallScanner("block")

CallLlvm == Running("vgrep_llvm") /\ CallScanner("compile")

MatchStreams ==
    /\ Running("vgrep") /\ Parsed
    /\ Call([k \in 1..Len(parsed) |-> Accepted(parsed[k].ranges)], "classes")
    /\ input' = file
    /\ cc_bit_streams' = [k \in 0..(cc_size' - 1) |-> Streams!Zeros(Streams!BlocksFor(input_size'))]
    /\ markers' = [k \in 0..cc_size' |-> Streams!Zeros(Streams!BlocksFor(input_size'))]
    /\ UNCHANGED scannerVars

Step ==
    /\ stage = "match"
    /\ \/ Running("vgrep_block") /\ CppScanner!CppStep /\ UNCHANGED <<runFnPtr, vgrepVars>>
       \/ Running("vgrep_llvm") /\ LlvmScanner!LlvmStep /\ UNCHANGED vgrepVars
       \/ Running("vgrep") /\ Streams!Next /\ pc \in {"classes", "markers"} /\ UNCHANGED scannerVars
    /\ UNCHANGED <<arguments, tool, stage, printed, parserVars>>

(***************************************************************************)
(* The end of a tool                                                       *)
(***************************************************************************)
\* The process ends and nothing of it is left.
End(how) ==
    /\ printed' = Append(printed, how)
    /\ tool' = tool + 1
    /\ stage' = "start"
    /\ pos' = 1 /\ parsed' = <<>> /\ result' = <<>> /\ parsing' = "idle"
    /\ cc_list' = <<>> /\ cc_size' = 0 /\ input_size' = 0 /\ i' = 0 /\ matched' = 0 /\ pc' = "none"
    /\ mem' = <<>> /\ item' = 0 /\ cc' = <<>> /\ marker' = <<>> /\ carry' = <<>> /\ runFnPtr' = FALSE
    /\ input' = <<>> /\ cc_bit_streams' = <<>> /\ markers' = <<>>
    /\ UNCHANGED arguments

\* std::cout << "matched = " << ...
PrintMatched ==
    /\ stage = "match" /\ pc = "done"
    /\ End([by |-> "printed", matched |-> matched, items |-> parsed])

\* Refused by the parser.
Refuse ==
    /\ stage = "parse" /\ parsing = "aborted"
    /\ End([by |-> "refused", matched |-> 0, items |-> parsed])

\* Stopped while compiling a class or in a matcher.
Crash ==
    /\ \/ Parsed /\ tool < 3 /\ ~ CanCompile
       \/ stage = "match" /\ pc \in {"failed", "aborted"}
    /\ End([by |-> "crashed", matched |-> 0, items |-> parsed])

Exited == tool > Len(Tools) /\ UNCHANGED vars

Next ==
    \/ StartParse
    \/ Parse
    \/ CallCpp
    \/ CallLlvm
    \/ MatchStreams
    \/ Step
    \/ PrintMatched
    \/ Refuse
    \/ Crash
    \/ Exited

Spec == Init /\ [][Next]_vars

(***************************************************************************)
(* Properties                                                              *)
(***************************************************************************)
Aligned == Cardinality(DOMAIN file) % BlockSize = 0
Plain(items) == \A k \in 1..Len(items) : Ascending(items[k].ranges)

\* What a tool prints for a file of whole blocks is the number of positions
\* before the end of the file where a match of the regular expression ends:
\* the text, parsed, compiled, evaluated on transposed bytes and carried from
\* block to block, means what Regex says.
PrintedIsRegex ==
    LET list == [k \in 0..(Len(Regex[text]) - 1) |-> Regex[text][k + 1]]
    IN  stage = "match" /\ pc = "done" /\ Aligned /\ cc_size > 0 /\ Plain(parsed) =>
            /\ cc_size = Len(Regex[text])
            /\ ~ list[0].star =>
                   matched = Cardinality(Streams!MatchEnds(list, cc_size, file, 0, input_size - 1))

\* The tools refuse the same texts, those that are no regular expression.
\* When they print numbers, and no range goes downwards, the numbers are the
\* same for a file of whole blocks; for others the scanners may count more, in
\* what lies behind the file, but never less.
ToolsAgree ==
    Len(printed) = Len(Tools) =>
        LET streams == printed[3]
            wellFormed == Regex[text] # <<>> \/ text = <<>>
        IN  \A t \in 1..2 :
                /\ printed[t].by = "refused" <=> ~ wellFormed
                /\ streams.by = "refused" <=> ~ wellFormed
                /\ printed[t].by = "printed" /\ streams.by = "printed" /\ Plain(streams.items) =>
                       /\ printed[t].matched >= streams.matched
                       /\ Aligned => printed[t].matched = streams.matched
===============================================================================
