------------------------------ MODULE ClassMeaning ------------------------------
(***************************************************************************)
(* What compiling the character classes of a pattern promises: the loop of *)
(* ParabixCompiler::compileRun and CCCompiler::compile with every tree     *)
(* replaced by the set of the bytes it accepts.  The decomposition of a    *)
(* range is that of CCCompiler, comparison by comparison; the rewriting of *)
(* trees, the code emitted for them and its sharing are left to            *)
(* ClassCodegen, which implements this.                                    *)
(***************************************************************************)
EXTENDS ByteRange

CONSTANT Patterns    \* the patterns compiled: lists of classes, each a list of ranges

ASSUME PatternsAssumption == Patterns \subseteq Seq(Seq(Byte \X Byte) \ {<<>>})

VARIABLES
    cc_list,    \* the pattern
    i,          \* the item being compiled
    n,          \* the ranges of it compiled so far
    meaning,    \* what the tree they were compiled to accepts
    classes,    \* what the class word of each item stands for
    pc          \* "compile", "done" or "aborted"

meaningVars == <<cc_list, i, n, meaning, classes, pc>>

(***************************************************************************)
(* The meaning of the trees of CCCompiler                                  *)
(***************************************************************************)
One(b) == {v \in Byte : BitSet(v, b)}

\* The bytes that agree with pattern on its bits low_bit and above.
BitPattern(pattern, low_bit) ==
    {v \in Byte : \A b \in low_bit..(EncodingBits - 1) : BitSet(v, b) <=> BitSet(pattern, b)}

\* One step of createGERange on bound m: two bits, or one, and the rest of the
\* bound below them.  ge has the meaning for fewer bits.
GEStep(ge, bits, m) ==
    LET pair == bits % 2 = 0
        top == m \div 2^(bits - 2)
        high == One(bits - 1)
    IN  IF bits = 0 THEN Byte
        ELSE IF pair /\ top = 0 THEN (high \cup One(bits - 2)) \cup ge[bits - 2][m]
        ELSE IF pair /\ top = 3 THEN (high \cap One(bits - 2)) \cap ge[bits - 2][m - 3 * 2^(bits - 2)]
        ELSE IF BitSet(m, bits - 1) THEN high \cap ge[bits - 1][m - 2^(bits - 1)]
        ELSE high \cup ge[bits - 1][m]

GERange[bits \in 0..EncodingBits] == [m \in Byte |-> GEStep(GERange, bits, m)]

\* Mutant: the bound itself is left out.
LTRange(bits, m) == IF m + 1 = 2^bits THEN Byte ELSE Byte \ GERange[bits][m]

LERange(bits, m) == IF m + 1 = 2^bits THEN Byte ELSE Byte \ GERange[bits][m + 1]

Selection(if, true, false) == (if \cap true) \cup (false \ if)

Between(low, high) ==
    LET count == DifferingBits(low, high)
        mask == 2^(count - 1)
    IN  BitPattern(low, count)
            \cap IF count = 0 THEN Byte
                 ELSE Selection(One(count - 1), LERange(count - 1, high % mask),
                                GERange[count - 1][low % mask])

SingleOrRange(range) ==
    IF range[1] # range[2] THEN Between(range[1], range[2]) ELSE BitPattern(range[1], 0)

(***************************************************************************)
(* The loop                                                                *)
(***************************************************************************)
MeaningInit ==
    /\ cc_list \in Patterns
    /\ i = 1
    /\ n = 0
    /\ meaning = Byte
    /\ classes = <<>>
    /\ pc = "compile"

InClass == pc = "compile" /\ i <= Len(cc_list) /\ n < Len(cc_list[i])
NextOne == cc_list[i][n + 1]

\* The first range of a class replaces what was compiled before, the others
\* are added to it.
CompileRange ==
    /\ InClass /\ ~ NoCommonBit(NextOne)
    /\ meaning' = IF n = 0 THEN SingleOrRange(NextOne) ELSE meaning \cup SingleOrRange(NextOne)
    /\ n' = n + 1
    /\ UNCHANGED <<cc_list, i, classes, pc>>

\* A range whose bounds have no bit in common stops the compiler.
Abort ==
    /\ InClass /\ NoCommonBit(NextOne)
    /\ pc' = "aborted"
    /\ UNCHANGED <<cc_list, i, n, meaning, classes>>

FinishClass ==
    /\ pc = "compile" /\ i <= Len(cc_list) /\ n = Len(cc_list[i])
    /\ classes' = Append(classes, meaning)
    /\ i' = i + 1
    /\ n' = 0
    /\ UNCHANGED <<cc_list, meaning, pc>>

Finish ==
    /\ pc = "compile" /\ i > Len(cc_list)
    /\ pc' = "done"
    /\ UNCHANGED <<cc_list, i, n, meaning, classes>>

MeaningTerminated == pc \in {"done", "aborted"} /\ UNCHANGED meaningVars

MeaningNext == CompileRange \/ Abort \/ FinishClass \/ Finish \/ MeaningTerminated

MeaningSpec == MeaningInit /\ [][MeaningNext]_meaningVars

(***************************************************************************)
(* Properties                                                              *)
(***************************************************************************)
\* No pattern of ASCII characters stops the compiler: it has no bit to test
\* only when a bound is a negative char.
AsciiNeverAborts ==
    pc = "aborted" => Signed(NextOne[1]) < 0 \/ Signed(NextOne[2]) < 0

\* The bytes that a class with ascending ranges is compiled to are those that
\* CC::match accepts: the shifts, the masks and the comparisons split two bits
\* at a time, on unsigned bits, lose none of a range of signed characters and
\* add none.
CompiledIsMatch ==
    n > 0 =>
        LET ranges == SubSeq(cc_list[i], 1, n)
        IN  Ascending(ranges) => meaning = Accepted(ranges)

\* So do the class words of all items.  This is the half of the inductive
\* invariant that is about the items done.
ClassesAreMatch ==
    \A k \in 1..Len(classes) : Ascending(cc_list[k]) => classes[k] = Accepted(cc_list[k])
=================================================================================
