----------------------------- MODULE ClassCodegen -----------------------------
(***************************************************************************)
(* The character classes of a pattern on their way to machine code: the    *)
(* loop of ParabixCompiler::compileRun over the items, of which this       *)
(* module follows the class (ParabixLlvm follows the operation applied to  *)
(* it).  CCCompiler::compile makes a tree of the class, range by range;    *)
(* ExpressionBuilder::codegen emits instructions for the tree, and shares, *)
(* from the first item to the last, the values of trees seen before.       *)
(*                                                                         *)
(* The code is a sequence of instructions; a value is the place of the     *)
(* instruction that computes it.                                           *)
(***************************************************************************)
EXTENDS CharacterClass, TLC

CONSTANT Patterns    \* the patterns compiled: lists of classes, each a list of ranges

ASSUME PatternsAssumption == Patterns \subseteq Seq(Seq(Byte \X Byte) \ {<<>>})

VARIABLES
    cc_list,       \* the pattern
    i,             \* the item being compiled
    n,             \* the ranges of it compiled so far
    expression,    \* what they were compiled to
    code,          \* the instructions emitted
    cache,         \* ExpressionBuilder::cache: the value of a tree, by its text
    cc,            \* the value stored in the class word of each item
    pc             \* "compile", "done" or "aborted"

vars == <<cc_list, i, n, expression, code, cache, cc, pc>>

(***************************************************************************)
(* ExpressionBuilder.  st is the builder: its code, its cache and the      *)
(* value it returned last.                                                 *)
(***************************************************************************)
Emit(st, instruction) ==
    [st EXCEPT !.code = Append(@, instruction), !.value = Len(st.code) + 1]

RECURSIVE Codegen(_, _)
EmitBinary(st, op, left, right) ==
    LET l == Codegen(st, left)
        r == Codegen(l, right)
    IN  Emit(r, <<op, l.value, r.value>>)

EmitNeg(st, value) == Emit(st, <<"xor -1", value>>)

\* C++ leaves open which branch is generated first; the values are the same.
EmitSelection(st, e) ==
    LET if == Codegen(st, e.if_expr)
        true == Codegen(if, e.true_expr)
        taken == Emit(true, <<"and", if.value, true.value>>)
        neg == EmitNeg(taken, if.value)
        false == Codegen(neg, e.false_expr)
        other == Emit(false, <<"and", neg.value, false.value>>)
    IN  Emit(other, <<"or", taken.value, other.value>>)

Codegen(st, e) ==
    LET key == AsString(e)
        new == CASE e.type = "Bit" -> Emit(st, <<"load", e.bit>>)
                 [] e.type = "And" -> EmitBinary(st, "and", e.left, e.right)
                 [] e.type = "Or" -> EmitBinary(st, "or", e.left, e.right)
                 [] e.type = "Selection" -> EmitSelection(st, e)
                 [] e.type = "Not" -> LET child == Codegen(st, e.child)
                                      IN  EmitNeg(child, child.value)
    IN  IF key \in DOMAIN st.cache
        THEN [st EXCEPT !.value = st.cache[key]]
        ELSE [new EXCEPT !.cache = (key :> new.value) @@ @]

(***************************************************************************)
(* The loop                                                                *)
(***************************************************************************)
Init ==
    /\ cc_list \in Patterns
    /\ i = 1
    /\ n = 0
    /\ expression = True
    /\ code = <<>>
    /\ cache = <<>>
    /\ cc = <<>>
    /\ pc = "compile"

\* The first range of a class.
FirstRange ==
    /\ pc = "compile" /\ i <= Len(cc_list)
    /\ n = 0
    /\ ~ NoCommonBit(cc_list[i][1])
    /\ expression' = createSingleOrRange(cc_list[i][1])
    /\ n' = 1
    /\ UNCHANGED <<cc_list, i, code, cache, cc, pc>>

\* Any other one.
NextRange ==
    /\ pc = "compile" /\ i <= Len(cc_list)
    /\ n \in 1..(Len(cc_list[i]) - 1)
    /\ ~ NoCommonBit(cc_list[i][n + 1])
    /\ expression' = createOr(expression, createSingleOrRange(cc_list[i][n + 1]))
    /\ n' = n + 1
    /\ UNCHANGED <<cc_list, i, code, cache, cc, pc>>

\* The bounds of a range have no bit in common: a null pointer is used.
AbortEmptyBitPattern ==
    /\ pc = "compile" /\ i <= Len(cc_list)
    /\ n < Len(cc_list[i])
    /\ NoCommonBit(cc_list[i][n + 1])
    /\ pc' = "aborted"
    /\ UNCHANGED <<cc_list, i, n, expression, code, cache, cc>>

\* The tree is complete: code is emitted for it and its value stored.
GenerateClass ==
    /\ pc = "compile" /\ i <= Len(cc_list)
    /\ n = Len(cc_list[i])
    /\ LET new == Codegen([code |-> code, cache |-> cache, value |-> 0], expression)
       IN  /\ code' = new.code
           /\ cache' = new.cache
           /\ cc' = Append(cc, new.value)
    /\ i' = i + 1
    /\ n' = 0
    /\ UNCHANGED <<cc_list, expression, pc>>

Return ==
    /\ pc = "compile" /\ i > Len(cc_list)
    /\ pc' = "done"
    /\ UNCHANGED <<cc_list, i, n, expression, code, cache, cc>>

Terminated == pc \in {"done", "aborted"} /\ UNCHANGED vars

Next ==
    \/ FirstRange
    \/ NextRange
    \/ AbortEmptyBitPattern
    \/ GenerateClass
    \/ Return
    \/ Terminated

Spec == Init /\ [][Next]_vars

\* What the instructions compute when run is called on the basis words.
Compute(value, c) ==
    CASE c[1] = "load" -> BasisWords[c[2]]
      [] c[1] = "and" -> value[c[2]] \cap value[c[3]]
      [] c[1] = "or" -> value[c[2]] \cup value[c[3]]
      [] c[1] = "xor -1" -> Byte \ value[c[2]]

Values[k \in 1..Len(code)] == Compute(Values, code[k])

(***************************************************************************)
(* Properties                                                              *)
(***************************************************************************)

\* No constant is left in a tree: execute() and codegen() have no case for
\* one and would use a null pointer.
NoConstantLeft == n > 0 => ~ HasConstant(expression)

\* What is compiled is what ClassMeaning promises, at every step: the
\* interpreter, run on the tree and on transposed bytes, finds the bytes that
\* the decomposition of the ranges asks for, so that no rewriting changes the
\* meaning of a tree; and so does the code stored for every item, so that a
\* value taken from the cache is the value of the tree it is used for.
Meaning == INSTANCE ClassMeaning WITH
    meaning <- IF i = 1 /\ n = 0 THEN Byte ELSE Execute(BasisWords, expression),
    classes <- [k \in 1..Len(cc) |-> Values[cc[k]]]
ImplementsMeaning == Meaning!MeaningSpec
===============================================================================
