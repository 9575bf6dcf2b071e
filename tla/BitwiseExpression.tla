--------------------------- MODULE BitwiseExpression ---------------------------
(***************************************************************************)
(* codegen::BitwiseExpression (ast.h): the trees that character classes    *)
(* are compiled to, and the value of a tree on basis words.                *)
(***************************************************************************)
EXTENDS Integers, Sequences

CONSTANT Lane    \* the bits of a basis word: one byte lies in each lane

True == [type |-> "True"]
False == [type |-> "False"]
Bit(bit) == [type |-> "Bit", bit |-> bit]
Not(child) == [type |-> "Not", child |-> child]
And(left, right) == [type |-> "And", left |-> left, right |-> right]
Or(left, right) == [type |-> "Or", left |-> left, right |-> right]
Selection(if, true, false) ==
    [type |-> "Selection", if_expr |-> if, true_expr |-> true, false_expr |-> false]

\* The trees below a tree, itself included.
RECURSIVE Subtrees(_)
Subtrees(e) ==
    {e} \cup (CASE e.type \in {"True", "False", "Bit"} -> {}
                [] e.type = "Not" -> Subtrees(e.child)
                [] e.type \in {"And", "Or"} -> Subtrees(e.left) \cup Subtrees(e.right)
                [] e.type = "Selection" ->
                       Subtrees(e.if_expr) \cup Subtrees(e.true_expr) \cup Subtrees(e.false_expr))

\* The constants, which execute() and ExpressionBuilder::codegen take for
\* something else and dereference as null.
HasConstant(e) == \E t \in Subtrees(e) : t.type \in {"True", "False"}

(***************************************************************************)
(* ExpressionCompilerCpp::execute: words are the sets of lanes that are 1. *)
(***************************************************************************)
RECURSIVE Execute(_, _)
Execute(basis, e) ==
    CASE e.type = "Bit" -> basis[e.bit]
      [] e.type = "Not" -> Lane \ Execute(basis, e.child)
      [] e.type = "And" ->
             IF e.left.type = "Not"
             THEN Execute(basis, e.right) \ Execute(basis, e.left.child)
             ELSE IF e.right.type = "Not"
             THEN Execute(basis, e.left) \ Execute(basis, e.right.child)
             ELSE Execute(basis, e.left) \cap Execute(basis, e.right)
      [] e.type = "Or" -> Execute(basis, e.left) \cup Execute(basis, e.right)
      [] e.type = "Selection" ->
             (Execute(basis, e.if_expr) \cap Execute(basis, e.true_expr))
                 \cup (Execute(basis, e.false_expr) \ Execute(basis, e.if_expr))

\* Mutant: the text of the base class, which AndExpression and OrExpression
\* override.
BinaryAsStringOfBase(name, left, right) ==
    <<"Binary(">> \o left \o <<",">> \o right \o <<")">>

\* as_string: the text that names a tree, word by word.
BinaryAsString(name, left, right) == <<name>> \o left \o <<",">> \o right \o <<")">>

RECURSIVE AsString(_)
AsString(e) ==
    CASE e.type \in {"True", "False"} -> <<e.type>>
      [] e.type = "Bit" -> <<"Bit", e.bit>>
      [] e.type = "Not" -> <<"Not(">> \o AsString(e.child) \o <<")">>
      [] e.type = "And" -> BinaryAsString("And(", AsString(e.left), AsString(e.right))
      [] e.type = "Or" -> BinaryAsString("Or(", AsString(e.left), AsString(e.right))
      [] e.type = "Selection" ->
             <<"Selection(">> \o AsString(e.if_expr) \o <<"?">> \o AsString(e.true_expr)
                 \o <<":">> \o AsString(e.false_expr) \o <<")">>
================================================================================
