------------------------- MODULE ExpressionCompilerCpp -------------------------
(***************************************************************************)
(* codegen::ExpressionCompilerCpp::compile, which writes the tree of a     *)
(* class as a C++ function: a constant for each bit of the byte, temporary *)
(* variables for the operands, and a value to return, which as a bool is   *)
(* true unless it is 0.  An object is used for several trees.              *)
(*                                                                         *)
(* A generated text is a tuple of an operation and the names in it.  A     *)
(* name is <<"bit", k>> or <<"tmp", k>>.                                   *)
(***************************************************************************)
EXTENDS CharacterClass, TLC

CONSTANTS
    Classes,        \* the classes compiled first, as lists of ranges
    Again,          \* and those compiled later with the same object
    MaxFunctions    \* bound on the number of calls

ASSUME ClassesAssumption == Classes \cup Again \subseteq Seq(Byte \X Byte) \ {<<>>}

VARIABLES
    output,              \* the text of the stream: functions, each with its
                         \* assignments and its result
    variable_counter,
    variables,           \* the name that holds the value of a text
    returned,            \* the text that the last call returned
    calls                \* history: the classes of the calls made

vars == <<output, variable_counter, variables, returned, calls>>

(***************************************************************************)
(* compileExpression.  st is the object, the assignments of the function   *)
(* being written, and the text returned last.                              *)
(***************************************************************************)
\* The branch of addAssignment for a text that has a name is never taken.
addAssignment(st, variable, generated) ==
    [st EXCEPT !.variables = (generated :> variable) @@ @,
               !.code = Append(@, <<variable, generated>>)]

getVariable(st, generated) ==
    IF generated \in DOMAIN st.variables
    THEN st
    ELSE addAssignment([st EXCEPT !.counter = @ + 1], <<"tmp", st.counter>>, generated)

\* The names of the texts in a list; C++ leaves their order open.
Named(st, texts) == FoldLeft(getVariable, st, texts)

Generate(st, op, texts) ==
    LET named == Named(st, texts)
    IN  [named EXCEPT !.generated =
            <<op>> \o [t \in 1..Len(texts) |-> named.variables[texts[t]]]]

RECURSIVE compileExpression(_, _)

\* The trees es, one after the other, and op on their values.
Operation(st, op, es) ==
    LET Add(done, e) ==
            LET new == compileExpression(done.st, e)
            IN  [st |-> new, texts |-> Append(done.texts, new.generated)]
        compiled == FoldLeft(Add, [st |-> st, texts |-> <<>>], es)
    IN  Generate(compiled.st, op, compiled.texts)

\* Mutant: the operands of &~ stay in the order of the tree.
AndUnordered(st, e) ==
    IF e.left.type = "Not" THEN Operation(st, "&~", <<e.left.child, e.right>>)
    ELSE IF e.right.type = "Not" THEN Operation(st, "&~", <<e.left, e.right.child>>)
    ELSE Operation(st, "&", <<e.left, e.right>>)

\* The code compiles the left side first; only the numbers of the names
\* depend on it.
AndOf(st, e) ==
    IF e.left.type = "Not" THEN Operation(st, "&~", <<e.right, e.left.child>>)
    ELSE IF e.right.type = "Not" THEN Operation(st, "&~", <<e.left, e.right.child>>)
    ELSE Operation(st, "&", <<e.left, e.right>>)

\* bit_0 is the highest bit.
compileExpression(st, e) ==
    CASE e.type \in {"True", "False"} -> [st EXCEPT !.generated = <<e.type>>]
      [] e.type = "Bit" ->
             LET variable == <<"bit", EncodingBits - 1 - e.bit>>
             IN  [st EXCEPT !.variables = (variable :> variable) @@ @, !.generated = variable]
      [] e.type = "Not" -> Operation(st, "~", <<e.child>>)
      [] e.type = "And" -> AndOf(st, e)
      [] e.type = "Or" -> Operation(st, "|", <<e.left, e.right>>)
      [] e.type = "Selection" -> Operation(st, "?", <<e.if_expr, e.true_expr, e.false_expr>>)

\* A new object, with the members that reset sets first.
New == [counter |-> 0, variables |-> <<>>, code |-> <<>>, generated |-> <<>>]

\* Mutants: one of the members is not reset.
resetKeepsVariables == [New EXCEPT !.variables = variables]
resetKeepsCounter == [New EXCEPT !.counter = variable_counter]

\* output.clear() resets the flags of the stream and leaves its text.
reset == New

(***************************************************************************)
(* The calls                                                               *)
(***************************************************************************)
Function(st) == [code |-> st.code, result |-> st.generated]

Init ==
    /\ output = <<>>
    /\ variable_counter = 0
    /\ variables = <<>>
    /\ returned = <<>>
    /\ calls = <<>>

\* The text returned is all of output.
Compile(ranges) ==
    /\ Len(calls) < MaxFunctions
    /\ LET st == compileExpression(reset, compile(ranges))
       IN  /\ output' = Append(output, Function(st))
           /\ variable_counter' = st.counter
           /\ variables' = st.variables
    /\ returned' = output'
    /\ calls' = Append(calls, ranges)

First == calls = <<>> /\ \E ranges \in Classes : Compile(ranges)
Other == calls # <<>> /\ \E ranges \in Again \cup {Last(calls)} : Compile(ranges)
Stop == Len(calls) = MaxFunctions /\ UNCHANGED vars

Next == First \/ Other \/ Stop

Spec == Init /\ [][Next]_vars

(***************************************************************************)
(* The meaning of a function in C++.  Its names are ints of value 0, 1, -1 *)
(* or -2, seen as the lowest bit and the others, which are equal; the      *)
(* value of a name is kept for all bytes at once.                          *)
(***************************************************************************)
Ints == Byte \X {"low", "high"}

\* bit_k = (value >> (EncodingBits - 1 - k)) & 1
BitValue(k) == {<<c, "low">> : c \in {d \in Byte : BitSet(d, EncodingBits - 1 - k)}}

\* tmp is the list of the values of the temporary variables.
Evaluate(tmp, text) ==
    LET value(name) == IF name[1] = "bit" THEN BitValue(name[2]) ELSE tmp[name[2] + 1]
    IN  CASE text[1] = "True" -> Ints
          [] text[1] = "False" -> {}
          [] text[1] = "bit" -> value(text)
          [] text[1] = "~" -> Ints \ value(text[2])
          [] text[1] = "&" -> value(text[2]) \cap value(text[3])
          [] text[1] = "&~" -> value(text[2]) \ value(text[3])
          [] text[1] = "|" -> value(text[2]) \cup value(text[3])
          [] text[1] = "?" -> (value(text[2]) \cap value(text[3])) \cup (value(text[4]) \ value(text[2]))

\* The bytes for which f returns true.
Matched(f) ==
    LET tmp == FoldLeft(LAMBDA done, a : Append(done, Evaluate(done, a[2])), <<>>, f.code)
    IN  {r[1] : r \in Evaluate(tmp, f.result)}

Operands(text) == IF text[1] = "bit" THEN {text} ELSE {text[t] : t \in 2..Len(text)}
Bits == {<<"bit", b>> : b \in 0..(EncodingBits - 1)}

(***************************************************************************)
(* Properties                                                              *)
(***************************************************************************)

\* Each function of the text compiles on its own: every name in it is that of
\* a bit or was declared before it in the same function, and none is declared
\* twice, whatever the object compiled before.
NamesDeclared ==
    \A k \in 1..Len(returned) :
        LET code == returned[k].code
            Declared(v) == Bits \cup {code[u][1] : u \in 1..(v - 1)}
        IN  /\ \A v \in 1..Len(code) :
                   Operands(code[v][2]) \subseteq Declared(v) /\ code[v][1] \notin Declared(v)
            /\ Operands(returned[k].result) \subseteq Declared(Len(code) + 1)

\* A call returns, before the function of its class, the functions of all calls
\* made on the object before it, each of the same name: reset leaves the text
\* of output, so that only the first text an object returns defines match once.
\* Otherwise nothing is left of a call: each function is what a new object
\* writes for its class.
ReturnsEarlierFunctions ==
    returned =
        [k \in 1..Len(calls) |-> Function(compileExpression(New, compile(calls[k])))]

\* The last function of a text returns true for the bytes that CC::match
\* accepts.  Its ~ makes -2 of 1, which counts as true: no such value gets out
\* of the trees of ascending classes without the byte 0.
FunctionIsMatch ==
    calls # <<>> =>
        LET ranges == Last(calls)
        IN  Ascending(ranges) /\ 0 \notin Accepted(ranges) =>
                Matched(Last(returned)) = Accepted(ranges)
================================================================================
