------------------------------ MODULE CCCompiler ------------------------------
(***************************************************************************)
(* codegen::CCCompiler: the compilation of a character class, a list of    *)
(* ranges of characters, into a tree of bitwise operations on the basis    *)
(* words.  A basis word has one lane per byte value, so that the value of  *)
(* a tree is the set of the bytes it accepts.                              *)
(***************************************************************************)
EXTENDS ByteRange, SequencesExt

INSTANCE BitwiseExpression WITH Lane <- Byte

(***************************************************************************)
(* The simplifying constructors.                                           *)
(***************************************************************************)
createBoolean(value) == IF value THEN True ELSE False

createNot(expr) ==
    CASE expr.type = "True" -> createBoolean(FALSE)
      [] expr.type = "False" -> createBoolean(TRUE)
      [] expr.type = "Not" -> expr.child
      [] OTHER -> Not(expr)

RECURSIVE equal_expressions(_, _)
equal_expressions(l, r) ==
    /\ l.type = r.type
    /\ CASE l.type \in {"True", "False"} -> TRUE
         [] l.type = "Bit" -> l.bit = r.bit
         [] l.type = "Not" -> equal_expressions(l.child, r.child)
         [] l.type \in {"And", "Or"} ->
                IF equal_expressions(l.left, r.left)
                THEN equal_expressions(l.right, r.right)
                ELSE equal_expressions(l.left, r.right) /\ equal_expressions(l.right, r.left)
         [] OTHER -> FALSE

RECURSIVE createAnd(_, _), createOr(_, _)

\* Mutant: a true operand is kept.
createAndKeepsTrue(l, r) ==
    IF "False" \in {l.type, r.type} THEN createBoolean(FALSE)
    ELSE IF l.type = "Not" /\ r.type = "Not" THEN createNot(createOr(l.child, r.child))
    ELSE And(l, r)

createAnd(l, r) ==
    IF l.type = "True" THEN r
    ELSE IF r.type = "True" THEN l
    ELSE IF "False" \in {l.type, r.type} THEN createBoolean(FALSE)
    ELSE IF l.type = "Not" /\ r.type = "Not" THEN createNot(createOr(l.child, r.child))
    ELSE And(l, r)

\* x & y | x & z, whichever sides x is on.
Factored(l, r) ==
    IF equal_expressions(l.left, r.left) THEN createAnd(l.left, createOr(l.right, r.right))
    ELSE IF equal_expressions(l.right, r.right) THEN createAnd(l.right, createOr(l.left, r.left))
    ELSE IF equal_expressions(l.left, r.right) THEN createAnd(l.left, createOr(l.right, r.left))
    ELSE IF equal_expressions(l.right, r.left) THEN createAnd(l.right, createOr(l.left, r.right))
    ELSE Or(l, r)

createOr(l, r) ==
    IF "True" \in {l.type, r.type} THEN createBoolean(TRUE)
    ELSE IF l.type = "False" THEN r
    ELSE IF r.type = "False" THEN l
    ELSE IF l.type = "Not" THEN createNot(createAnd(l.child, createNot(r)))
    ELSE IF r.type = "Not" THEN createNot(createAnd(createNot(l), r.child))
    ELSE IF l.type = "And" /\ r.type = "And" THEN Factored(l, r)
    ELSE Or(l, r)

createSelection(if, true, false) ==
    IF if.type = "True" THEN true
    ELSE IF if.type = "False" THEN false
    ELSE IF true.type = "True" THEN createOr(if, false)
    ELSE IF true.type = "False" THEN createAnd(createNot(if), false)
    ELSE IF false.type = "False" THEN createAnd(if, true)
    ELSE IF false.type = "True" THEN createOr(createNot(if), true)
    ELSE IF equal_expressions(true, false) THEN true
    ELSE Selection(if, true, false)

(***************************************************************************)
(* Bit patterns and ranges.                                                *)
(***************************************************************************)
\* One pass of the loop that combines the tests two by two; one left over
\* stays at the end.
Paired(s) ==
    [k \in 1..((Len(s) + 1) \div 2) |->
        IF 2 * k <= Len(s) THEN createAnd(s[2 * k - 1], s[2 * k]) ELSE s[2 * k - 1]]

RECURSIVE Combined(_)
Combined(s) == IF Len(s) > 1 THEN Combined(Paired(s)) ELSE s[1]

\* The bytes that agree with pattern on its bits low_bit and above: the mask
\* the code passes has every bit from low_bit up.  Below EncodingBits only:
\* with no bit to test, it reads the first element of an empty vector.
createBitPattern(pattern, low_bit) ==
    Combined(Reverse([n \in 1..EncodingBits |->
        IF n - 1 < low_bit THEN createBoolean(TRUE)
        ELSE IF BitSet(pattern, n - 1) THEN Bit(n - 1)
        ELSE createNot(Bit(n - 1))]))

\* The bytes whose bits lowest ones are n or more.
RECURSIVE createGERange(_, _)
createGERange(bits, n) ==
    LET top == n \div 2^(bits - 2)    \* the two highest bits of n
        high == Bit(bits - 1)
    IN  CASE bits = 0 -> createBoolean(TRUE)
          [] bits > 0 /\ bits % 2 = 0 /\ top = 0 ->
                 createOr(createOr(high, Bit(bits - 2)), createGERange(bits - 2, n))
          [] bits > 0 /\ bits % 2 = 0 /\ top = 3 ->
                 createAnd(createAnd(high, Bit(bits - 2)),
                           createGERange(bits - 2, n - 3 * 2^(bits - 2)))
          [] OTHER ->
                 IF BitSet(n, bits - 1)
                 THEN createAnd(high, createGERange(bits - 1, n - 2^(bits - 1)))
                 ELSE createOr(high, createGERange(bits - 1, n))

\* Mutant: the bound itself is left out.
createLTRange(bits, n) ==
    IF n + 1 = 2^bits THEN createBoolean(TRUE) ELSE createNot(createGERange(bits, n))

createLERange(bits, n) ==
    IF n + 1 = 2^bits THEN createBoolean(TRUE) ELSE createNot(createGERange(bits, n + 1))

createRange(low, high) ==
    LET count == DifferingBits(low, high)
        mask == 2^(count - 1)
        common_part == createBitPattern(low, count)
    IN  IF count = 0 THEN common_part
        ELSE createAnd(common_part,
                       createSelection(Bit(count - 1),
                                       createLERange(count - 1, high % mask),
                                       createGERange(count - 1, low % mask)))

createSingleOrRange(range) ==
    IF range[1] # range[2] THEN createRange(range[1], range[2])
    ELSE createBitPattern(range[1], 0)

compile(ranges) ==
    FoldLeft(LAMBDA e, range : createOr(e, createSingleOrRange(range)),
             createSingleOrRange(ranges[1]), Tail(ranges))

===============================================================================
