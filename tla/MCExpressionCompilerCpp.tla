------------------------ MODULE MCExpressionCompilerCpp ------------------------
EXTENDS ExpressionCompilerCpp

\* Ranges with a bit in common, as the others make the class compiler stop:
\* every class of one of them, and classes of two with bounds at the borders
\* of the pairs of bits.
Range1 == {r \in Byte \X Byte : ~ NoCommonBit(r)}
Border == {0, 1, 3, 4, 7, 15, 16, 31, 32, 48}
Range2 == {r \in Border \X Border : ~ NoCommonBit(r)}
MCClasses == {<<r>> : r \in Range1} \cup {<<r, s>> : r, s \in Range2}
MCAgain == {<<<<5, 9>>>>, <<<<3, 3>>, <<16, 31>>>>}
================================================================================
