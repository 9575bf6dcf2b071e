---------------------------- MODULE MCClassCodegen ----------------------------
EXTENDS ClassCodegen

\* Every class of one range; every class of two ranges whose bounds are near
\* the borders of the pairs of bits; and patterns of two items.
Bound == Byte \ {0}
Border == {1, 2, 7, 8, 15, 31, 33, 63, 64}
Few == {3, 7, 12} \X {4, 7, 12}
MCPatterns ==
    [{1} -> [{1} -> Bound \X Bound]]
        \cup [{1} -> [{1, 2} -> Border \X Border]]
        \cup [{1, 2} -> [{1, 2} -> Few]]
===============================================================================
