---------------------------- MODULE MCClassMeaning ----------------------------
EXTENDS ClassMeaning

\* Every class of one range; classes of two ranges, and patterns of two items,
\* with bounds near the borders of the pairs of bits.
Border == {1, 3, 4, 15, 32, 63, 127, 128, 252}
MCPatterns ==
    [{1} -> [{1} -> Byte \X Byte]]
        \cup [{1} -> [{1, 2} -> Border \X Border]]
        \cup [{1, 2} -> [{1} -> Border \X Border]]
===============================================================================
