------------------------------ MODULE MCReParser ------------------------------
EXTENDS ReParser, SequencesExt

\* Texts of up to three characters, and texts that go on after the start of
\* a class of one range or of two.
MCChar == {"[", "]", "-", "*", "x"}
MCPattern ==
    BoundedSeq(Char, 3) \cup {<<"[", "x", "-">> \o s : s \in BoundedSeq(Char, 4)}
                        \cup {<<"[", "x", "-", "x", "x", "-">> \o s : s \in BoundedSeq(Char, 3)}
===============================================================================
