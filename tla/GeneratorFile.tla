----------------------------- MODULE GeneratorFile -----------------------------
(***************************************************************************)
(* main and the rest of generate_pattern of generator/main.cc: the strings *)
(* are written again and again until the file has the requested size, and  *)
(* padded to whole blocks.  The numbers are ints of Width bits.            *)
(***************************************************************************)
EXTENDS Integers, Sequences, SequencesExt

CONSTANTS
    Width,        \* bits of an int32_t
    Mega,         \* 1024 * 1024
    BlockSize,    \* 63
    Strings,      \* lists of the sizes of the strings generated
    Requests      \* arguments of the program

ASSUME FileAssumption ==
    /\ Width \in Nat \ {0} /\ Mega \in Nat \ {0} /\ BlockSize \in Nat \ {0}
    /\ Strings \subseteq Seq(Nat \ {0}) \ {<<>>}
    /\ Requests \subseteq Int

VARIABLES
    generated_strings,    \* the sizes of the strings
    size_in_mb,
    required_size_in_bytes,
    i,                    \* turns of the loop the program is in
    total_size,
    left,
    file,                 \* the bytes written
    pc

fileVars == <<generated_strings, size_in_mb, required_size_in_bytes, i, total_size, left, file, pc>>

Half == 2^(Width - 1)
Ints == (-Half)..(Half - 1)

\* What is left of m in an int32_t: m modulo 2^Width.
Wrapped(m) == ((m + Half) % (2 * Half)) - Half

\* Division and remainder of C: the quotient is rounded towards 0.
Quotient(m, d) == IF m >= 0 THEN m \div d ELSE -((-m) \div d)
Remainder(m, d) == m - d * Quotient(m, d)

SizeSum(s) == FoldLeft(LAMBDA sum, size : sum + size, 0, s)
generated_size_in_bytes == SizeSum(generated_strings)

\* Mutant: the quotient is rounded up.
at_least_rounded_up ==
    Quotient(required_size_in_bytes + generated_size_in_bytes - 1, generated_size_in_bytes)

at_least == Quotient(required_size_in_bytes, generated_size_in_bytes)

FileInit ==
    /\ generated_strings \in Strings
    /\ size_in_mb \in Requests
    /\ required_size_in_bytes = 0
    /\ i = 0
    /\ total_size = 0
    /\ left = 0
    /\ file = 0
    /\ pc = "main"

\* An argument is missing.
Usage ==
    /\ pc = "main"
    /\ pc' = "failed"
    /\ UNCHANGED <<generated_strings, size_in_mb, required_size_in_bytes, i, total_size, left, file>>

\* A product that does not fit is undefined; the multiplication of the
\* machine drops its high bits.
Require ==
    /\ pc = "main"
    /\ required_size_in_bytes' = Wrapped(size_in_mb * Mega)
    /\ pc' = "copies"
    /\ UNCHANGED <<generated_strings, size_in_mb, i, total_size, left, file>>

\* All strings are written once more.
WriteCopy ==
    /\ pc = "copies" /\ i < at_least
    /\ file' = file + generated_size_in_bytes
    /\ i' = i + 1
    /\ UNCHANGED <<generated_strings, size_in_mb, required_size_in_bytes, total_size, left, pc>>

CopiesWritten ==
    /\ pc = "copies" /\ i >= at_least
    /\ total_size' = at_least * generated_size_in_bytes
    /\ left' = required_size_in_bytes - total_size'
    /\ i' = 1
    /\ pc' = "rest"
    /\ UNCHANGED <<generated_strings, size_in_mb, required_size_in_bytes, file>>

\* Mutant: a string of the rest is not counted.
WriteUncounted ==
    /\ pc = "rest" /\ i <= Len(generated_strings) /\ left > 0
    /\ file' = file + generated_strings[i]
    /\ left' = left - generated_strings[i]
    /\ i' = i + 1
    /\ UNCHANGED <<generated_strings, size_in_mb, required_size_in_bytes, total_size, pc>>

WriteString ==
    /\ pc = "rest" /\ i <= Len(generated_strings) /\ left > 0
    /\ file' = file + generated_strings[i]
    /\ left' = left - generated_strings[i]
    /\ total_size' = total_size + generated_strings[i]
    /\ i' = i + 1
    /\ UNCHANGED <<generated_strings, size_in_mb, required_size_in_bytes, pc>>

RestWritten ==
    /\ pc = "rest" /\ (i > Len(generated_strings) \/ left <= 0)
    /\ pc' = "padding"
    /\ UNCHANGED <<generated_strings, size_in_mb, required_size_in_bytes, i, total_size, left, file>>

WriteDash ==
    /\ pc = "padding" /\ Remainder(total_size, BlockSize) # 0
    /\ file' = file + 1
    /\ total_size' = total_size + 1
    /\ UNCHANGED <<generated_strings, size_in_mb, required_size_in_bytes, i, left, pc>>

Close ==
    /\ pc = "padding" /\ Remainder(total_size, BlockSize) = 0
    /\ pc' = "done"
    /\ UNCHANGED <<generated_strings, size_in_mb, required_size_in_bytes, i, total_size, left, file>>

FileExited == pc \in {"failed", "done"} /\ UNCHANGED fileVars

FileNext ==
    \/ Usage
    \/ Require
    \/ WriteCopy
    \/ CopiesWritten
    \/ WriteString
    \/ RestWritten
    \/ WriteDash
    \/ Close
    \/ FileExited

FileSpec == FileInit /\ [][FileNext]_fileVars

(***************************************************************************)
(* Properties                                                              *)
(***************************************************************************)

\* The file consists of whole blocks, as the benchmark takes for granted of
\* its input, even if the request overflows, unless that makes it negative.
FileIsBlocks == pc = "done" /\ required_size_in_bytes >= 0 => file % BlockSize = 0

\* A request that does not overflow is met, and exceeded by less than one
\* string and one block; a request of nothing, or less, gives less than a
\* block.
FileAnswersRequest ==
    LET request == size_in_mb * Mega
        longest == Max(ToSet(generated_strings))
    IN  pc = "done" /\ request \in Ints =>
            IF request > 0 THEN file \in request..(request + longest - 1 + BlockSize - 1)
            ELSE file < BlockSize
================================================================================
