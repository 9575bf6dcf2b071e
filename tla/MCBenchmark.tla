------------------------------ MODULE MCBenchmark ------------------------------
EXTENDS Benchmark

CONSTANTS other, a, d, z    \* '\0' and every byte of no class; 'a'; a digit; 'z'

MCByte == {other, a, d, z}
MCClass == {{a}, {d}, {z}}
MCLetter == {a}
MCDigit == {d}
MCLast == {z}
================================================================================
