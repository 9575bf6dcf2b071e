----------------------------- MODULE MCParabixLlvm -----------------------------
EXTENDS ParabixLlvm

CONSTANTS nul, a, b

MCByte == {nul, a, b}
MCClass == {{a}, {b}, {a, b}}
================================================================================
