----------------------------- MODULE MCParabixCpp -----------------------------
EXTENDS ParabixCpp

CONSTANTS nul, a, b

MCByte == {nul, a, b}
MCClass == {{a}, {b}, {a, b}}
===============================================================================
