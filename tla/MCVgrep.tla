-------------------------------- MODULE MCVgrep --------------------------------
EXTENDS Vgrep

CONSTANTS nul, a, b

MCByte == {nul, a, b}
MCClass == {{a}, {b}, {a, b}}
================================================================================
