--------------------------- MODULE MCBitStreamObject ---------------------------
EXTENDS BitStreamObject
================================================================================
