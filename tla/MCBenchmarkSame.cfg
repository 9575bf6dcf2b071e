SPECIFICATION BenchSpec
CONSTANTS
    other = other
    a = a
    d = d
    z = z
    Byte <- MCByte
    Nul <- other
    Class <- MCClass
    Letter <- MCLetter
    Digit <- MCDigit
    Last <- MCLast
    BlockSize = 2
    MaxItems = 3
    MaxInput = 6
INVARIANT ResultsMustBeSame
