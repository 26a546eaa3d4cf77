SPECIFICATION Spec
CONSTANTS
    WORD_BITS = 4
    SIGN_BIT = 8
    BYTE_BITS = 1
    BYTE_SIZE = 2
    IMM_SIZE = 4
    SValues <- MCWord
    TValues <- MCWord
    Ops = {"pop10", "pop30"}
    Fields = {0, 1, 2, 31}
INVARIANTS
    SumOverflowExact
