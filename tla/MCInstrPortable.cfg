SPECIFICATION Spec
CONSTANTS
    WORD_BITS = 4
    SIGN_BIT = 8
    BYTE_BITS = 1
    BYTE_SIZE = 2
    IMM_SIZE = 4
    SValues <- MCWord
    TValues <- MCWord
    Ops = {"sra", "srav", "addu"}
    Fields = {0}
INVARIANTS
    ArithmeticShiftPortable
