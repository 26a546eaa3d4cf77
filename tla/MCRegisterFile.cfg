SPECIFICATION Spec
CONSTANTS
    WORD_BITS = 3
    SIGN_BIT = 4
    REGISTER_COUNT = 2
    raw0 = raw0
    raw1 = raw1
    RawInstr <- MCRawInstr
    ZERO_INSTR = raw0
INVARIANTS
    TypeOK
    ZeroRegister
    BranchlessUpdate
PROPERTIES
    PendingBranchKept
