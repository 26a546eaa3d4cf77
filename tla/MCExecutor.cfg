SPECIFICATION Spec
CONSTANTS
    WORD_BITS = 4
    SIGN_BIT = 8
    BYTE_BITS = 1
    BYTE_SIZE = 2
    IMM_SIZE = 4
    ADDR_SIZE = 2
    PCREL_SIZE = 2
    PCREL_EXT = 1
    REGISTER_COUNT = 4
    Program <- MCProgram
    RawInstr <- MCProgram
    ZERO_INSTR <- Nop
    MemoryData = {0, 4, 15}
INVARIANTS
    TypeOK
    ZeroRegister
PROPERTIES
    RefinesDelaySlots
    FailedStepAtomic
    TrapsPrecise
CHECK_DEADLOCK FALSE
