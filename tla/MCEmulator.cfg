SPECIFICATION EmulatorSpec
CONSTANTS
    WORD_BITS = 4
    SIGN_BIT = 8
    BYTE_BITS = 1
    BYTE_SIZE = 2
    IMM_SIZE = 4
    ADDR_SIZE = 2
    PCREL_SIZE = 2
    PCREL_EXT = 1
    REGISTER_COUNT = 2
    OFFSET = 0
    SIZE = 9
    SIZE_T_MODULUS = 256
    ALIGNED_ACCESS = FALSE
    DEVICES = {12}
    Program <- MCProgram
    RawInstr <- MCProgram
    ZERO_INSTR <- MCZero
    MemoryData <- MCWord
    Decode <- MCDecode
    Images <- MCImages
INVARIANTS
    EmulatorTypeOK
    ExecutesCurrentWord
PROPERTIES
    RefinesExecutor
    RefinesMemory
    FailureHarmless
    StoreReported
    TrapsRecorded
    StuckForever
    BranchLands
CHECK_DEADLOCK FALSE
