SPECIFICATION Spec
CONSTANTS
    WORD_BITS = 4
    SIGN_BIT = 8
    BYTE_BITS = 1
    BYTE_SIZE = 2
    IMM_SIZE = 4
    SValues <- MCWord
    TValues <- MCWord
    Ops = {"add", "addu", "sub", "subu", "sop30", "sop31", "sop32", "sop33", "and", "nor", "or", "xor", "slt", "sltu", "sll", "sllv", "sra", "srav", "srl", "srlv", "seleqz", "selnez", "clz", "clo", "addiu", "aui", "slti", "sltiu", "andi", "ori", "xori", "bitswap", "wsbh", "align_0", "align_1", "align_2", "align_3", "seb", "seh", "ext", "ins", "beq", "bne", "pop06", "pop07", "pop10", "pop30", "pop26", "pop27", "pop66", "pop76", "bgez", "bltz"}
    Fields = {0, 1, 2, 31}
INVARIANTS
    OutcomeCount
    ProductExact
    DivisionExact
    ShiftsExact
    CountsExact
    ComparisonsAgree
    ConstantsFromHalves
    OppositesPartition
    ComparisonsOrder
