SPECIFICATION Spec
CONSTANTS
    WORD_BITS = 8
    SIGN_BIT = 128
    BYTE_BITS = 2
    BYTE_SIZE = 4
    IMM_SIZE = 16
    SValues = {0, 1, 90, 255}
    TValues <- MCWord
    Ops = {"bitswap", "wsbh", "align_0", "align_1", "align_2", "align_3", "seb", "seh", "ext", "ins", "addu", "andi"}
    Fields = {0}
INVARIANTS
    SwapsInvolutive
    AlignWindow
    InsertExtract
