SPECIFICATION MCSpec
CONSTANTS
    WORD_BITS = 4
    SIGN_BIT = 8
    BYTE_BITS = 1
    OFFSET = 3
    SIZE = 5
    SIZE_T_MODULUS = 256
    ALIGNED_ACCESS = FALSE
    DEVICES <- MCDevices
PROPERTIES
    WholeBufferReachable
