SPECIFICATION Spec
CONSTANTS
    Registers = {0, 1, 31}
    Bytes = {0, 3, 255}
    Immediates <- MCImmediates
    RawWords <- MCRawWords
INVARIANTS
    TypeOK
    IntentDecoded
    OpcodesHandled
PROPERTIES
    PatchKeepsInstruction
