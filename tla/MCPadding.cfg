CONSTANTS
    BS <- MCBS
    MaxLen <- MCMaxLen
    ByteTop <- MCByteTop
    KeyLens <- MCKeyLens
    IvLens <- MCIvLens
SPECIFICATION Spec
INVARIANTS
    TypeOK
    PadInvertible
    
    ChecksAgree
CHECK_DEADLOCK FALSE
