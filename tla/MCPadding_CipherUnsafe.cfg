CONSTANTS
    BS <- MCBS
    MaxLen <- MCMaxLen
    ByteTop <- MCByteTop
    KeyLens <- MCKeyLens
    IvLens <- MCIvLens
SPECIFICATION Spec
INVARIANT CipherUnpadSafe
CHECK_DEADLOCK FALSE
