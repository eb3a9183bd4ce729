CONSTANTS
    BS <- MCBS
    MaxLen <- MCMaxLen
    ByteTop <- MCByteTop
    KeyLens <- MCKeyLens
    IvLens <- MCIvLens
SPECIFICATION Spec
INVARIANT DecryptInvertsEncrypt
CHECK_DEADLOCK FALSE
