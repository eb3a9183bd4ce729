CONSTANTS
    MaxKeys = 2
    MaxIn = 2
    MaxOut = 2
    Cap = 1
SPECIFICATION Spec
INVARIANTS
    TypeOK
    EncryptsOnlyWithKey

    
CHECK_DEADLOCK FALSE
