CONSTANTS
    MaxKeys = 1
    MaxIn = 0
    MaxOut = 0
    Cap = 1
SPECIFICATION FairSpec
PROPERTY
    ShutdownCompletes
CHECK_DEADLOCK FALSE
