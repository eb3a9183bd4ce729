CONSTANTS
    c1 = c1
    c2 = c2
    NoHolder = NoHolder
    Callers <- MCCallers
    MaxPID <- MCMaxPID
    MaxKeys = 1
    MaxRemoteSets = 1
SYMMETRY Symm
SPECIFICATION Spec
INVARIANTS
    TypeOK
    FreshPacketIDs
PROPERTIES
    
    ImplementsAllocator
