SPECIFICATION Spec
INVARIANTS
    TypeOK
    OkMeansReady
    ReadInOrder
PROPERTY
    ImplementsStages
CHECK_DEADLOCK FALSE
