CONSTANTS
    MaxId <- MCMaxId
    Window <- MCWindow
    QueueCap <- MCQueueCap
    MaxPeerAcks <- MCMaxPeerAcks
SPECIFICATION Spec
INVARIANTS
    TypeOK
    InOrderDelivery
    AckedOnlyDelivered

    
CHECK_DEADLOCK FALSE
