CONSTANTS
    MaxId <- MCMaxId
    Window <- MCWindow
    QueueCap <- MCQueueCap
    MaxPeerAcks = 0
SPECIFICATION Spec
INVARIANT ReaderNeverBlocked

CHECK_DEADLOCK FALSE
