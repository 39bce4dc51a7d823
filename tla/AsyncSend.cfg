\* A store whose messages outlive their sending.
CONSTANTS
    Slots = {1, 2, 3}
    ASYNC_QUEUE_SIZE = 2
    Store = "outlives"
    MaxMessages = 4
    MaxConnections = 2
SPECIFICATION ASpec
INVARIANTS
    ATypeOK
    WireKeepsOrder
    NothingDisappears
PROPERTIES
    QueuedIsSent
    ImplementsLossyFifo
CHECK_DEADLOCK FALSE
