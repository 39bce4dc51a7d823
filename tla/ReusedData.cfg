\* The store of the simulators: any message, whether or not it was sent.
CONSTANTS
    Slots = {1, 2, 3}
    ASYNC_QUEUE_SIZE = 2
    Store = "any"
    MaxMessages = 4
    MaxConnections = 2
SPECIFICATION ASpec
INVARIANT
    DataOutlivesSend
CHECK_DEADLOCK FALSE
