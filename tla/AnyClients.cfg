\* Any number of clients at a time, up to three, in any order of events.
SPECIFICATION ESpec
CONSTANTS
    HeaderSize = 2
    RECEIVE_BUFFER_SIZE = 4
    MaxFrames = 2
    Streams <- MCStreams
    MaxConnections = 3
    Unwritten = Unwritten
    Clients = "any"
    Window = 0
INVARIANTS
    ETypeOK
    ResetIsReported
PROPERTIES
    ImplementsTransport
    ResetsAreNoticed
CHECK_DEADLOCK FALSE
