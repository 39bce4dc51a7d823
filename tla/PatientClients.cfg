\* Clients that take turns and wait for what they sent to be handled.
SPECIFICATION ESpec
CONSTANTS
    HeaderSize = 2
    RECEIVE_BUFFER_SIZE = 4
    MaxFrames = 2
    Streams <- MCStreams
    MaxConnections = 3
    Unwritten = Unwritten
    Clients = "patient"
    Window = 2
INVARIANTS
    NothingIsForgotten
PROPERTIES
    ClosesAreNoticed
    ArrivedFramesAreHandled
    ClientsAreAccepted
    OnlyClosedPeersAreDropped
CHECK_DEADLOCK FALSE
