\* An event of a closed connection is handled as one of the next.
SPECIFICATION ESpec
CONSTANTS
    HeaderSize = 2
    RECEIVE_BUFFER_SIZE = 4
    MaxFrames = 2
    Streams <- MCStreams
    MaxConnections = 2
    Unwritten = Unwritten
    Clients = "any"
    Window = 0
PROPERTIES
    OnlyClosedPeersAreDropped
CHECK_DEADLOCK FALSE
