\* All ways to read three frames of 2 to 4 bytes on each of two connections.
SPECIFICATION Spec
CONSTANTS
    HeaderSize = 2
    RECEIVE_BUFFER_SIZE = 5
    MaxFrames = 3
    Streams <- MCStreams
    MaxConnections = 2
    Unwritten = Unwritten
INVARIANTS
    TypeOK
    FramesInOrder
    RoomToRead
    ReadFramesAreHandled
PROPERTIES
    ImplementsFrameStream
CHECK_DEADLOCK FALSE
