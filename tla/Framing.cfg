\* A hello and two messages, over base:1.0 or base:1.1, read in pieces.
SPECIFICATION Spec
CONSTANTS
    Messages <- SmallMessages
    Hello <- SmallHello
    BuffSize = 12
    ReadSize = 4
    StartPad = 5
    EndPad = 4
    MaxStartChunk = 6
    MaxChunk = 99
    ChunkSizes = {1, 5, 12}
    Pipelined = FALSE
    MaxSent = 3
    Garbage = "?"
CHECK_DEADLOCK FALSE
INVARIANTS TypeOK FramesAccepted GarbageAtBoundary
PROPERTIES ImplementsChannel
