SPECIFICATION MCSpec
CHECK_DEADLOCK FALSE
CONSTANTS
    SafeRead = 2
    EfChunk = 3
    Chunk = 4
    MaxOffset = 11
    DirLimit = 9
    EfLimit = 20
    Sizes <- SmallSizes
    Strict <- EveryCard
    Faults <- WithFaults
    MaxData = 6
    MaxPart = 3
    Buffers <- ShortBuffers
    Contents <- SomeContents
    Filler <- SomeFiller
    ChunkSizes = {1, 2, 200}
INVARIANTS
    UndisturbedReadsAreComplete
    ResponsesAreWhole
    RecordsAreRead
PROPERTIES
    CallsEnd
