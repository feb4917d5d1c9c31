SPECIFICATION ContentSpec
CONSTANTS
    Data = 4
    Parity = 2
    SeqWrap = 24
    MediaMod = 16
    CacheBlocks = 2
    MaxBurst = 2
    PendingMax = 1
    MaxDrains = 1
    MaxConceal = 1
    MaxTimePlc = 1
    VideoShapes <- MCShapes
    MaxBlocks = 2
    MaxLost = 3
    Seeds = {90}
    Streams <- MCStreams
    Expected <- MCExpected
    PpsScans = 2
    RingSlots = 4
    PoolCells = 3
    Window = 1
    QueueSlots = 2
    Units <- MCUnits
    Headers = {0, 4, 6, 9}
    ContentLengths = {0, 1, 5, 8}
    ReadSize = 5
    HeaderSize = 10
    RawSize = 14
    TextSize = 6
    ArtSize = 7
INVARIANTS InMediaOrder RecoveredExact ParameterSetsExact FlagsTellTheTruth KeptWhole FetchedExact
CHECK_DEADLOCK FALSE
