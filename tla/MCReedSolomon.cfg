SPECIFICATION RsSpec
CONSTANTS
    VideoShapes <- MCShapes
    MaxBlocks = 1
    MaxLost = 3
    Seeds = {90}
INVARIANTS RecoveredExact
