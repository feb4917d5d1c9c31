SPECIFICATION VideoSpec
CONSTANTS
  Cabac = TRUE
  Performance = TRUE
  RfiSpanMax = 2
  RfiMaxDrops = 2
  MassiveJump = 3
  ContigSkipMax = 1
  GapFrames = 2
  MaxAssembly = 2
  Protected = TRUE
  Parity = 1
  DeferLimit = 1
  JunkJump = 5
  UnrecLimit = 2
  Catastrophe = 2
  DropLimit = 2
  RsMayFail = FALSE
  MaxFrames = 3
  MaxStreams = 1
  Sizes = {2}
  Skips = {0, 1}
  MaxStalls = 0
  FirstSeq = 65534
  TrimSpanMax = 2

PROPERTIES NoOrphan
CHECK_DEADLOCK FALSE
