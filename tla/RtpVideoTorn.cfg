SPECIFICATION VideoSpec
CONSTANTS
  Cabac = FALSE
  Performance = FALSE
  RfiSpanMax = 2
  RfiMaxDrops = 2
  MassiveJump = 3
  ContigSkipMax = 1
  GapFrames = 2
  MaxAssembly = 3
  Protected = TRUE
  Parity = 0
  DeferLimit = 2
  JunkJump = 5
  UnrecLimit = 2
  Catastrophe = 3
  DropLimit = 2
  RsMayFail = FALSE
  MaxFrames = 2
  MaxStreams = 1
  Sizes = {3}
  Skips = {0}
  MaxStalls = 2
  FirstSeq = 65534
  TrimSpanMax = 2
INVARIANTS DeliveredWhole
CHECK_DEADLOCK FALSE
