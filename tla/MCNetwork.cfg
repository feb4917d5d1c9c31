SPECIFICATION NetworkSpec
CONSTANTS
  RgbaSlots = 2
  ZeroDelay = FALSE
  MeMayHang = FALSE
  LongPending = 2
  WaitPeriod = 2
  StartupReset = 2
  RefLostMax = 2
  RefLostHard = 3
  FailHard = 3
  HangRestarts = 2
  MaxRestarts = 1
  Faults = 2
  PowerSaves = {"on", "off"}
INVARIANTS  PowerSaveRestored
PROPERTIES PictureReturns OutageEnds
