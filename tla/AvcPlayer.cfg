CONSTANTS
  AVC_FRAME_SLOTS = 6
  MaxSeq = 2
  MaxBurst = 1
  FlushFails = FALSE
SPECIFICATION LiveSpec
INVARIANTS SlotOwnership PresentedPixelsIntact 
PROPERTIES MailboxSpec ProfileChangeResolved TeardownCompletes
