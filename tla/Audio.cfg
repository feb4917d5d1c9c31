SPECIFICATION Spec
CONSTANTS
    RingSlots = 3
    StageMax = 2
    LowWater = 1
    Prebuffer = 2
    Target = 0
    HoldMax = 2
INVARIANTS PlayedIntact
PROPERTIES ShutdownReturns
