\* The control connection with small rings.
CONSTANTS
    Slots = 1
    InputSlots = 1
    MaxTries = 1
    InputTries = 1
    Attempts = 2
    DrainTicks = 2
    MaxBackoff = 2
    Watched = {"input"}
SPECIFICATION Spec
INVARIANTS InputNeverLost
PROPERTIES InputResolved DisconnectEnds
