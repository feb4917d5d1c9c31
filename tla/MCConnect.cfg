\* Two hosts, so that the next host can be selected while the /cancel of the last
\* stream is still on its way.  Keys no host or worker refers to are drawn again, so
\* that behaviours never end for want of a key.
CONSTANTS
    Hosts = {h1, h2}
    MaxKey = 3
    MaxFaults = 1
    AudioEnabled = TRUE
    SlowCancel = TRUE
    Slots = 4
    ParityMark = 1
    BodyMark = 2
    TrimMark = 1
    EmergencyDrops = 2
SPECIFICATION WaySpec
INVARIANTS SessionKeyAgreed StreamResourcesReleased PairingEarned 
PROPERTIES OldCancelSparesNewSession ConnectEnds RingMoves
CHECK_DEADLOCK FALSE
