\* Two streams, so that a stream meets what the one before it left behind, and
\* three changes of what the host sends.
CONSTANTS
    MaxStreams = 2
    IdleLimit = 2
    Restarts = 1
    MaxHostSteps = 3
SPECIFICATION Spec
INVARIANTS HostListQuiet
PROPERTIES StallEnds
CHECK_DEADLOCK FALSE
