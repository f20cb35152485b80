\* A hidden node with a radio that is well.
SPECIFICATION FairSpec
CONSTANTS
    Ports = {p1}
    Targets = {"auto"}
    MaxAttempts = 4
    Hidden = TRUE
    CloseRaises = FALSE
    MaxLeaks = 0
    MaxFaults = 1
PROPERTIES
    Recovers
CHECK_DEADLOCK FALSE
