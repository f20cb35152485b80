\* A radio that moves between two ports, pages and boards with two files and
\* one board to seed, an owner who edits one file, and power that fails.
SPECIFICATION ContainerFairSpec
CONSTANTS
    Ports = {p1, p2}
    Targets = {"auto", p1}
    MaxAttempts = 2
    Hidden = FALSE
    CloseRaises = TRUE
    MaxLeaks = 1
    MaxFaults = 2
    Pages = {index, about}
    Boards = {general}
    MaxEdits = 1
    MaxCuts = 1
INVARIANTS
    OneLink
    YoursAfterwards
    StartsWhole
PROPERTIES
    StopEnds
    RunsUnattended
CHECK_DEADLOCK FALSE
