\* Two posts, one of which the board turns down, at a server that holds one
\* upload open and may restart once, across losses.
SPECIFICATION FairSpec
CONSTANTS
    Posters = {p1, p2}
    Keys = {k1, k2, k3}
    NoKey = NoKey
    Total = 2
    Rejected = {p2}
    UploadTTL = 3
    MaxOpen = 1
    ChunkTimeout = 1
    RetryDeadline = 1
    MinJitter = 1
    MaxJitter = 1
    MaxDelay = 1
    MaxLosses = 1
    MaxCorrupt = 0
    MaxTime = 9
    LatestStart = 0
INVARIANTS
    OpenWithinLimit
PROPERTIES
    PostTerminates
CHECK_DEADLOCK FALSE
