\* One post of two chunks, no server restart: long enough for an upload to
\* expire under a slow client and for the post to start over under a new id.
SPECIFICATION Spec
CONSTANTS
    Posters = {p1}
    Keys = {k1, k2, k3}
    NoKey = NoKey
    Total = 2
    Rejected = {}
    UploadTTL = 5
    MaxOpen = 2
    ChunkTimeout = 1
    RetryDeadline = 2
    MinJitter = 1
    MaxJitter = 1
    MaxDelay = 2
    MaxLosses = 0
    MaxCorrupt = 1
    MaxTime = 20
    LatestStart = 0
SYMMETRY KeySymmetry
INVARIANTS
    PostedAtMostOnce
    CleanSuccessIsStored
    Inductive
PROPERTIES
    ImplementsPostOnce
CHECK_DEADLOCK FALSE
