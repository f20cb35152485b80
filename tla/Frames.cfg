\* A radio of 20 bytes: posts of up to three slices, tried nine times each, and
\* replies of up to four chunks and of one byte more.
SPECIFICATION Spec
CONSTANTS
    MaxSafe = 20
    MaxDest = 3
    MaxLen = 11
    MaxAttempts = 9
    MaxTotal = 4
    MaxSize = 29
    Dicts = {0, 1, 2}
INVARIANTS
    FramesHold
    ArrivesWhole
    NearRetriesDiffer
CHECK_DEADLOCK FALSE
