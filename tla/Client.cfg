\* Two clients of one user, one name and two servers, two pages at a time; or a
\* radio that changes four times and a caller that leaves at any point.
SPECIFICATION FairSpec
CONSTANTS
    Processes = {shell, other}
    Names = {home}
    Keys = {k1, k2}
    Off = Off
    Absent = Absent
    Torn = Torn
    MaxPosts = 2
    MaxOps = 5
    MaxTabs = 2
    MaxCuts = 1
    CloseRaises = TRUE
    MaxFaults = 4
INVARIANTS
    SavedIsSaved
    MarkIsOfItsServer
    LinkTypeOK
PROPERTIES
    LinkRecovers
    NothingOpensLater
CHECK_DEADLOCK FALSE
