\* Two clients whose contacts are renewed while their paths are looked up; two
\* servers, one with a name too long for its marker.
SPECIFICATION FairSpec
CONSTANTS
    Clients = {c1, c2}
    Hops = {1, 2}
    MaxReports = 4
    MaxRequests = 4
    Nodes = {n1, n2}
    Wide = {n2}
    MaxTroubles = 2
INVARIANTS
    ReplyPathIsItsOwn
    ListIsRight
PROPERTIES
    ServersAreFound
CHECK_DEADLOCK FALSE
