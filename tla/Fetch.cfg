\* One client fetches a page of one to three chunks, which is edited
\* meanwhile, over a link that loses and delays frames, from a server that
\* restarts once, has room for one transfer, and serves another client and
\* another call of the same client too.
SPECIFICATION FairSpec
CONSTANTS
    c1 = c1
    c2 = c2
    f1 = f1
    f2 = f2
    f3 = f3
    Clients = {c1, c2}
    Ids = {f1, f2, f3}
    Others = {f2, f3}
    Bodies = {"one", "two", "three"}
    Sizes <- MCSizes
    MaxToken = 0
    TTL = 3
    Linger = 2
    MaxTotal = 1
    MaxPerClient = 1
    MaxSend = 1
    MaxSending = 1
    MaxTime = 6
    ClientOf <- MCClientOf
    Pages = {p}
    PageOf <- MCPageOf
    NoBody = NoBody
    Packed = {"two"}
    ChunkTimeout = 1
    RetryDeadline = 2
    MaxJitter = 0
    MaxDelay = 1
    MaxEdits = 1
    MaxRestarts = 1
    LatestStart = 0
PROPERTIES
    ImplementsPageRead
    FetchTerminates
CHECK_DEADLOCK FALSE
