\* Two clients, three requests, three tokens, two transfers a client.
SPECIFICATION StoreSpec
CONSTANTS
    Clients = {c1, c2}
    Ids = {i1, i2, i3}
    Bodies = {"long"}
    Sizes <- MCSizes
    MaxToken = 2
    TTL = 1
    Linger = 1
    MaxTotal = 3
    MaxPerClient = 2
    MaxSend = 1
    MaxSending = 1
    MaxTime = 2
SYMMETRY Symmetry
INVARIANTS
    CapsHold
    OneTransferPerRequest
PROPERTIES
    KeepsItsToken
CHECK_DEADLOCK FALSE
