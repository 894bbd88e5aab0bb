SPECIFICATION FairSpec
CONSTANTS
    c1 = c1
    c2 = c2
    c3 = c3
    Instances <- MCOne
    Clients <- MCClients
    Home <- MCHome
    Streaming <- MCStreaming
    Invalid <- MCInvalid
    DummyRun = FALSE
    Capacity = 1
    MaxRequests = 2
    MaxBoots = 3
    MaxFailures = 2
CHECK_DEADLOCK FALSE
INVARIANTS
    OneEngine
    SenderReachesEngine
    
PROPERTIES
    EveryWaitEnds
