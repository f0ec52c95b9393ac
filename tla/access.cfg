SPECIFICATION LiveSpec
CONSTANTS
    k1 = k1 k2 = k2 d1 = d1 d2 = d2 a1 = a1 a2 = a2 h1 = h1 h2 = h2 w1 = w1
    None = None
    Codes <- TwoCodes
    ShortCodes <- OneShort
    Devices <- TwoDevices
    Venues <- TwoVenues
    Requests <- TwoRequests
    Workers <- OneWorker
    Scenarios <- All
    SyncLimit = 1
    MaxFaults = 1
INVARIANTS TypeOK OnlyClaimedOnRouter OneSessionPerJob OneUnreadAlert PrintedIsStored
PROPERTIES LifeSpec ClaimedReachesRouter OverdueSessionEnds StaleBypassDropped
CHECK_DEADLOCK FALSE
