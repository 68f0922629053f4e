SPECIFICATION FairSpec
CONSTANTS
    e1 = e1
    e1a = e1a
    e2 = e2
    None = None
    N = 2
    Endpoints <- MCEndpoints
    Physical <- MCPhysical
    MIDs = {m1, m2}
    NSTART = 1
    MAX_RETRANSMIT = 1
    ACK_TIMEOUT = 1
    JitterSpan = 0
    Drivers = {d1}
INVARIANTS TypeOK NStartPerPeer BytesMatchRow 
PROPERTIES  RetriesNeverRefunded EveryConResolved
