SPECIFICATION FairSpec
CONSTANTS
    e1 = e1
    e2 = e2
    cl1 = cl1
    cl2 = cl2
    r1 = r1
    r2 = r2
    None = None
    Entries <- TwoEntries
    Guarded <- OneEntry
    Clients <- TwoClients
    Runs <- TwoRuns
    Kinds = {"connect", "request"}
    MaxTeardowns = 2
    MaxSetups = 2
INVARIANTS
    ClientFollowsEntries
PROPERTIES
    ReleasedPortIsClosed
    ReconnectsUnlessStray
CHECK_DEADLOCK FALSE
