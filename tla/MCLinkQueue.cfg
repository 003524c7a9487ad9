SPECIFICATION FairSpec
CONSTANTS
    c1 = c1
    c2 = c2
    k1 = k1
    k2 = k2
    cl1 = cl1
    cl2 = cl2
    NoClient = NoClient
    NoTask = NoTask
    Writer = Writer
    Controllers <- OneController
    Callers <- TwoCallers
    Clients <- OneClient
    ConnectionType = "serial"
    MaxWrites = 2
    FailureCap = 0
INVARIANTS
    TypeOK
PROPERTIES
    WritesImplemented
    EveryWaitEnds
    WritesAreDone
    OrphansAreClosed
CHECK_DEADLOCK FALSE
