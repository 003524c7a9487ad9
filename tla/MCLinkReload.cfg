SPECIFICATION Spec
CONSTANTS
    c1 = c1
    c2 = c2
    k1 = k1
    k2 = k2
    cl1 = cl1
    cl2 = cl2
    NoClient = NoClient
    NoTask = NoTask
    Writer = Writer
    Controllers <- TwoControllers
    Callers <- OneCaller
    Clients <- TwoClients
    ConnectionType = "tcp"
    MaxWrites = 1
    FailureCap = 0
SYMMETRY ControllerSymmetry
INVARIANTS
    OneTaskOnTheLink
    RefCountIsExact
    ReleasedClientIsClosed
PROPERTIES
    ClosedNeverConnects
    SharedClientSurvives
    FramesSpaced
CHECK_DEADLOCK FALSE
