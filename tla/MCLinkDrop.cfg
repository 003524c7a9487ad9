SPECIFICATION Spec
CONSTANTS
    c1 = c1
    c2 = c2
    k1 = k1
    k2 = k2
    cl1 = cl1
    cl2 = cl2
    NoClient = NoClient
    NoTask = NoTask
    Writer = Writer
    Controllers <- OneController
    Callers <- OneCaller
    Clients <- OneClient
    ConnectionType = "tcp"
    MaxWrites = 1
    FailureCap = 1
SYMMETRY ControllerSymmetry
INVARIANTS
    NoSilentDrop
CHECK_DEADLOCK FALSE
