SPECIFICATION FairSpec
CONSTANTS
    s1 = s1
    s2 = s2
    s3 = s3
    s4 = s4
    r1 = r1
    r2 = r2
    Sensors <- MCSensors
    RegsOf <- Registry
    InitialGroups <- Table
    Once <- ReadOnce
    Runs <- TwoRuns
    Refusable <- AnyRefused
    MaxDepth = 1
INVARIANTS
    TypeOK
    NoSensorLost
    GuardExact
PROPERTIES
    BlameIsFair
    BatchEnds
    GoodSensorsRead
    BadSensorsFound
