SPECIFICATION FairSpec
CONSTANTS
    tick1 = tick1
    tick2 = tick2
    Ticks <- TwoTicks
    Poll = Poll
    StartedBy = "task"
    SerialSlave = TRUE
    SuppressNight = TRUE
    IssueAfter = 2
    MaxWrites = 1
INVARIANTS
    OneCheck
    QuietAfterStop
    IssueFlagHonest
PROPERTIES
    DuskClears
    WatchdogReconnects
    IssueClears
    StopEnds
