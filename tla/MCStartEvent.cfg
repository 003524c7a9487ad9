SPECIFICATION Spec
CONSTANTS
    tick1 = tick1
    tick2 = tick2
    Ticks <- OneTick
    Poll = Poll
    StartedBy = "event"
    SerialSlave = FALSE
    SuppressNight = FALSE
    IssueAfter = 2
    MaxWrites = 0
INVARIANTS
    QuietAfterStop
