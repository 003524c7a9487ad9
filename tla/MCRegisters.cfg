SPECIFICATION FairSpec
CONSTANTS
    Unknown = Unknown
    Registers <- SomeRegisters
    Starts <- SomeStarts
    Switches <- SomeSwitches
    Selects <- SomeSelects
    Requests <- SomeRequests
    MaxCalls = 2
    MaxFailures = 1
    MaxResets = 1
    MaxQueue = 2
INVARIANTS
    DispatchTypeOK
    OffStaysOff
    SelectRoundTrip
PROPERTIES
    OtherBitsSurvive
    OmittedIsKept
    CacheConverges
    CallsEnd
CHECK_DEADLOCK FALSE
