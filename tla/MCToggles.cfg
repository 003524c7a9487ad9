SPECIFICATION DispatchSpec
CONSTANTS
    Unknown = Unknown
    Registers <- TwoRegisters
    Starts <- OneStart
    Switches <- TwoSwitches
    Selects = {}
    Requests = {}
    MaxCalls = 2
    MaxFailures = 0
    MaxResets = 0
    MaxQueue = 2
INVARIANTS
    TogglesAdd
CHECK_DEADLOCK FALSE
