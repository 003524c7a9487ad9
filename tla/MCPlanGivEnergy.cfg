SPECIFICATION Spec
CONSTANTS
    Configs <- GivEnergyEntry
    MaxFailures = 0
INVARIANT SourceIsOwn
