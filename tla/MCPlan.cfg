SPECIFICATION FairSpec
CONSTANTS
    Configs <- ManyConfigs
    MaxFailures = 1
INVARIANTS
    TypeOK
    NothingDead
    SourceIsOwn
PROPERTIES
    ReadOnce
    EveryEntityFed
