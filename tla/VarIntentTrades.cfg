SPECIFICATION FairSpec
CONSTANTS
    MaxIntents = 3
    Mixes = {"strategy"}
    Naming = {TRUE}
    HedgesFail = FALSE
    StaleSnapshots = FALSE
INVARIANTS
    TypeOK
    NeverDoubles
    MirroredAtRest
PROPERTIES
    CommitsAreSerial
    NothingStays
\* Variational and the bounded runtime may come to rest.
CHECK_DEADLOCK FALSE
