SPECIFICATION Spec
CONSTANTS
    MaxIntents = 3
    Mixes = {"strategy", "operator"}
    Naming = {TRUE}
    HedgesFail = TRUE
    StaleSnapshots = FALSE
INVARIANTS
    FillsCountOnce
\* Variational and the bounded runtime may come to rest.
CHECK_DEADLOCK FALSE
