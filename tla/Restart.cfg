SPECIFICATION Spec
CONSTANTS
    MaxTrades = 2
    MaxCrashes = 2
    MaxTries = 2
    Unfilled = {"open"}
    Overtakes = {"close"}
    Manual = TRUE
INVARIANTS
    TypeOK
    NothingForgotten
    OrdersFindable
    HedgedOnce
    NeverDoubles
    FileLoads
\* The bounded runtime comes to rest.
CHECK_DEADLOCK FALSE
