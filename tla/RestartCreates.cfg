SPECIFICATION Spec
CONSTANTS
    MaxTrades = 1
    MaxCrashes = 1
    MaxTries = 2
    Unfilled = {"open"}
    Overtakes = {}
    Manual = FALSE
PROPERTIES
    RestoredNeverCreates
\* The bounded runtime comes to rest.
CHECK_DEADLOCK FALSE
