SPECIFICATION FairSpec
CONSTANTS
    FirmQty = 2
    VarQtys = {2}
    MaxAttempts = 2
    Kinds = {"open"}
    LateLanding = TRUE
INVARIANTS
    FinalIsTrue
    OverfillIsCorrected
PROPERTIES
    CommitSettles
\* A settled record has nothing left to do.
CHECK_DEADLOCK FALSE
