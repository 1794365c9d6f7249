SPECIFICATION Spec
CONSTANTS
    FirmQty = 3
    VarQtys = {1, 3, 4}
    MaxAttempts = 3
    Kinds = {"open", "close", "manual"}
    LateLanding = FALSE
INVARIANTS
    TypeOK
    NoBlindResend
    NoOverfill
    KnowledgeIsTrue
    RollbackCoversFills
PROPERTIES
    ReportsNeverRollBack
    FlattenIsExclusive
    MatchedIsNotFlattened
\* A settled record has nothing left to do.
CHECK_DEADLOCK FALSE
