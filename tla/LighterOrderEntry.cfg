SPECIFICATION FairSpec
CONSTANTS
    Orders = {1, 2}
    QueueSize = 1
    MaxSockets = 2
INVARIANTS
    TypeOK
    NoncesAreUnique
    ClosedIsQuiet
PROPERTIES
    SentAtMostOnce
    SubmissionEnds
\* When all is submitted and closed there is nothing left to do.
CHECK_DEADLOCK FALSE
