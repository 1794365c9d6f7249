SPECIFICATION FairSpec
CONSTANTS
    Commands = {1}
    Sockets = {1, 2, 3}
    MaxFaults = 3
    ReloadsSpare = TRUE
INVARIANTS
    TypeOK
PROPERTIES
    CommitIsHonest
    ChannelHeals
\* When every command has been answered there may be nothing left to do.
CHECK_DEADLOCK FALSE
