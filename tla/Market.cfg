CONSTANTS
    Changes = {{"bids"}, {"bids", "asks"}}
    MaxUpdates = 2
    MaxSignals = 2
    MaxFills = 2
    BatchLimit = 2
SPECIFICATION Spec
INVARIANTS
    TypeOK
    FrameIsFeed
    DrainedOnce
PROPERTIES
    NewsArrives
