SPECIFICATION Spec
CONSTANTS
    Reconcilers = {"loop", "operator", "watchdog"}
    MaxOrders = 2
    MaxDrifts = 1
    MaxRevisions = 0
    MaxActions = 1
INVARIANTS
    TypeOK
    PauseKeepsOwner
    ReloadSparesOrders
PROPERTIES
    NoFalseAlarm
\* The bounded environment may come to rest.
CHECK_DEADLOCK FALSE
