SPECIFICATION Spec
CONSTANTS
    Reconcilers = {"loop"}
    MaxOrders = 2
    MaxDrifts = 0
    MaxRevisions = 0
    MaxActions = 0
INVARIANTS
    IntentKept
\* The bounded environment may come to rest.
CHECK_DEADLOCK FALSE
