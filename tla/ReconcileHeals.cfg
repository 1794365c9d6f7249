SPECIFICATION FairSpec
CONSTANTS
    Reconcilers = {"loop"}
    MaxOrders = 2
    MaxDrifts = 1
    MaxRevisions = 1
    MaxActions = 0
PROPERTIES
    ReconcileHeals
\* The bounded environment may come to rest.
CHECK_DEADLOCK FALSE
