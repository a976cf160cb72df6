\* The Cookbook's downloads in the browser client of two devices.
\* The user may stop at any time, so a behaviour may end.
SPECIFICATION Spec
CONSTANTS
    Pages = {"A", "B"}
    First = "A"
    Repos = {"m1", "m2"}
    HostOf <- MCHostOf
    Budgets <- MCBudgets
INVARIANTS
    QueuedStartsOnce
    JobIsListed
    BoundedRelaunches
    PollsSettle
PROPERTIES
    RemovedStaysRemoved
CHECK_DEADLOCK FALSE
