\* The document editor in the browser: saves, switches, streams and reviews.
\* The user may stop at any time, so a behaviour may end.
SPECIFICATION Spec
CONSTANTS
    Docs = {d1, d2, d3}
    Stored = {d1, d2}
    Temps = {t1, t2}
    MaxMarks = 3
    MaxFlight = 2
    Budgets <- MCBudgets
INVARIANTS
    NoForeignContent
    DiffIsOfActive
    OneTemp
PROPERTIES
    SavesSettle
CHECK_DEADLOCK FALSE
