\* EmailLibrary, every budget of MCEmailLibrary.
\* The budget may be spent and the window closed.
SPECIFICATION Spec
CONSTANTS
    None = None
    Accounts = {"a1", "a2"}
    First = "a1"
    Folders = {"Inbox", "Sent"}
    Inbox = "Inbox"
    Has <- MCHas
    Stored <- MCStored
    Answered <- MCAnswered
    Queries = {"q", "p", "z"}
    Hits <- MCHits
    Bodies <- MCBodies
    Slots = 1
    Budgets <- MCBudgets
INVARIANTS
    OnlyTheChosen
    ListIsOfView
    DeletedStaysGone
PROPERTIES
    SpinnerIsEarned
CHECK_DEADLOCK FALSE
