\* EmailLibrary: a search, and a deletion among its results.
\* The budget may be spent and the window closed.
SPECIFICATION Spec
CONSTANTS
    None = None
    Accounts = {"a1", "a2"}
    First = "a1"
    Folders = {"Inbox", "Sent"}
    Inbox = "Inbox"
    Has <- MCHas
    Stored <- MCStored
    Answered <- MCAnswered
    Queries = {"q", "p", "z"}
    Hits <- MCHits
    Bodies <- MCBodies
    Slots = 1
    Budgets <- MCSearchThenDelete
INVARIANT
    DeletesItsRow
CHECK_DEADLOCK FALSE
