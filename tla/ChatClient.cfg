\* Two chats and up to four sends, in thirteen budgets: switching and stopping,
\* dropped streams, queued messages, a failed history, slow and failed uploads,
\* a run to rejoin after a reload, refused POSTs, errors read in the background.
\* The budgets run out, so the page really comes to rest.
SPECIFICATION Spec
CHECK_DEADLOCK FALSE
CONSTANTS
  Sessions = {A, B}
  OpenFirst = {A}
  Cap = 1
  MaxTurns = 4
  Budgets <- MCBudgets
INVARIANTS
  BoxIsCurrent
  UnseenIsMarked
  BoundedRecovery
PROPERTIES
  StopHitsOpenChat
  ComposerUnlocks
