SPECIFICATION FairSpec
CHECK_DEADLOCK FALSE
CONSTANTS
  v = v
  r = r
  Tasks = {v, r}
  Kind <- EndKind
  ModelBacked = {v, r}
  AdminOnly = {}
  Then <- NoThen
  Execs = {e1, e2, e3}
  None = None
  Budgets <- JustCalm
INVARIANTS
  TriggerSurvives
PROPERTIES
  QueueDrains
  TriggerIsAnswered
