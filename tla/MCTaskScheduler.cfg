\* TaskScheduler, two budgets: events, requests, a pause and a crash; or a
\* forced run and a stop.
SPECIFICATION Spec
CONSTANTS
  v = v
  r = r
  Tasks = {v, r}
  Kind <- MCKind
  ModelBacked = {v, r}
  AdminOnly = {r}
  Then <- MCThen
  Execs = {e1, e2, e3, e4}
  None = None
  Budgets <- BusyOrRough
SYMMETRY ExecSymmetry
INVARIANTS
  OneRunUnlessStopped
  RegistriesAreLive
  NoPhantomRun
