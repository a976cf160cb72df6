\* One job, and a follow-up whose call to the model fails.
SPECIFICATION Spec
CONSTANTS
  Jobs = {j1}
  Pids = {p1}
  Sessions = {s1}
  None = None
  Outcomes = {"ok"}
  MaxTurns = 1
  MaxFailures = 1
  MaxCrashes = 0
INVARIANT TransientFailureIsRetried
