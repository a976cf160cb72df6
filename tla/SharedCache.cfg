SPECIFICATION CacheFairSpec
CHECK_DEADLOCK FALSE
CONSTANTS
  Callers = {c1, c2, c3}
  NoCaller = NoCaller
  MaxCancels = 3
  MaxFailures = 2
INVARIANTS
  OneFetch
PROPERTIES
  CallsEnd
