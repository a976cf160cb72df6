\* Three runs that replace one another, each with one event of its generator and
\* those of a failure, and a client that comes and goes (the proofs hold for any
\* number of them).
SPECIFICATION FairSpec
CONSTANTS
  MaxRuns = 3
  MaxChunks = 1
  Conns = {c1}
  None = None
INVARIANTS
  DeliveredIsPrefix
  OnlyCurrentDrains
  FinishedIsEvictable
PROPERTIES
  ImplementsReplayLog
  TasksEnd
  StreamsClose
