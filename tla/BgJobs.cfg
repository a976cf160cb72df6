\* One job whose pid may be given away, with the monitor, live turns, a failing
\* follow-up and a crash of the server.
SPECIFICATION FairSpec
CONSTANTS
  Jobs = {j1}
  Pids = {p1, p2}
  Sessions = {s1}
  None = None
  Outcomes = {"ok", "bad"}
  MaxTurns = 2
  MaxFailures = 1
  MaxCrashes = 1
INVARIANTS
  OutcomeIsTrue
  FollowedMeansHeard
  AnsweredOncePerLife
PROPERTIES
  OutcomeIsFinal
  HearsBack
