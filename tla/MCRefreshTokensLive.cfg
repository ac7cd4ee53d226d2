\* Replay is followed up, whichever request died before.
SPECIFICATION FairSpec
CONSTANTS
  Users = {u1}
  Requests = {r1, r2}
  Ttl = 1
  MaxTokens = 3
  MaxTime = 1
  MaxFailures = 1
PROPERTIES
  ReplayRevokesEveryRow
