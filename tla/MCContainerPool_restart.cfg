SPECIFICATION FairSpec
CONSTANTS
  r1 = r1
  r2 = r2
  w1 = w1
  w2 = w2
  c1 = c1
  c2 = c2
  c3 = c3
  Requests = {r1, r2}
  Containers = {c1, c2}
  Versions = {v1}
  FirstVersion = v1
  Warm = {}
  Workers = {w1}
  Cleanups = {}
  Spleen = spleen
  None = None
  DbFails = FALSE
  DockerFails = TRUE
  ClientsLeave = TRUE
  MaxCrashes = 1
CHECK_DEADLOCK FALSE
INVARIANTS
  RecordOfAnswered
PROPERTIES
  ImplementsLeases
  RowsReclaimed
  EveryRequestAnswered
