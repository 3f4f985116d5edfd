SPECIFICATION ShutdownSpec
CONSTANTS
  r1 = r1
  j1 = j1
  w1 = w1
  c1 = c1
  c2 = c2
  Requests = {r1, j1}
  Jobs = {j1}
  Containers = {c1, c2}
  Versions = {v1}
  FirstVersion = v1
  Warm = {}
  Workers = {w1}
  Cleanups = {}
  Spleen = spleen
  None = None
  DbFails = FALSE
  DockerFails = FALSE
  CleanupFails = TRUE
  ClientsLeave = TRUE
  MaxCrashes = 0
SYMMETRY Symmetry
CHECK_DEADLOCK FALSE
INVARIANTS
  ShutdownTypeOK
  DrainedAreSpared
  CleanExit
  MainNeverStuck
PROPERTIES
  UnstoppedStayKnown
  ShutdownAdvances
