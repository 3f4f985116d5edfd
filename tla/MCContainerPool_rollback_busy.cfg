SPECIFICATION Spec
CONSTANTS
  r1 = r1
  r2 = r2
  w1 = w1
  w2 = w2
  c1 = c1
  c2 = c2
  c3 = c3
  Requests = {r1, r2}
  Containers = {c1, c2}
  Versions = {v1, v2}
  FirstVersion = v1
  Warm = {c1}
  Workers = {}
  Cleanups = {k1}
  Spleen = spleen
  None = None
  DbFails = FALSE
  DockerFails = FALSE
  ClientsLeave = FALSE
  MaxCrashes = 0
CHECK_DEADLOCK FALSE
INVARIANTS
  RollbackSparesBusy
