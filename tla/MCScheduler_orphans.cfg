SPECIFICATION Spec
CONSTANTS
  s1 = s1
  s2 = s2
  f1 = f1
  f2 = f2
  f3 = f3
  e1 = e1
  e2 = e2
  Schedules = {s1}
  Functions = {f1, f2}
  NameOf <- OneName
  Deletes = {e1}
  None = None
  MaxCrashes = 1
  Faults = {"read"}
CHECK_DEADLOCK FALSE
PROPERTIES
  OrphansOnly
