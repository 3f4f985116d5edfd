SPECIFICATION FairSpec
CONSTANTS
  d1 = d1
  d2 = d2
  d3 = d3
  d4 = d4
  Deploys = {d1, d2, d3}
  Past <- TwoPast
  Rollbacks = {b1, b2}
  Deletes = {e1}
  None = None
  Faults = {"create", "cleanup", "deactivate"}
CHECK_DEADLOCK FALSE
PROPERTIES
  StepsBack
  ImplementsRegistry
  CleanupIsRecorded
