SPECIFICATION Spec
CONSTANTS
  d1 = d1
  d2 = d2
  d3 = d3
  d4 = d4
  Deploys = {d1, d2, d3}
  Past <- TwoPast
  Rollbacks = {b1}
  Deletes = {}
  None = None
  Faults = {}
CHECK_DEADLOCK FALSE
INVARIANTS
  RollbackAnswers
