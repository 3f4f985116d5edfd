SPECIFICATION Spec
CONSTANTS
  d1 = d1
  d2 = d2
  d3 = d3
  d4 = d4
  Deploys = {d1, d2, d3}
  Past <- OnePast
  Rollbacks = {b1}
  Deletes = {e1}
  None = None
  Faults = {"image", "silentPush", "query", "deactivate", "create", "registry", "delete", "cleanup"}
CHECK_DEADLOCK FALSE
SYMMETRY Symmetry
INVARIANTS
  TypeOK
  AtMostOneActive
  ServingUnlessDeploying
  RowsHaveTheirImage
