SPECIFICATION FairSpec
CONSTANTS
  c1 = c1
  s1 = s1
  s2 = s2
  Containers = {c1}
  Streams = {s1, s2}
  Capacity = 2
  Lines <- ThreeLines
  Blank = {2}
  Backlog = 1
  None = None
  Faults = {"store", "inspect", "open"}
CHECK_DEADLOCK FALSE
INVARIANTS
  TypeOK
  OneStreamPerContainer
  NobodySendsOnClosed
  EachLineOnce
PROPERTIES
  LinesArrive
  LeaverIsForgotten
  DeadStreamsEnd
