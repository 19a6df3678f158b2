SPECIFICATION Spec
CONSTANTS
  Calls = {c1, c2}
  Paths = {p1}
  MaxSlots = 2
  Capacity = 1
  MaxReplies = 1
  MaxForks = 2
  MaxRuns = 2
  None = none
CHECK_DEADLOCK FALSE
INVARIANTS UsageExact NoLostEdit ArchiveOfProcess
PROPERTY RunEnds
