SPECIFICATION Spec
CONSTANTS
  MaxBytes = 4
  Capacity = 1
  Threshold = 2
  PageChars = 2
  Limits = {1, 2, 3}
CHECK_DEADLOCK FALSE
INVARIANTS LiveComplete OkIsComplete ReadBackWhole
PROPERTIES QuietAfterReturn CallReturns
