SPECIFICATION Spec
CONSTANTS
  MaxBytes = 3
  Capacity = 1
  Threshold = 2
  PageChars = 2
  Limits = {1}
CHECK_DEADLOCK FALSE
INVARIANT LiveKeepsCharacters
