SPECIFICATION Spec
CONSTANTS
  Ids = {i1, i2}
  Turns = 1
  MaxCalls = 3
  MaxBlocks = 3
  Prompt = TRUE
  Skills = {{w1}, {w2}}
  w1 = w1
  w2 = w2
  None = none
CHECK_DEADLOCK FALSE
INVARIANT SeedKeepsImages
