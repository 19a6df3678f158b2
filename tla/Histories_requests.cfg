SPECIFICATION Spec
CONSTANTS
  Ids = {i1, i2, i3}
  Turns = 2
  MaxCalls = 3
  MaxBlocks = 3
  Prompt = TRUE
  Skills = {{w1}, {w2}}
  w1 = w1
  w2 = w2
  None = none
SYMMETRY Symmetry
CHECK_DEADLOCK FALSE
INVARIANTS WellPaired OneSystem ImagesOnce IntactKept ProtocolsAgree EchoFaithful
