SPECIFICATION Spec
CONSTANTS
  Servers = {s1, s2}
  s1 = s1
  s2 = s2
  Callers = {p1, p2}
  p1 = p1
  p2 = p2
  MaxDials = 3
INVARIANTS NoConnectionLost SingleOwner RightServer
CHECK_DEADLOCK FALSE
