SPECIFICATION AwaitFairSpec
CONSTANTS
  Waiters = {w1, w2}
  w1 = w1
  w2 = w2
  Anyone = Anyone
  Copies = 1
  Wild = 0
PROPERTIES DecisionReachesOwner
