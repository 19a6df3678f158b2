SPECIFICATION AwaitFairSpec
CONSTANTS
  Waiters = {w1, w2, w3}
  w1 = w1
  w2 = w2
  w3 = w3
  Anyone = Anyone
  Copies = 1
  Wild = 1
INVARIANTS NoMisroute NoDecisionLost
PROPERTIES StashWakesOwner CancelReleases
