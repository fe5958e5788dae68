CONSTANTS
  Clients <- Every
  Overlapping <- NodeOnly
  Waiter = {w1, w2}
  MaxDoc = 2
  MaxFeed = 2
  NoDoc = NoDoc
  NoState = NoState
SPECIFICATION Spec
INVARIANTS TypeOK OwnDocument OneAnswer WallsTold SessionReleased
PROPERTIES LastResort WaitsDecided
\* One watch spans one navigation: every task waits once, and then all is over.
CHECK_DEADLOCK FALSE
