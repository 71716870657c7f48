CONSTANTS
  Replaces <- BothKinds
  MaxEvent = 3
  MaxOwn = 1
  MaxFault = 2
  MaxHost = 1
SPECIFICATION FairSpec
INVARIANTS ProjectedOnce CursorVouches
PROPERTIES ReplayArrives Recovers
CHECK_DEADLOCK FALSE
