SPECIFICATION FairSpec
CONSTANTS
  Route <- BothRoutes
  Call <- FirstIsCall
  MaxEvent = 2
  MaxWorker = 2
  MaxFault = 1
CHECK_DEADLOCK FALSE
INVARIANTS AdmittedOnce OwedIsKept JoinStaysAttached
PROPERTIES OwedIsTaken ReleaseEnds
