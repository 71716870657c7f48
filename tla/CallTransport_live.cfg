SPECIFICATION DeadlineSpec
CONSTANTS
  c1 = c1  t1 = t1  t2 = t2  x1 = x1  x2 = x2
  NoTask = NoTask
  NoExecutor = NoExecutor
  Call <- OneCall
  Task <- TwoTasks
  Executor <- Executors
  LostCall <- OneCall
  Routes <- External
  MaxClaim = 2
  MaxOutput = 0
  MaxFault = 1
CHECK_DEADLOCK FALSE
INVARIANT StartRaceNeverRecovers
PROPERTIES HandlersFinish DeadlineSettles
