SPECIFICATION Spec
CONSTANTS
  c1 = c1  t1 = t1  t2 = t2  x1 = x1  x2 = x2
  NoTask = NoTask
  NoExecutor = NoExecutor
  Call <- OneCall
  Task <- TwoTasks
  Executor <- Executors
  LostCall <- NoCalls
  Routes <- AllRoutes
  MaxClaim = 2
  MaxOutput = 1
  MaxFault = 1
SYMMETRY Slots
CHECK_DEADLOCK FALSE
INVARIANTS RowIsJournaled CacheExactAtRest
PROPERTIES NoResurrection SupersededNeverAccepted KeepsPromise
