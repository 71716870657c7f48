SPECIFICATION ObservationSpec
CONSTANTS
  c1 = c1
  c2 = c2
  Absent = Absent
  NoParent = NoParent
  Unborn = Unborn
  NoRow = NoRow
  NoRequest = NoRequest
  Channel = {c1, c2}
  Root = {c1}
  ForkPlan <- OneFork
  Awaited = {c2}
  PageLimit = 2
  MaxEvent = 2
  MaxWorker = 2
  Interrupted = TRUE
CHECK_DEADLOCK FALSE
INVARIANTS GraphFollowsLedger WaitVouches
PROPERTIES WaitersSettle
