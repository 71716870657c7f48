SPECIFICATION FairSpec
CONSTANTS
  c1 = c1
  c2 = c2
  m1 = m1
  m2 = m2
  d1 = d1
  d2 = d2
  Cmd = {c1, c2}
  Manual = {m1}
  Digest = {d1, d2}
  Home = d1
  MaxRuns = 1
  MaxTick = 1
  MaxEdit = 1
  MaxAsk = 2
CHECK_DEADLOCK FALSE
INVARIANTS OneLive RecordedSessionEnds ReleaseVouches
PROPERTIES StopHolds RunsEnd
