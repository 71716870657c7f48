SPECIFICATION Spec
CONSTANTS
  k1 = k1
  k2 = k2
  d1 = d1
  d2 = d2
  a1 = a1
  a2 = a2
  Op = {o1}
  Agent = {a1, a2}
  Seeded = {o1}
  Caller = {k1, k2}
  Driver = {d1, d2}
  MaxCrash = 2
  MaxChange = 1
  MaxRetire = 1
  NoOp = NoOp
  Unselected = Unselected
CHECK_DEADLOCK FALSE
INVARIANTS DoneMeansWhole RecordedIsDestroyed
PROPERTIES ForksEnd
