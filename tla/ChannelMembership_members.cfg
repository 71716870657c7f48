SPECIFICATION Spec
CONSTANTS
  t1 = t1
  t2 = t2
  a1 = a1
  u1 = u1
  o1 = o1
  o2 = o2
  NoOne = NoOne
  NoOp = NoOp
  NoTask = NoTask
  Participant = {a1}
  Session = {}
  Task = {t1, t2}
  Op = {o1, o2}
  RouteOf <- MCRouteOf
  Handler = {"join", "leave", "detach", "publish", "derive"}
  Inherited <- MCNothing
  MaxLog = 5
  Page = 1
  MaxFact = 1
  MaxStream = 1
  MaxFault = 1
  MaxUpgrade = 1
INVARIANTS ProjectionIsFold NothingLost
PROPERTIES EndedByOwner
SYMMETRY MCSymmetry
CHECK_DEADLOCK FALSE
