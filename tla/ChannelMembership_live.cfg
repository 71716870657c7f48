SPECIFICATION FairSpec
CONSTANTS
  t1 = t1
  t2 = t2
  a1 = a1
  u1 = u1
  o1 = o1
  o2 = o2
  NoOne = NoOne
  NoOp = NoOp
  NoTask = NoTask
  Participant = {a1,u1}
  Session = {u1}
  Task = {t1, t2}
  Op = {o1, o2}
  RouteOf <- MCRouteOf
  Handler = {"join", "open", "close", "update", "derive"}
  Inherited <- MCNothing
  MaxLog = 3
  Page = 1
  MaxFact = 2
  MaxStream = 1
  MaxFault = 0
  MaxUpgrade = 0
PROPERTIES HandlersEnd
CHECK_DEADLOCK FALSE
