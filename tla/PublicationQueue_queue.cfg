SPECIFICATION Spec
CONSTANTS
  p1 = p1
  p2 = p2
  p3 = p3
  p4 = p4
  e1 = e1
  e2 = e2
  e3 = e3
  Pub = {p1, p2, p3, p4}
  NoPub = NoPub
  ParentOf <- Nested
  Envelope = {e1, e2, e3}
  EnvelopeOf <- Retried
  Observer = {o1}
  Capacity = 2
  NoHorizon = NoHorizon
CHECK_DEADLOCK FALSE
INVARIANTS StoredInOrder HorizonHolds
PROPERTIES DrainVouches ReceiptsSettle ReleaseEnds
