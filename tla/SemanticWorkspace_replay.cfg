CONSTANTS
  A = A
  A2 = A2
  B = B
  D = D
  T = T
  f = f
  u = u
  v = v
  w = w
  x = x
  y = y
  v0 = v0
  Context = {A, A2, B, D, T}
  File = {f}
  Value = {u, v, w, x, y, v0}
  Initial = v0
  NoContext = NoContext
  MaxEvent = 8
  MaxApp = 14
  MaxEdit = 9
  MaxDrop = 0
SPECIFICATION ReplaySpec
INVARIANTS IntegrationStands IntegrationKeepsSource IntegrationsStayValid
CHECK_DEADLOCK FALSE
