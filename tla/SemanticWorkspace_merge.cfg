CONSTANTS
  Context = {c1, c2}
  File = {f, g}
  Value = {v0, v1, v2}
  Initial = v0
  NoContext = NoContext
  MaxEvent = 4
  MaxApp = 3
  MaxEdit = 2
  MaxDrop = 1
SPECIFICATION Spec
SYMMETRY Alike
INVARIANTS IntegrationKeepsSource IntegrationStands
PROPERTY MainFastForwards
CHECK_DEADLOCK FALSE
