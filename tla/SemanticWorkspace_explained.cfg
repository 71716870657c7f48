CONSTANTS
  Context = {c1, c2}
  File = {f}
  Value = {v0, v1, v2}
  Initial = v0
  NoContext = NoContext
  MaxEvent = 4
  MaxApp = 3
  MaxEdit = 3
  MaxDrop = 1
SPECIFICATION Spec
SYMMETRY Alike
INVARIANT ComparisonExplained
CHECK_DEADLOCK FALSE
