SPECIFICATION Spec
CONSTANTS
  one = one
  two = two
  three = three
  f = f
  g = g
  x = x
  y = y
  Gone = Gone
  None = None
  Call = {one, two, three}
  File = {f, g}
  Content = {x, y}
  MaxCalls = 2
  MaxViewCalls = 1
  MinCovered = 2
  Asks <- MCAsks
INVARIANT NeverFalse
CHECK_DEADLOCK FALSE
