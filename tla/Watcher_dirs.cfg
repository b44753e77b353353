SPECIFICATION Spec
CONSTANTS
  left = left
  right = right
  root = root
  File = {left, right}
  Root = root
  MaxEdit = 3
  MaxNow = 2
  MaxFault = 1
INVARIANT NoLostEdit
CHECK_DEADLOCK FALSE
SYMMETRY Symmetry
