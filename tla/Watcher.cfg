SPECIFICATION SeenSpec
CONSTANTS
  left = left
  right = right
  root = root
  File = {left, right}
  Root = root
  MaxEdit = 2
  MaxNow = 2
  MaxFault = 1
INVARIANTS TypeOK NoLostEdit
PROPERTIES Settles StopReturns
CHECK_DEADLOCK FALSE
