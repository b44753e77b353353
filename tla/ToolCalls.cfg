SPECIFICATION SessionSpec
CONSTANTS
  a = a
  b = b
  c = c
  d = d
  e = e
  one = one
  two = two
  three = three
  None = None
  Node <- MCNode
  Container <- MCContainer
  Call <- MCCall
  Situations <- MCSituations
  MaxViewCalls = 1
INVARIANT TypeOK
INVARIANT Bounded
INVARIANT OnePiece
INVARIANT PathIsShortest
INVARIANT NoLeak
INVARIANT AlreadySentWasSent
INVARIANT ExploresSeeEachOther
PROPERTY AllAnswered
PROPERTY StopHonoured
CHECK_DEADLOCK FALSE
