SPECIFICATION StableSpec
CONSTANTS
  left = left
  right = right
  third = third
  a = a
  b = b
  qualified = qualified
  definition = definition
  edited = edited
  call = call
  File <- MCFile
  Name <- MCName
  Written <- MCWritten
  Bare <- MCBare
  Text <- MCText
  Defines <- MCDefines
  Uses <- MCUses
  PageSize = 1
  MaxStamp = 2
INVARIANT EdgesSurvive
INVARIANT RenamesRepaired
INVARIANT RefsConserved
INVARIANT NodesMatch
INVARIANT SiteOnce
SYMMETRY MCSymmetry
