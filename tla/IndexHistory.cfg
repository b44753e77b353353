SPECIFICATION HistorySpec
CONSTANTS
  left = left
  right = right
  a = a
  b = b
  qualified = qualified
  definition = definition
  call = call
  File <- MCFile
  Name <- MCName
  Written <- MCWritten
  Bare <- MCBare
  Text <- MCText
  Defines <- MCDefines
  Uses <- MCUses
  PageSize = 1
  MaxStamp = 2
INVARIANT TypeOK
INVARIANT NoMaskedChange
INVARIANT TrackedIsStored
INVARIANT RunFresh
INVARIANT FullTriesAll
INVARIANT SyncRepairs
PROPERTY SettlesUpToDate
