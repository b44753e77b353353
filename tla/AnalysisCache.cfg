SPECIFICATION UseSpec
CONSTANTS
  command = command
  tool = tool
  before = before
  after = after
  Absent = Absent
  Torn = Torn
  Caller = {command, tool}
  Asks <- MCAsks
  Version <- MCVersion
  MaxFault = 1
INVARIANT TypeOK
INVARIANT CachedIsCurrent
 
PROPERTY KeepsSnapshots
SYMMETRY MCSymmetry
