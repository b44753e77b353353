SPECIFICATION UseSpec
CONSTANTS
  command = command
  tool = tool
  before = before
  after = after
  Absent = Absent
  Torn = Torn
  Caller = {command}
  Asks <- MCAsks
  Version <- MCVersion
  MaxFault = 1
INVARIANT ServedAsAsked
SYMMETRY MCSymmetry
