SPECIFICATION Spec
CONSTANTS
  Program <- MCFns
  Classes = {"C", "M"}
  MaxBlocks = 2
  MaxCount = 2
  MaxWrappers = 3
CHECK_DEADLOCK FALSE
INVARIANTS BlocksExact CallsExact
PROPERTY ArgumentsIntact
