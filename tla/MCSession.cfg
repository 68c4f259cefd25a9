CONSTANTS
  Hosts <- MCHosts
  Program <- MCProgram
  Libraries <- MCLibraries
  Directories = {"/a", "/b"}
  Existing = {"/a", "/usr/include"}
  BoxNames = {b1, b2}
  Payloads = {p1, p2}
  Null = Null
  Uses <- MCUses
  MaxSize = 4
SYMMETRY MCSymmetry
SPECIFICATION Spec
CHECK_DEADLOCK FALSE
INVARIANTS CreatedAsAsked InputsExact PathsInStep BoxCountExact
