CONSTANTS
  cpp1 = cpp1
  cpp2 = cpp2
  cpp3 = cpp3
  ext1 = ext1
  NULL = NULL
  Owned = {cpp1, cpp2, cpp3}
  External = {ext1}
  ShutdownDrains = TRUE
  Busy = {cpp1}
  MaxSlots = 4
  MaxAnchors = 2
SPECIFICATION Spec
SYMMETRY IdleSymmetry
INVARIANTS TypeOK OwnershipExact StackDisciplineKeepsSlots OdrAnchorsDistinct
PROPERTY RefinesStack
