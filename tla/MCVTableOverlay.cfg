CONSTANTS
    plain = plain
    multi = multi
    a = a
    b = b
    Objects = {plain, multi}
    Overlays = {a, b}
    ClassOf <- MCClassOf
    MethodSlots <- MCMethodSlots
    Fns = {1, 2}
    MaxExtra = 2
    Restack = FALSE
    AnyOrder = FALSE
SPECIFICATION FairSpec
CHECK_DEADLOCK FALSE
INVARIANTS TablesSafe DispatchExact HooksExact
PROPERTY DeletionCompletes
