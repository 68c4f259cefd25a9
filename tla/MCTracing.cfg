SPECIFICATION TracingSpec
CONSTANTS
    GetVersion = GetVersion
    GetBuildInfo = GetBuildInfo
    Functions = {GetScope, GetVersion, GetBuildInfo}
    Pointers = {p, q}
    Containers = {c}
    None = None
    Vectors <- MCVectors
    Fills <- MCFills
    MaxCalls = 2
    MaxOthers = 1
    MaxRegions = 1
    MaxLog = 4
    MaxDepth = 2
    MaxContent = 2
CHECK_DEADLOCK FALSE
SYMMETRY PointersAlike
INVARIANTS LogExact FilesExact
