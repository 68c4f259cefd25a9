\* Stream captures in process, nested in any mix, and out of process.
CONSTANTS
    Streams = {"out", "err"}
    Buffered = {"out"}
    Modes = {TRUE, FALSE}
    TmpFileFails = TRUE
    Renesting = FALSE
    MaxDepth = 3
    MaxMessages = 4
SPECIFICATION Spec
CHECK_DEADLOCK FALSE
INVARIANTS DescriptorsSafe OutputExact
