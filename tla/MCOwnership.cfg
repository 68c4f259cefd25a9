SPECIFICATION Spec
CONSTANTS
    Programs <- MCPrograms
    Sources = {"f", "owner"}
    Sinks = {"d", "taker", "holder"}
    MaxObjects = 2
    Turns = 2
    Fuel = 3
CHECK_DEADLOCK FALSE
INVARIANTS FreedExactly
