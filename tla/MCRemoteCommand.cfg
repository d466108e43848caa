CONSTANTS
    Out = "out"
    Err = "err"
    MaxSent = 3
    Window = 2
SPECIFICATION CommandSpec
CHECK_DEADLOCK FALSE
INVARIANTS AllCollected
PROPERTIES Returns
