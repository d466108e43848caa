CONSTANTS
    Jobs = {j1}
    Streams = {s1, s2}
    MaxProgress = 2
    None = None
SPECIFICATION FairSpec
CHECK_DEADLOCK FALSE
INVARIANTS TypeOK Replays FailureExplained SecretZeroed DoneIsDone
PROPERTIES StreamEnds
