CONSTANTS
    MaxRuns = 2
    MaxLines = 3
    MaxTotal = 3
    Ring = 2
    QueueMax = 2
    Streams = {s1}
SPECIFICATION Spec
CONSTRAINT FewLines
CHECK_DEADLOCK FALSE
INVARIANTS TypeOK InOrder NoGap ClosedUnsubscribed
