CONSTANTS
    LastSequence = 2
    Deliverers = {d1, d2}
    Chunks = 2
    FailureLimit = 1
    QueueDepth = 2
    MaxRestarts = 1
    MaxAttempts = 1
SPECIFICATION FedSpec
INVARIANT AtLeastOnce
CHECK_DEADLOCK FALSE
