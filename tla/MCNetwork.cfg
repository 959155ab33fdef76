CONSTANTS
    Producers = {p1, p2, p3}
    Cap = 3
    Retention = 1
    MaxSeq = 5
    MaxNow = 2
    Rotators = {loop, manual}
    Writers = {w1}
    Registrations = {g1, g2}
    Tokens = {tk1}
    MaxKeyID = 3
    RelayEvents = {e1, e2, e3}
    RelayCapacity = 2
    MaxPosts = 2
    UpThreshold = 3
    DownThreshold = 2
    LastSequence = 2
    Deliverers = {d1, d2}
    Chunks = 2
    FailureLimit = 1
    QueueDepth = 2
    MaxRestarts = 1
    MaxAttempts = 1
    Origins = {1, 2}
    Receivers = {d1, d2}
    MaxSequence = 2
SPECIFICATION NetworkSpec
INVARIANTS NumbersAccounted ReplayExact  
PROPERTIES NothingOverridden
SYMMETRY NetworkSymmetry
CHECK_DEADLOCK FALSE
