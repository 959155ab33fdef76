CONSTANTS
    IterCalls = {i1, i2}
    Monitor = monitor
    MaxIterRev = 4
    MaxFeedback = 1
    GwRuns = {r1}
    GwCalls = {c1}
    Browsers = {b1}
    SubBuffer = 1
    MaxOnWire = 2
    RelayConns = {k1, k2, k3}
    SessionLimit = 2
    MaxRetries = 1
    StreamBuffer = 1
    MaxDeltas = 3
    RouteSets = {t1, t2}
    Profiles = {p1, p2}
    Senders = {s1, s2}
    Forcer = shutdown
    Cap = 2
    MaxMsgs = 4
    owner = owner
    Nodes = {n1}
    Users = {owner, other}
    OwnerOf <- OneOwner
    Calls = {g1, g2}
    MaxAudit = 4
    Binaries = {2, 3}
    Idempotent = {2}
    Altering = {3}
SPECIFICATION LiveSpec
INVARIANTS GatewayCurrent RelayDrains StreamsWhole  AuditAgreesWithRow EventsAgreeWithRow
PROPERTIES  DecisionIsFinal NoDecisionAfterDeadline 
CHECK_DEADLOCK FALSE
