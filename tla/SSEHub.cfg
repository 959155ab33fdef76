CONSTANTS
  c1 = c1
  c2 = c2
  c3 = c3
  t1 = t1
  t2 = t2
  u1 = u1
  u2 = u2
  Clients = {c1, c2, c3}
  Trees = {t1, t2}
  Users = {u1, u2}
  TreeOf <- MCTreeOf
  UserOf <- MCUserOf
  Broadcasters = {b1, b2}
  PerUser = 1
  PerTree = 1
  Total = 2
  Producers = {p1, p2}
  Cap = 1
  Retention = 0
  MaxSeq = 3
  MaxNow = 1
  OutCap = 1
  MaxConns = 2
  MaxSync = 1
SPECIFICATION BothSpec
INVARIANTS RegistryConsistent LimitsHold ClosedNotRegistered NoGapBetweenReplayAndLive
PROPERTIES ShutdownReturns QueuedIsDelivered
CHECK_DEADLOCK FALSE
