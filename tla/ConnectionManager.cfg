SPECIFICATION RoutingSpec
CONSTANTS
  sse = sse
  nats = nats
  NoConn = NoConn
  Routers = {r1, r2}
  Conns = {c1, c2}
  Chain <- MCChain
  HasRelay = TRUE
  QueueCap = 1
  MaxMsgs = 2
INVARIANTS RoutingSound
SYMMETRY Interchangeable
