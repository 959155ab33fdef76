CONSTANTS
  Senders = {s1, s2}
  Forcer = shutdown
  Cap = 2
  MaxMsgs = 4
SPECIFICATION ClientSpec
INVARIANT NoPanic
CHECK_DEADLOCK FALSE
