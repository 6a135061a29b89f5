SPECIFICATION Spec
CONSTANTS
  Ops = {d1}
  Slots = {t1, t2}
  MaxEpoch = 2
  MaxInbox = 1
  Reconnect = TRUE
  ReconnectOnDisconnect = FALSE
  Limited = TRUE
  MaxAttempts = 1
  CounterSize = 256
  BinaryEvents = FALSE
INVARIANTS AttemptsBounded
CHECK_DEADLOCK FALSE
