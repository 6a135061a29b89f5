SPECIFICATION Spec
CONSTANTS
  Ops = {d1}
  Slots = {t1, t2}
  MaxEpoch = 3
  MaxInbox = 1
  Reconnect = TRUE
  ReconnectOnDisconnect = TRUE
  Limited = FALSE
  MaxAttempts = 1
  CounterSize = 256
  BinaryEvents = FALSE
INVARIANTS SessionEndNotified
CHECK_DEADLOCK FALSE
