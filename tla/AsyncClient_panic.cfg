SPECIFICATION Spec
CONSTANTS
  Ops = {d1}
  Slots = {t1, t2}
  MaxEpoch = 2
  MaxInbox = 2
  Reconnect = TRUE
  ReconnectOnDisconnect = FALSE
  Limited = FALSE
  MaxAttempts = 1
  CounterSize = 256
  BinaryEvents = TRUE
INVARIANTS SessionEndNotified
CHECK_DEADLOCK FALSE
