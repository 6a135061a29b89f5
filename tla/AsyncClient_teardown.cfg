SPECIFICATION ExecutorSpec
CONSTANTS
  Ops = {d1, d2}
  Slots = {t1}
  MaxEpoch = 2
  MaxInbox = 2
  Reconnect = TRUE
  ReconnectOnDisconnect = TRUE
  Limited = TRUE
  MaxAttempts = 1
  CounterSize = 256
  BinaryEvents = TRUE
PROPERTIES DisconnectCompletes CloseNotDelayed
CHECK_DEADLOCK FALSE
