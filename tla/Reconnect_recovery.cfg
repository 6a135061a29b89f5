SPECIFICATION ReconnectSpec
CONSTANTS
  Ops = {d1}
  Slots = {t1}
  MaxEpoch = 2
  MaxInbox = 1
  Reconnect = TRUE
  ReconnectOnDisconnect = TRUE
  Limited = FALSE
  MaxAttempts = 1
  CounterSize = 256
  BinaryEvents = FALSE
  MaxRefresh = 1
INVARIANTS HookConsulted
PROPERTIES OpenedAsAsked Recovers
CHECK_DEADLOCK FALSE
