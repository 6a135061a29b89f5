SPECIFICATION Spec
CONSTANTS
  Ops = {d1, d2}
  Slots = {t1, t2}
  MaxEpoch = 2
  MaxInbox = 2
  Reconnect = TRUE
  ReconnectOnDisconnect = FALSE
  Limited = FALSE
  MaxAttempts = 1
  CounterSize = 256
  BinaryEvents = FALSE
SYMMETRY Symmetry
INVARIANTS NoOrphanTask NoTaskOutlivesSession TerminalTasksSpared CloseNamesDeadSession SessionEndNotified
PROPERTIES ImplementsLife OneClosePerSession
CHECK_DEADLOCK FALSE
