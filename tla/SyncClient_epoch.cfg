SPECIFICATION Spec
CONSTANTS
  Users = {u1}
  Poller = Poller
  Nobody = Nobody
  MaxSessions = 2
  MaxCalls = 1
  Reconnect = TRUE
  ReconnectOnDisconnect = FALSE
  MaxAttempts = 1
INVARIANTS CloseNamesDeadSession
CHECK_DEADLOCK FALSE
