SPECIFICATION ThreadSpec
CONSTANTS
  Users = {u1, u2}
  Poller = Poller
  Nobody = Nobody
  MaxSessions = 3
  MaxCalls = 1
  Reconnect = TRUE
  ReconnectOnDisconnect = TRUE
  MaxAttempts = 2
INVARIANTS OneSessionOpen ReplacedReported LimitKept
PROPERTIES DisconnectReturns LossHandled
CHECK_DEADLOCK FALSE
