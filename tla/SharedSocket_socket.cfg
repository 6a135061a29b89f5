SPECIFICATION ExecutorSpec
CONSTANTS
  Emitters = {e1}
  Closers = {c}
  Reader = r
  None = None
  MaxSessions = 2
INVARIANTS InstalledOpen PacketUndivided
PROPERTIES ReconnectEnds DisconnectGetsThrough
CHECK_DEADLOCK FALSE
