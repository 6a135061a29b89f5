SPECIFICATION ExecutorSpec
CONSTANTS
  Connects = {c1}
  Emits = {e1}
  Closers = {x1, x2}
  Reader = Reader
  None = None
  MaxInbox = 1
INVARIANTS Retired OneCloseFrame StreamReleased
PROPERTIES ImplementsChannel EmitReleased DisconnectCompletes SilenceNoticed
CHECK_DEADLOCK FALSE
