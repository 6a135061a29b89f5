SPECIFICATION Spec
CONSTANTS
  Senders = {s1}
  BinaryRequests = TRUE
  MaxPackets = 1
INVARIANT GotAsEmitted
CHECK_DEADLOCK FALSE
