SPECIFICATION ReaderSpec
CONSTANTS
  Senders = {s1, s2}
  BinaryRequests = FALSE
  MaxPackets = 2
INVARIANTS SessionServed CalledAsSent GotAsEmitted
PROPERTIES ArrivedIsCalled
CHECK_DEADLOCK FALSE
