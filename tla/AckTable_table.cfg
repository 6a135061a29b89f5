SPECIFICATION ExecutorSpec
CONSTANTS
  Reqs = {r1, r2}
  Ids = {i1, i2}
  None = None
  Shapes = {"data", "both", "empty"}
INVARIANTS AnswerFindsEntry OneAnswerPerAck
PROPERTIES TakenIsCalled
CHECK_DEADLOCK FALSE
