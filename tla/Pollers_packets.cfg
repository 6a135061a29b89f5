SPECIFICATION CallersSpec
CONSTANTS
  Callers = {c1, c2}
  Nobody = Nobody
  MaxPayloads = 2
  MaxConnects = 1
INVARIANTS OnceInOrder SomeoneIsWoken CallbacksTold
PROPERTIES PollReturns ArrivedIsTaken
CHECK_DEADLOCK FALSE
