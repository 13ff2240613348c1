SPECIFICATION AccessSpec
CONSTANTS
  r1 = r1
  r3 = r3
  r2 = r2
  Request = {r1, r3, r2}
  Writes = {r1}
  Coordinator = Coordinator
  NoHandle = NoHandle
  Capacity = 1
  MaxConcurrency = 3
CHECK_DEADLOCK FALSE
INVARIANTS
  ResourcesAreSound
  ShutdownIsComplete
  AnswersAreTrue
PROPERTIES
  RequestsAreAnswered
  ShutdownReturns
