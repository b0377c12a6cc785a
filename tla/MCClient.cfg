SPECIFICATION Spec
CONSTANTS
  Callers = {c1, c2}
  Dialers = {d1}
  None = none
  Sockets <- MCSockets
  MaxCalls = 2
  Nil = nil
  ClientOptions <- MCClientOptions
  MaxInt = 7
INVARIANTS SocketsOwned BackoffInRange LateAttempts
PROPERTIES ImplementsRetryLoop DoReturns ReturnsOrHangs
CHECK_DEADLOCK FALSE
