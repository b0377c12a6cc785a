SPECIFICATION HSpec
CONSTANTS
  Callers = {c1, c2}
  ReqRate = 2
  ReqBurst = 2
  TicksPerSecond = 3
  Horizon = 4
  MaxIdle <- MCMaxIdle
INVARIANTS TypeOK NoOversleep WindowBound
PROPERTIES ImplementsBucket SomeWaitReturns CancelledWaitReturns
