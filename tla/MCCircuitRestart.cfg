SPECIFICATION Spec
CONSTANTS
  MaxStarts = 3
  Intervals <- MCIntervals
  RestartAfterStop = TRUE
INVARIANTS ExitJustified
CHECK_DEADLOCK FALSE
