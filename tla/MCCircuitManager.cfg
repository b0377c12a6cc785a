SPECIFICATION Spec
CONSTANTS
  MaxStarts = 3
  Intervals <- MCIntervals
  RestartAfterStop = FALSE
INVARIANTS NoPanic LoopsTakeTurns ExitJustified NoTimerLeak
PROPERTIES ImplementsRotation RotationContinues EndsWhenTold
CHECK_DEADLOCK FALSE
