SPECIFICATION Spec
CONSTANTS
  Tests = {t1}
  Starts = {t1, u1}
  Callers = {g1, g2}
  Ports <- MCPorts
  Zero = zero
  Unset = unset
  Nobody = nobody
  Probe = probe
  Other = other
  OtherPorts <- MCOtherPorts
  Refusable = {u1}
  Options <- MCOptions
  TestOptions <- MCTestOptions
INVARIANTS FailedLeavesNothing StoppedLeavesNothing DirOutlivesTor ServesItself
PROPERTIES HealthyHonest TestReturns
CHECK_DEADLOCK FALSE
