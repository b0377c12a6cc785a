SPECIFICATION SafeSpec
CONSTANTS
  Tests = {t1}
  Starts = {t1, u1}
  Callers = {g1}
  Ports <- MCPorts
  Zero = zero
  Unset = unset
  Nobody = nobody
  Probe = probe
  Other = other
  OtherPorts = {}
  Refusable = {}
  Options <- MCOptions
  TestOptions <- MCTestOptions
PROPERTY HealthyRuns
CHECK_DEADLOCK FALSE
