SPECIFICATION Spec
CONSTANTS
  l1 = l1
  l2 = l2
  Listeners = {l1, l2}
  Closers = {g1, g2}
  None = none
  Earlier = {e1}
  Ports <- MCPorts
  KeyForms = {TRUE, FALSE}
INVARIANTS KeyHonest PortFreed RemovedOnce NothingSilent HandleHonest ForwardsHome
PROPERTIES CallsReturn
CHECK_DEADLOCK FALSE
