SPECIFICATION Spec
CONSTANTS
  Workers = {w1, w2}
  Latencies <- MCLatencies
  Kinds = {"timeout"}
  MaxRecords = 3
  MaxResets = 1
SYMMETRY MCSymmetry
INVARIANTS LatenciesExact CountsBalance KindsBalance ReuseBounded
CHECK_DEADLOCK FALSE
