SPECIFICATION Spec
CONSTANTS
  Callers = {c1, c2}
  None = none
  MaxCalls = 3
  ReplyShapes <- MCReplyShapes
INVARIANTS WireAccounted ReplyOrigin AuthHonest
PROPERTIES CallsReturn
CHECK_DEADLOCK FALSE
