SPECIFICATION Spec
CONSTANTS
  Callers = {c1, c2}
  None = none
  MaxCalls = 3
  ReplyShapes <- MCReplyShapes
INVARIANTS OwnReply
CHECK_DEADLOCK FALSE
