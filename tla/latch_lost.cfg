SPECIFICATION Spec
CONSTANTS
  p1 = p1
  p2 = p2
  t1 = t1
  t2 = t2
  None = None
  Process = {p1}
  Task = {t1}
  Scene <- Hanging
PROPERTY LatchNeedsAck
