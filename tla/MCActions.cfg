SPECIFICATION Spec
CONSTANTS
  None = None
  Names = {open, close}
  Workers = {w1, w2}
  QueueSize = 1
  MaxTaps = 3
  MaxEdits = 3
INVARIANTS TypeOK Accounted ConfigMirrored
PROPERTIES InvocationEnds
CHECK_DEADLOCK FALSE
