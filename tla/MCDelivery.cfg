SPECIFICATION Spec
CONSTANTS
  Sessions = {s1, s2}
  NoSession = NoSession
  MaxRows = 1
  Unrenderable = {}
  Unbuildable = {}
  MaxUnanswered = 1
  Faults = {"write", "exit", "restart", "ignore", "blank"}
  Kinds = {1}
  MaxDeliveryAttempts = 2
  MaxTotalDeliveryAttempts = 2
SYMMETRY Symmetry
INVARIANTS
  TypeOK
  OneActiveSession
  TotalAttempts
  ImageAfterReply
PROPERTIES
  DeliveredSticks
CHECK_DEADLOCK FALSE
