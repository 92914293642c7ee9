SPECIFICATION Spec
CONSTANTS
  Sessions = {s1, s2}
  NoSession = NoSession
  MaxRows = 1
  Unrenderable = {}
  Unbuildable = {}
  MaxUnanswered = 1
  Faults = {"write"}
  Kinds = {1}
  MaxDeliveryAttempts = 2
  MaxTotalDeliveryAttempts = 4
INVARIANT AckedNotResent
CHECK_DEADLOCK FALSE
