SPECIFICATION Spec
CONSTANTS
  Sessions = {s1, s2, s3}
  NoSession = NoSession
  MaxRows = 1
  Unrenderable = {}
  Unbuildable = {}
  MaxUnanswered = 1
  Faults = {"blank"}
  Kinds = {1}
  MaxDeliveryAttempts = 1
  MaxTotalDeliveryAttempts = 2
INVARIANT FailedUnconfirmed
CHECK_DEADLOCK FALSE
