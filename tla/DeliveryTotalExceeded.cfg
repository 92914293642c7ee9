SPECIFICATION Spec
CONSTANTS
  Sessions = {s1, s2}
  NoSession = NoSession
  MaxRows = 1
  Unrenderable = {}
  Unbuildable = {}
  MaxUnanswered = 1
  Faults = {}
  Kinds = {1}
  MaxDeliveryAttempts = 2
  MaxTotalDeliveryAttempts = 2
INVARIANT SendsWithinTotal
CHECK_DEADLOCK FALSE
