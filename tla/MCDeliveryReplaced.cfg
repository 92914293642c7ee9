SPECIFICATION Spec
CONSTANTS
  Sessions = {s1, s2}
  NoSession = NoSession
  MaxRows = 2
  Unrenderable = {}
  Unbuildable = {}
  MaxUnanswered = 1
  Faults = {"ignore"}
  Kinds = {1}
  MaxDeliveryAttempts = 1
  MaxTotalDeliveryAttempts = 2
SYMMETRY Symmetry
INVARIANTS
  NeverBackwards
  AttemptsPerConnection
  PartialOnDisplayedBase
  DeliveredWasRead
CHECK_DEADLOCK FALSE
