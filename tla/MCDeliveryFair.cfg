SPECIFICATION FairSpec
CONSTANTS
  Sessions = {s1}
  NoSession = NoSession
  MaxRows = 3
  Unrenderable = {2}
  Unbuildable = {3}
  MaxUnanswered = 1
  Faults = {"write", "exit", "restart", "ignore", "blank"}
  Kinds = {1}
  MaxDeliveryAttempts = 2
  MaxTotalDeliveryAttempts = 3
PROPERTIES
  PendingSettles
  ImplementsLatestFrame
CHECK_DEADLOCK FALSE
