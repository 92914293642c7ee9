SPECIFICATION FairSpec
CONSTANTS
  Emitters = {e1, e2}
  Clients = {c1}
  Buffer = 2
  Page = 2
  EventLimit = 3
  MaxEvents = 5
INVARIANTS
  TypeOK
  Increasing
  LossExplained
PROPERTIES
  WaitingArrives
