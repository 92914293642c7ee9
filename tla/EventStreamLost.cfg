SPECIFICATION Spec
CONSTANTS
  Emitters = {e1, e2}
  Clients = {c1}
  Buffer = 2
  Page = 2
  EventLimit = 4
  MaxEvents = 3
INVARIANT NothingLost
