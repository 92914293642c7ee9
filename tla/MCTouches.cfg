SPECIFICATION TouchSpec
CONSTANTS
  None = None
  Handlers = {}
  Sessions = {tablet, replaced}
  Scheduler = scheduler
  Files = {}
  Stored = {}
  Builtins = {clock}
  Inline = {}
  Dynamic = {clock}
  Periodic = {clock}
  Navigable = {clock}
  Configurable = {}
  Unreliable = {}
  DefaultDesign = clock
  Settings = {}
  Requests = {"tap", "advance", "expire", "report", "crash"}
  MaxRequests = 3
  MaxValue = 1
  Limit = 2
  Months = 1
INVARIANTS TouchTypeOK TapOnce MonthShown 
PROPERTIES RetentionKeeps CatchesUp
CHECK_DEADLOCK FALSE
