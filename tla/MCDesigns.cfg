SPECIFICATION Spec
CONSTANTS
  None = None
  Handlers = {h1, h2}
  Sessions = {tablet}
  Scheduler = scheduler
  Files = {departures}
  Stored = {plain}
  Builtins = {clock}
  Inline = {svg}
  Dynamic = {clock, departures}
  Periodic = {clock}
  Navigable = {}
  Configurable = {departures, svg}
  Unreliable = {departures}
  DefaultDesign = clock
  Settings = {s1}
  Months = 1
  Requests = {"assign", "inline", "clear", "upload", "patch", "status", "advance", "configure", "design", "reload", "cancel", "crash"}
  MaxRequests = 3
  MaxValue = 1
SYMMETRY Symmetry
INVARIANTS TypeOK ValuesForward QuietShowsActive StopsAfterClear ReloadRestores
CHECK_DEADLOCK FALSE
