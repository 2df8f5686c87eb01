SPECIFICATION Spec
CONSTANTS
  w = w
  b = b
  old = old
  new = new
  None = None
  Lost = Lost
  Caller = {w, b}
  Watcher = {w}
  Version = {old, new}
  Own <- MCOwn
  MaxDaemon = 2
  Env = {}
PROPERTIES
  BoundIsOwnCode
CHECK_DEADLOCK FALSE
