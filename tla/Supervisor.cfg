SPECIFICATION Spec
CONSTANTS
  w = w
  b = b
  old = old
  new = new
  None = None
  Lost = Lost
  Caller = {w, b}
  Watcher = {w}
  Version = {old, new}
  Own <- MCOwn
  MaxDaemon = 2
  Env = {"crash", "hang", "kill", "probe", "refuse", "unread"}
INVARIANTS
  TypeOK
PROPERTIES
  KillIsJustified
  StartedIsNew
CHECK_DEADLOCK FALSE
