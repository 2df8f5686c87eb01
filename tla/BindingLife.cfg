SPECIFICATION FairSpec
CONSTANTS
  r1 = r1
  c1 = c1
  i1 = i1
  s1 = s1
  s2 = s2
  None = None
  Request = {r1}
  Chat = {c1}
  Instance = {i1}
  Session = {s1, s2}
  Env = {"scan", "unbind", "nosession", "late", "unknown", "crash", "kill", "listener", "die"}
INVARIANTS
  TypeOK
  SessionEndReleases
PROPERTIES
  BindSettles
  LostIsReleased
CHECK_DEADLOCK FALSE
