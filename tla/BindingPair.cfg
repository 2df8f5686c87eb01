SPECIFICATION Spec
CONSTANTS
  r1 = r1
  r2 = r2
  c1 = c1
  c2 = c2
  i1 = i1
  i2 = i2
  s1 = s1
  s2 = s2
  None = None
  Request = {r1, r2}
  Chat = {c1, c2}
  Instance = {i1, i2}
  Session = {s1, s2}
  Env = {"unbind", "late", "kill"}
SYMMETRY Symmetry
INVARIANTS
  OneToOne
  RequestAgrees
  BindTurnIsSecret
CHECK_DEADLOCK FALSE
