SPECIFICATION Spec
CONSTANTS
  r1 = r1
  m1 = m1
  n1 = n1
  k1 = k1
  u1 = u1
  v1 = v1
  c1 = c1
  c2 = c2
  d1 = d1
  t1 = t1
  t2 = t2
  a1 = a1
  a2 = a2
  a3 = a3
  b1 = b1
  NoJob = NoJob
  Chunk = {}
  Card = {k1}
  OpenNotice = {n1}
  CloseNotice = {m1}
  Reaction = {r1}
  Interim = {u1}
  Outcome = {v1}
  CardOf <- MCCardOf
  Rank <- MCRank
  Ranks = 1
  Alert = {}
  Turns = {}
  Group <- MCGroup
  Index <- MCIndex
  Size <- MCSize
  AlertOf <- MCAlertOf
  TurnCap = 2
  CardCap = 2
  NoticeCap = 2
  IdempotentCap = 2
  AbsentResendAt = 1
  VerifyErrorCap = 1
  RatelimitCap = 1
  TransientCap = 1
  MaxCrashes = 1
  Env = {"unknown", "hit", "unbind", "expire", "allowlist", "gate"}
INVARIANTS
  NoticesInOrder
PROPERTIES
  VerdictIsFinal
CHECK_DEADLOCK FALSE
