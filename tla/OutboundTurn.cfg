SPECIFICATION FairSpec
CONSTANTS
  c1 = c1
  c2 = c2
  d1 = d1
  t1 = t1
  t2 = t2
  a1 = a1
  a2 = a2
  a3 = a3
  b1 = b1
  NoJob = NoJob
  Chunk = {c1, c2, d1}
  Card = {}
  OpenNotice = {}
  CloseNotice = {}
  Reaction = {}
  Interim = {}
  Outcome = {}
  CardOf <- MCCardOf
  Rank <- MCRank
  Ranks = 1
  Alert = {a1, a2, a3, b1}
  Turns = {t1, t2}
  Group <- MCGroup
  Index <- MCIndex
  Size <- MCSize
  AlertOf <- MCAlertOf
  TurnCap = 2
  CardCap = 2
  NoticeCap = 2
  IdempotentCap = 2
  AbsentResendAt = 1
  VerifyErrorCap = 1
  RatelimitCap = 1
  TransientCap = 1
  MaxCrashes = 1
  Env = {"unknown", "failed", "wait", "hit", "absent", "unbind", "throttled"}
INVARIANTS
  TurnsInOrder
  UnconfirmedEndsTurn
  LossIsReported
PROPERTIES
  ClosedIsQuiet
  EveryRowSettles
CHECK_DEADLOCK FALSE
