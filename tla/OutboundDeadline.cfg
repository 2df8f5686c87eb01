SPECIFICATION DaemonSpec
CONSTANTS
  n1 = n1
  c1 = c1
  c2 = c2
  d1 = d1
  t1 = t1
  t2 = t2
  a1 = a1
  a2 = a2
  a3 = a3
  b1 = b1
  NoJob = NoJob
  Chunk = {}
  Card = {}
  OpenNotice = {n1}
  CloseNotice = {}
  Reaction = {}
  Interim = {}
  Outcome = {}
  CardOf <- MCCardOf
  Rank <- MCRank
  Ranks = 1
  Alert = {}
  Turns = {}
  Group <- MCGroup
  Index <- MCIndex
  Size <- MCSize
  AlertOf <- MCAlertOf
  TurnCap = 2
  CardCap = 2
  NoticeCap = 2
  IdempotentCap = 2
  AbsentResendAt = 2
  VerifyErrorCap = 2
  RatelimitCap = 2
  TransientCap = 2
  MaxCrashes = 0
  Env = {"unknown", "deadline", "hit", "absent", "error", "throttled", "permanent_global", "permanent_channel"}
PROPERTIES
  DeadlineEndsUnknown
CHECK_DEADLOCK FALSE
