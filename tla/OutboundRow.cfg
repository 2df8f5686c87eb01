SPECIFICATION Spec
CONSTANTS
  c1 = c1
  c2 = c2
  d1 = d1
  t1 = t1
  t2 = t2
  a1 = a1
  a2 = a2
  a3 = a3
  b1 = b1
  NoJob = NoJob
  Chunk = {c1}
  Card = {}
  OpenNotice = {}
  CloseNotice = {}
  Reaction = {}
  Interim = {}
  Outcome = {}
  CardOf <- MCCardOf
  Rank <- MCRank
  Ranks = 1
  Alert = {a1}
  Turns = {t1}
  Group <- MCGroup
  Index <- MCIndex
  Size <- MCSize
  AlertOf <- MCAlertOf
  TurnCap = 3
  CardCap = 2
  NoticeCap = 2
  IdempotentCap = 2
  AbsentResendAt = 2
  VerifyErrorCap = 1
  RatelimitCap = 1
  TransientCap = 1
  MaxCrashes = 1
  Env = {"unknown", "failed", "markdown_rejected", "ratelimited", "hit", "absent", "error", "unbind", "capability", "late", "deadline", "throttled", "permanent_global", "permanent_channel", "not_sent"}
INVARIANTS
  TypeOK
  AtMostOneResend
  HonestVerdicts
  OneForm
PROPERTIES
  KeepsPromise
CHECK_DEADLOCK FALSE
