SPECIFICATION Spec
CONSTANTS
  mention = mention
  plain = plain
  m1 = m1
  m2 = m2
  n1 = n1
  yes = yes
  no = no
  b1 = b1
  b2 = b2
  None = None
  Binding = {b1, b2}
  Message = {mention}
  PerhapsOwner = {}
  Files = {mention}
  Bare = {m2}
  Rejecting = {no}
  PerhapsBlocks = {mention}
  PerhapsSilent = {}
  EventOf <- MCEventOf
  ClickOf <- MCClickOf
  MaxUndecided = 1
  MaxNonterminal = 2
  DrainMax = 1
  Env = {"consumer", "expire", "crash", "allowlist"}
INVARIANTS
  AckedIsKept
  PinnedDelivery
  OwnerDecides
  OutcomeTold
  ClosedSettles
SYMMETRY Symmetry
CHECK_DEADLOCK FALSE
