SPECIFICATION FairSpec
CONSTANTS
  mention = mention
  plain = plain
  m1 = m1
  m2 = m2
  n1 = n1
  yes = yes
  no = no
  b1 = b1
  None = None
  Binding = {b1}
  Message = {mention, plain}
  PerhapsOwner = {mention}
  Files = {mention}
  Bare = {}
  Rejecting = {}
  PerhapsBlocks = {plain}
  PerhapsSilent = {plain}
  EventOf <- MCEventOf
  ClickOf <- MCClickOf
  MaxUndecided = 1
  MaxNonterminal = 2
  DrainMax = 2
  Env = {"error", "cooldown", "expire"}
INVARIANTS
  TypeOK
PROPERTIES
  MessageSettles
CHECK_DEADLOCK FALSE
