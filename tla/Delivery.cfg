SPECIFICATION FairSpec
CONSTANTS
  l1 = l1
  l2 = l2
  None = None
  Listener = {l1, l2}
  Last = 2
  MaxSlips = 1
INVARIANTS
  TypeOK
  OneReader
  RepeatNeedsLapse
PROPERTIES
  DeliverySettles
  KeepsMail
CHECK_DEADLOCK FALSE
