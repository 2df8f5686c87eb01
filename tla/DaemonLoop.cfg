SPECIFICATION Spec
CONSTANTS
  v1 = v1
  v2 = v2
  w = w
  a1 = a1
  a2 = a2
  None = None
  Version = {v1, v2, w}
  Own = {v1, v2}
  First = v1
  AppToken = {a1, a2}
  AppOf <- MCAppOf
  Files = 2
  Announced = {1}
  Budget = 3
INVARIANTS
  TypeOK
  MediaIsWhole
PROPERTIES
  VouchedOnly
  GateFollowsFile
  ConsumerFollowsToken
  AttachmentsSettle
