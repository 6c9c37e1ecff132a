SPECIFICATION FairSpec
CONSTANTS
  Clients = {c1, c2}
  Workers = {w1}
  NodeIds = {n1, n2}
  None = None
  MaxEdits = 1
  MaxQueue = 1
  MaxFaults = 1
INVARIANTS
  TypeOK
  QuietSynced
  CacheFollowsUser
PROPERTY ViewsHeal
