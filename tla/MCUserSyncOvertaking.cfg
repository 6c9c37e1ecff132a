SPECIFICATION FairSpec
CONSTANTS
  Clients = {c1}
  Workers = {w1, w2}
  NodeIds = {n1, n2}
  None = None
  MaxEdits = 1
  MaxQueue = 2
  MaxFaults = 1
PROPERTIES
  MirrorsUser
  ViewsHeal
