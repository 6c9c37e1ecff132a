SPECIFICATION Spec
CONSTANTS
  Users = {a, b}
  Handlers = {h1, h2}
  EdgeIds = {e1, e2, e3}
  NoRequest = NoRequest
  MaxFaults = 1
  MaxRequests = 4
SYMMETRY Symmetry
INVARIANTS
  TypeOK
  CountersMatchEdges
  ChecksStillHold
  BlockExcludesFollow
  NoParallelEdges
PROPERTY RefinesRelationships
CHECK_DEADLOCK FALSE
