SPECIFICATION LSpec
CONSTANTS
  me = me
  f = f
  a = a
  b = b
  x = x
  y = y
  Members = {me, f, a, b}
  Me = me
  Readings = {r1, r2}
  None = None
  Order <- MCOrder
  Names = {1, 2}
  Matching = {1}
  Topics = {x, y}
  Profiles <- MCProfiles
  Graphs <- MCGraphs
  Limit = 1
  MaxChanges = 1
  MaxFailures = 1

SYMMETRY Symmetry
CONSTRAINT OneList
INVARIANTS
  LTypeOK
  Complete
  PagesDisjoint
CHECK_DEADLOCK FALSE
