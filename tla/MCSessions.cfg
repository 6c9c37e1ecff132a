SPECIFICATION Spec
CONSTANTS
  u = u
  Users = {u}
  Devices = {d1}
  Owner <- MCOwner
  Sids = {s1, s2}
  Handlers = {h1, h2}
  None = None
  Lifetime = 2
  MaxTime = 3
  MaxFaults = 1
  MaxRequests = 4
SYMMETRY Symmetry
INVARIANTS
  TypeOK
  RetiredTokensRefused
  NotRefreshedPastExpiry
  UntrustedHasNoActive
PROPERTY SessionsOnlyAge
CHECK_DEADLOCK FALSE
