SPECIFICATION Spec
CONSTANTS
  u = u
  Users = {u}
  Devices = {d1}
  Owner <- MCOwner
  Sids = {s1, s2}
  Handlers = {h1, h2}
  None = None
  Lifetime = 2
  MaxTime = 3
  MaxFaults = 0
  MaxRequests = 2
SYMMETRY Symmetry
INVARIANTS
  RevokedDeviceHasNoSession
CHECK_DEADLOCK FALSE
