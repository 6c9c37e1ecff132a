SPECIFICATION Spec
CONSTANTS
  Handlers = {h1}
  Users = {u1}
  Addresses = {a1, a2}
  None = None
  MaxWallets = 2
  MaxRequests = 4
  MaxFaults = 0
INVARIANT OnePrimary
CHECK_DEADLOCK FALSE
