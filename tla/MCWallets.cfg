SPECIFICATION Spec
CONSTANTS
  Handlers = {h1, h2}
  Users = {u1, u2}
  Addresses = {a1, a2, a3}
  None = None
  MaxWallets = 1
  MaxRequests = 4
  MaxFaults = 1
SYMMETRY Symmetry
INVARIANTS
  TypeOK
  OneUsePerNonce
  WalletLimit
PROPERTY AddressKept
CHECK_DEADLOCK FALSE
