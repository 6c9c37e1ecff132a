SPECIFICATION Spec
CONSTANTS
  Handlers = {h1, h2}
  Names = {n1, n2}
  Emails = {e1, e2}
  None = None
  MaxUsers = 2
  MaxRequests = 4
  MaxFaults = 1
SYMMETRY Symmetry
INVARIANTS
  TypeOK
  EmailProven
  OneUsePerCode
  VerifiedHasAccount
  UsernameCooldown
CHECK_DEADLOCK FALSE
