SPECIFICATION Spec
CONSTANTS
  Handlers = {h1, h2}
  None = None
  MaxDocs = 2
  MaxRequests = 6
  MaxFaults = 1
SYMMETRY Symmetry
INVARIANTS
  TypeOK
  SecondFactor
  UntrustedHasNoActive
CHECK_DEADLOCK FALSE
