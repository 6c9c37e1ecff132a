SPECIFICATION Spec
CONSTANTS
  Handlers = {h1, h2}
  Tokens = {t1}
  None = None
  Offered <- Kinds
  Max <- MCMax
  Window = 3
  CacheTtl = 2
  Timeout = 1
  RelayTimeout = 2
  MaxTime = 6
  MaxRequests = 2
  MaxFaults = 1
SYMMETRY Symmetry
CONSTRAINT Bounded
INVARIANTS
  TypeOK
  WithinLimit
PROPERTIES
  GoodTokenServed
  
CHECK_DEADLOCK FALSE
