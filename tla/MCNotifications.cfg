SPECIFICATION FairSpec
CONSTANTS
  Clients = {c1, c2}
  MaxNotes = 2
  MaxFaults = 1
INVARIANT TypeOK
PROPERTIES
  FlagsKept
  DeliveredUnseen
  EventuallyDelivered
CHECK_DEADLOCK FALSE
