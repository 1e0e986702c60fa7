SPECIFICATION FairSpec
CONSTANTS
  Call = {c1}
  MaxFaults = 3
CHECK_DEADLOCK FALSE
INVARIANTS
  TypeOK
  ExpiryIsTransparent
PROPERTIES
  ImplementsCall
  CallsEnd
