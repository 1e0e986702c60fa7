SPECIFICATION FairSpec
CONSTANTS
  Config = {c1}
  Web = {w1}
  Sched = {s1}
  Requests = {"backup", "delete", "retention", "switch"}
  MaxAttempts = 3
  MaxBackups = 2
  AgeLimit = FALSE
  MaxFaults = 1
  Faults <- RetentionFaults
  None = None
INVARIANT
  NewestAreKept
PROPERTY
  ImplementsCatalog
  RetentionConverges
