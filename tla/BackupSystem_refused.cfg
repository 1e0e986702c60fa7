SPECIFICATION FairSpec
CONSTANTS
  Config = {c1}
  Web = {w1}
  Sched = {s1}
  Requests = {"backup", "delete", "retention"}
  MaxAttempts = 1
  MaxBackups = 1
  AgeLimit = FALSE
  MaxFaults = 1
  Faults = {"unlink"}
  None = None
PROPERTY
  RefusedDeleteIsRetried
