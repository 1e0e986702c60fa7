SPECIFICATION Spec
CONSTANTS
  Config = {c1}
  Web = {w1}
  Sched = {s1}
  Requests = {"backup"}
  MaxAttempts = 1
  MaxBackups = 1
  AgeLimit = FALSE
  MaxFaults = 1
  Faults = {"save_success"}
  None = None
CHECK_DEADLOCK FALSE
PROPERTY
  CleanupSparesRecordedFiles
