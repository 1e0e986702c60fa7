SPECIFICATION MSpec
CONSTANTS
  Config = {c1}
  Web = {w1}
  Sched = {s1}
  Requests = {"backup", "delete", "restore", "download", "retention"}
  MaxAttempts = 1
  MaxBackups = 1
  AgeLimit = TRUE
  MaxFaults = 1
  Faults = {"write", "save_success", "send", "damage"}
  None = None
INVARIANTS
  DeliveredIsComplete
  GaugesAreOfTheScrape
