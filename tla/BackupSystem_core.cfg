SPECIFICATION Spec
CONSTANTS
  Config = {c1}
  Web = {w1, w2}
  Sched = {s1}
  Requests = {"backup", "delete", "retention", "download"}
  MaxAttempts = 2
  MaxBackups = 1
  AgeLimit = FALSE
  MaxFaults = 1
  Faults <- AllFaults
  None = None
SYMMETRY WebSymmetry
VIEW ButDelivered
INVARIANTS
  TypeOK
  AnnouncedBackupIsKept
  NoSilentLoss
  OrphansExplained
  OneRowPerAttempt
  NoticeMatchesOutcome
PROPERTY
  FileGoesBeforeRow
