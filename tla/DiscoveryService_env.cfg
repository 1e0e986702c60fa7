SPECIFICATION Spec
CONSTANTS
  Prefix = {p1}
  MaxRuns = 5
  MaxEdits = 2
  MaxCrashes = 1
CHECK_DEADLOCK FALSE
INVARIANTS
  TypeOK
  RunReconciles
  LossIsAnnounced
PROPERTY
  BackupTimeIsKept
