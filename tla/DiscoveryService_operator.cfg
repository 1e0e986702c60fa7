SPECIFICATION Spec
CONSTANTS
  Prefix = {p1}
  MaxRuns = 3
  MaxEdits = 1
  MaxCrashes = 0
CHECK_DEADLOCK FALSE
PROPERTY
  ReactivationSparesOthers
