SPECIFICATION FairSpec
CONSTANTS
  Config = {c1, c2}
  Schedule = {daily, hourly}
  Default = daily
  Workers = 2
  MaxEdits = 1
  MaxFaults = 1
  NoJob = NoJob
  Refresh = Refresh
INVARIANTS
  TypeOK
  LocksAreOfBackups
  UntouchedRowsHaveTheirJobs
PROPERTIES
  DueRunsAreMade
  ScheduleIsFollowed
  BackupsKeepComing
  InactiveIsLeftAlone
