SPECIFICATION FairSpec
CONSTANTS
  Pid = {p1, p2, p3}
  NoPid = NoPid
  MaxRestarts = 2
  MaxFaults = 2
INVARIANTS
  TypeOK
  OneScheduler
  CleanupReachesTheScheduler
PROPERTY
  SchedulerComesBack
