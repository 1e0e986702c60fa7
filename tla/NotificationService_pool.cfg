SPECIFICATION FairSpec
CONSTANTS
  t1 = t1
  t2 = t2
  discord = discord
  slack = slack
  Thread <- ThreadValue
  Provider <- ProviderValue
  MaxWorkers = 2
  Event = {"failed", "success"}
  NotifyOn = {"failed"}
CHECK_DEADLOCK FALSE
INVARIANTS
  TypeOK
  OnePool
  NothingIsDropped
  ReceivedOnce
PROPERTIES
  ImplementsOutbox
  CallersReturn
  PoolKeepsGoing
