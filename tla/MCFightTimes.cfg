CONSTANTS
  Times = 2
  Medicine = 1
  Expiring = 1
  Stone = 1
  FailureLimit = 1
  Sanity = 7
  Stock = 2
  OldStock = 1
  Stones = 2
  MaxFaults = 1
  RetryTimes = 1
  MaxExec = 8
  Unlimited = 1000
  NoTask = NoTask
  NotGiven = NotGiven
SPECIFICATION Spec
INVARIANTS
  GivenBackOnce
CHECK_DEADLOCK FALSE
