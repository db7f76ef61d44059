\* Two battles asked for, a medicine, an expiring one and a stone allowed.
\* The player has no sanity or more than enough, and of each item none or,
\* for medicines and stones, one more than is allowed: every page of the
\* game can be met, and every limit can be the one that ends the fight.
CONSTANTS
  Times = 2
  Medicine = 1
  Expiring = 1
  Stone = 1
  FailureLimit = 1
  Sanity = 7
  Stock = 2
  OldStock = 1
  Stones = 2
  MaxFaults = 2
  RetryTimes = 1
  MaxExec = 8
  Unlimited = 1000
  NoTask = NoTask
  NotGiven = NotGiven
SPECIFICATION Spec
INVARIANTS
  SpendsWithinParams
  TimesKept
  SuccessIsEarned
  NoBattleAfterDrops
PROPERTIES
  FightEnds
CHECK_DEADLOCK FALSE
