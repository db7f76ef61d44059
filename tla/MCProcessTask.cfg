CONSTANTS
  menu = menu
  buy = buy
  eat = eat
  leave = leave
  back = back
  gone = gone
  trade = trade
  Task <- MCTask
  Name <- MCName
  NoTask = NoTask
  Info <- MCInfo
  First <- MCFirst
  RetryTimes = 1
  MaxExec = 3
  Unlimited = 1000
  NotGiven = NotGiven
  Base <- MCBase
  GivenFirst <- MCGivenFirst
  Settable <- MCSettable
SPECIFICATION Spec
INVARIANTS
  TypeOK
  LimitKept
PROPERTIES
  ReturnsOnStop
CHECK_DEADLOCK FALSE
