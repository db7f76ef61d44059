\* Two clients, so that a call of the one may overlap a stop of the other; two
\* connects, so that the second may meet a task.
CONSTANTS
  Client = {c1, c2}
  Nobody = Nobody
  NoMessage = NoMessage
  MaxTasks = 2
  MaxConnects = 2
  Linker = {c1}
  Stopper = {c2}
SPECIFICATION SettledSpec
INVARIANTS
  FinishedIsOneBatch
  NoConnectUnderTask
PROPERTIES
  IsTaskQueue
  StartedQueueMoves
  StopEndsChain
CHECK_DEADLOCK FALSE
