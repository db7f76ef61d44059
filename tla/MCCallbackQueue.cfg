CONSTANTS
  NoMessage = NoMessage
  Message = {start, completed, asyncInfo}
  Loggable = {start, completed}
  MaxQueue = 3
SPECIFICATION Spec
INVARIANTS
  TypeOK
  NoSleepOnMessage
PROPERTIES
  IsFifoChannel
  QueuedIsDelivered
CHECK_DEADLOCK FALSE
