CONSTANTS
  c1 = c1
  c2 = c2
  Client <- MCOneClient
  Nobody = Nobody
  NoMessage = NoMessage
  MaxTasks = 2
  MaxConnects = 1
SPECIFICATION Spec
PROPERTIES
  DestroyReturns
CHECK_DEADLOCK FALSE
