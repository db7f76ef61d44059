CONSTANTS
  c1 = c1
  c2 = c2
  Client <- MCClient
  Nobody = Nobody
  NoMessage = NoMessage
  MaxTasks = 2
  MaxConnects = 1
SPECIFICATION Spec
INVARIANTS
  TypeOK
  NoLostStart
  IdsInOrder
PROPERTIES
  RunsForward
  FollowsProtocol
SYMMETRY MCSymmetry
CHECK_DEADLOCK FALSE
