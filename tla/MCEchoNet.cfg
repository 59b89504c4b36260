SPECIFICATION Spec
CONSTANTS
  c1 = c1
  c2 = c2
  None = None
  Clients = {c1, c2}
  ServerKinds <- MCServers
  Shapes <- MCShapes
  Lines <- MCLines
  SqSize = 1
  MaxFaults = 1
INVARIANTS TypeOK NothingLost OneOperationEach
PROPERTIES ServerKeepsUp InputHandled
CHECK_DEADLOCK FALSE
