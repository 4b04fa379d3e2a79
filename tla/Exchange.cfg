CONSTANTS
  camera = camera
  other = other
  Conns = {1, 2}
  Devices = {camera, other}
  MayOpen <- Openers
  Callers <- Threads
  NoDevice = NoDevice
  NoConn = NoConn
  Strings = {1, 2}
  NULL = NULL
  Junk = Junk
  MayGreet = {2}
  MaxHellos = 1
SPECIFICATION FairSpec
INVARIANTS
  TypeOK
  ListsAgree
  LossesFound
  FlowControlled
CHECK_DEADLOCK FALSE
PROPERTIES
  GoesOn
