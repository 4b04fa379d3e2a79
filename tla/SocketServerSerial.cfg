SPECIFICATION Spec
CONSTANTS
  laptop = laptop
  pi0 = pi0
  exec = exec
  dbus = dbus
  NoConn = NoConn
  NoDevice = NoDevice
  ServerFd = 3
  Exec = exec
  Conns = {1, 2, 3}
  Devices = {laptop, pi0}
  Fds = {4, 5}
  Callers = {}
  InboxCap = 1
  ClientMsgs = {"uuid", "data"}
  CutMessages = FALSE
  AcceptMayFail = FALSE
INVARIANTS
  TypeOK
  ServerStaysUp
  DescriptorsMatchList
  SignalsMatchList
  RightSender
PROPERTIES
  ContractSpec
SYMMETRY Symmetry
