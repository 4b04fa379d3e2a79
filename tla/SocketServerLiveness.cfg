SPECIFICATION FairSpec
CONSTANTS
  laptop = laptop
  pi0 = pi0
  exec = exec
  dbus = dbus
  NoConn = NoConn
  NoDevice = NoDevice
  ServerFd = 3
  Exec = exec
  Conns = {1, 2, 3}
  Devices = {laptop}
  Fds = {4}
  Callers = {}
  InboxCap = 1
  ClientMsgs = {"data"}
  CutMessages = TRUE
  AcceptMayFail = FALSE
PROPERTIES
  LostReported
  EveryoneServed
  PingsContinue
CHECK_DEADLOCK FALSE
