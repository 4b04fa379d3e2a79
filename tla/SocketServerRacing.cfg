SPECIFICATION Spec
CONSTANTS
  laptop = laptop
  pi0 = pi0
  exec = exec
  dbus = dbus
  NoConn = NoConn
  NoDevice = NoDevice
  ServerFd = 3
  Exec = exec
  Conns = {1, 2}
  Devices = {laptop, pi0}
  Fds = {4, 5}
  Callers = {dbus}
  InboxCap = 1
  ClientMsgs = {"uuid", "data", "bad"}
  CutMessages = TRUE
  AcceptMayFail = TRUE
INVARIANTS
  AnnouncedFirst
PROPERTIES
  RacingSpec
  UuidKept
CHECK_DEADLOCK FALSE
SYMMETRY Symmetry
