SPECIFICATION Spec
CONSTANTS
  main = main
  exec = exec
  dbus = dbus
  NoConn = NoConn
  SockFd = 5
  Main = main
  Exec = exec
  Senders = {}
  Conns = {1, 2}
  InboxCap = 1
INVARIANTS
  LossEndsOnlyTheThread
CHECK_DEADLOCK FALSE
