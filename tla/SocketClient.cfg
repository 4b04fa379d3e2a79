SPECIFICATION FairSpec
CONSTANTS
  main = main
  exec = exec
  dbus = dbus
  NoConn = NoConn
  SockFd = 5
  Main = main
  Exec = exec
  Senders = {dbus}
  Conns = {1, 2, 3}
  InboxCap = 1
INVARIANTS
  TypeOK
  OneReader
  AnnouncedGreeted
  RxAfterConnect
  LossBeforeConnect
PROPERTIES
  LossReported
CHECK_DEADLOCK FALSE
