SPECIFICATION Spec
CONSTANTS
  s1 = s1
  s2 = s2
  INVALID_SOCKET = INVALID_SOCKET
  Sockets <- OneSocket
  ValidServerIP = TRUE
  ServerSends = TRUE
  MaxQueue = 2
INVARIANTS TypeOK LockOwner WholeUnlessFailed BelievedIsRegistered
PROPERTIES Reconnects
