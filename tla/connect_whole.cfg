SPECIFICATION Spec
CONSTANTS
  s1 = s1
  s2 = s2
  INVALID_SOCKET = INVALID_SOCKET
  Sockets <- TwoSockets
  ValidServerIP = TRUE
  ServerSends = TRUE
  MaxQueue = 1
INVARIANTS WholeMessages
