SPECIFICATION Spec
CONSTANTS
  h1 = h1
  h2 = h2
  c1 = c1
  c2 = c2
  s1 = s1
  s2 = s2
  NoConn = NoConn
  ListenSock = ListenSock
  Hosts <- TwoHosts
  Conns <- TwoConns
  Handles <- TwoHandles
  Requests <- Registrations
  MaxSend = 1
PROPERTIES TakenOverIsDisconnected
CHECK_DEADLOCK FALSE
