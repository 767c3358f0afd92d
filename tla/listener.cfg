SPECIFICATION Spec
CONSTANTS
  h1 = h1
  h2 = h2
  c1 = c1
  c2 = c2
  s1 = s1
  s2 = s2
  NoConn = NoConn
  ListenSock = ListenSock
  Hosts <- TwoHosts
  Conns <- TwoConns
  Handles <- TwoHandles
  Requests <- AllMsgs
  MaxSend = 1
INVARIANTS TypeOK HostNameIsKey ConnSockIsKey LatestRegistrationWins
PROPERTY GoneIsClosed
CHECK_DEADLOCK FALSE
