------------------------ MODULE CSMListenerProofs ------------------------
(***************************************************************************)
(* Proofs about CSMListener, for every set of machines, connections and    *)
(* SOCKET values and every choice of requests.                             *)
(*                                                                         *)
(* TypeOK is not inductive alone: OnMsgClientInfo writes sockets[ui.sock]  *)
(* into lastReg, so ProcessCmd must be known to work on an open connection *)
(* although ProcessRead goes on with a SOCKET value it has closed.         *)
(* TypeInv adds SocketsSound for that, and is proved first; the properties *)
(* of the connection list are then proved relative to it, and with them    *)
(* the frame of the stream and the step simulation of ClientRegistry.      *)
(***************************************************************************)
EXTENDS CSMListenerRefinement, SequenceTheorems, TLAPS

(* The SOCKET values are sound: the handler's denotes the connection it      *)
(* serves or, after the close for an odd DataLen, nothing; the table's       *)
(* denote distinct, open connections; only a connection that was accepted    *)
(* has registered.                                                           *)
SocketsSound ==
  /\ ActsForSender
  /\ \A s \in Handles : sockets[s] # NoConn => conn[sockets[s]].st = "open"
  /\ \A s, t \in Handles : (sockets[s] # NoConn /\ sockets[s] = sockets[t]) => s = t
  /\ \A h \in Hosts : lastReg[h] # NoConn =>
        conn[lastReg[h]].st \in {"open", "closed"}

TypeInv == TypeOK /\ SocketsSound

-----------------------------------------------------------------------------
(* Updating one connection with a well-typed record keeps conn well typed. *)
LEMMA ConnUpdate ==
  ASSUME conn \in [Conns -> Connection], NEW c \in Conns, NEW r \in Connection,
         conn' = [conn EXCEPT ![c] = r]
  PROVE  /\ conn' \in [Conns -> Connection]
         /\ conn'[c] = r
         /\ \A d \in Conns : d # c => conn'[d] = conn[d]
OBVIOUS

(* The fields the actions change, each with a value of its type. *)
LEMMA ConnectionFields ==
  ASSUME NEW r \in Connection
  PROVE  /\ \A st \in {"none", "backlog", "open", "closed"} :
              [r EXCEPT !.st = st] \in Connection
         /\ \A b \in BOOLEAN : /\ [r EXCEPT !.armed = b] \in Connection
                               /\ [r EXCEPT !.fin = b] \in Connection
         /\ \A wire \in Seq(Piece) :
              /\ [r EXCEPT !.wire = wire] \in Connection
              /\ \A b \in BOOLEAN : [r EXCEPT !.gone = b, !.wire = wire] \in Connection
              /\ \A stream \in Seq(Piece) :
                   /\ [r EXCEPT !.stream = stream, !.wire = wire] \in Connection
                   /\ \A st \in {"none", "backlog", "open", "closed"} :
                        [r EXCEPT !.st = st, !.stream = stream, !.wire = wire]
                          \in Connection
         /\ \A stream \in Seq(Piece), b \in BOOLEAN :
              /\ [r EXCEPT !.armed = b, !.stream = stream] \in Connection
              /\ [r EXCEPT !.stream = stream, !.armed = b] \in Connection
BY Zenon DEF Connection

(* Piece by piece: what a peer sends is a sequence of pieces. *)
LEMMA PiecesType ==
  ASSUME NEW m \in Messages
  PROVE  Pieces(m) \in Seq(Piece)
<1> DEFINE p(x) == [part |-> x, msg |-> m]
<1>1. p("header1") \in Piece /\ p("header2") \in Piece /\ p("data") \in Piece
  BY DEF Piece
<1>2. Pieces(m) = IF HasData(m) THEN <<p("header1"), p("header2"), p("data")>>
                                ELSE <<p("header1"), p("header2")>>
  BY DEF Pieces
<1> HIDE DEF p
<1> QED
  BY <1>1, <1>2

(* CloseConnection keeps the Winsock tables typed and SOCKET values sound,   *)
(* and leaves no connection open under the value it closes.                  *)
LEMMA CloseConnectionSound ==
  ASSUME NEW s \in Handles, TypeInv, CloseConnection(s)
  PROVE  /\ sockets' \in [Handles -> Conns \cup {NoConn}]
         /\ conn' \in [Conns -> Connection]
         /\ \A t \in Handles : sockets'[t] # NoConn =>
              t # s /\ sockets'[t] = sockets[t] /\ conn'[sockets[t]] = conn[sockets[t]]
         /\ \A c \in Conns : conn'[c].st = conn[c].st \/
              (conn[c].st = "open" /\ conn'[c].st = "closed")
         /\ \A c \in Conns : conn'[c].host = conn[c].host
<1> DEFINE c0 == sockets[s]
           closed == [conn[c0] EXCEPT !.st = "closed", !.stream = <<>>, !.wire = <<>>]
<1>0. /\ sockets \in [Handles -> Conns \cup {NoConn}]
      /\ conn \in [Conns -> Connection]
      /\ NoConn \notin Conns
      /\ \A t \in Handles : sockets[t] # NoConn => conn[sockets[t]].st = "open"
      /\ \A t, u \in Handles : (sockets[t] # NoConn /\ sockets[t] = sockets[u]) => t = u
  BY ListenerAssumption DEF TypeInv, TypeOK, SocketsSound
<1>1. CASE IsOpen(s)
  <2>1. c0 \in Conns /\ conn[c0] \in Connection
    BY <1>0, <1>1 DEF IsOpen
  <2>2. <<>> \in Seq(Piece)
    OBVIOUS
  <2>3. closed \in Connection
    BY <2>1, <2>2, ConnectionFields, Zenon
  <2>4. closed.st = "closed" /\ closed.host = conn[c0].host /\ conn[c0].st = "open"
    BY <2>1, <1>0, <1>1 DEF Connection, IsOpen
  <2>5. conn' = [conn EXCEPT ![c0] = closed] /\ sockets' = [sockets EXCEPT ![s] = NoConn]
    BY <1>1 DEF CloseConnection
  <2> HIDE DEF closed
  <2>6. /\ conn' \in [Conns -> Connection]
        /\ conn'[c0] = closed
        /\ \A d \in Conns : d # c0 => conn'[d] = conn[d]
    BY <1>0, <2>1, <2>3, <2>5, ConnUpdate
  <2> QED
    BY <1>0, <2>1, <2>4, <2>5, <2>6
<1>2. CASE ~IsOpen(s)
  BY <1>0, <1>2 DEF CloseConnection, IsOpen
<1> QED
  BY <1>1, <1>2


(* ProcessCmd works on an open connection, the one the message came from:    *)
(* OddLength leaves the handler before RecvData, which then fails.           *)
LEMMA CommandIsOpen ==
  ASSUME TypeInv, ui.pc = "cmd"
  PROVE  /\ ui # Idle /\ ui.sock \in Handles /\ IsOpen(ui.sock)
         /\ sockets[ui.sock] = ui.from /\ ui.hdr.msg.len # "odd"
<1>1. ui # Idle
  BY DEF Idle
<1>2. ui.sock \in Handles /\ ui.from \in Conns /\ ui.from # NoConn
  BY <1>1, ListenerAssumption DEF TypeInv, TypeOK
<1>3. ui.hdr.msg.len # "odd" /\ sockets[ui.sock] = ui.from
  BY <1>1 DEF TypeInv, SocketsSound, ActsForSender
<1> QED
  BY <1>1, <1>2, <1>3 DEF IsOpen

-----------------------------------------------------------------------------
LEMMA TypeInit == Init => TypeInv
<1> SUFFICES ASSUME Init PROVE TypeInv
  OBVIOUS
<1>1. <<>> \in Seq(ClientInfo) /\ <<>> \in Seq(Event) /\ <<>> \in Seq(Conns)
      /\ <<>> \in Seq(Piece)
  OBVIOUS
<1>2. conn \in [Conns -> Connection]
  <2>1. ASSUME NEW h \in Hosts
        PROVE  [st |-> "none", host |-> h, wire |-> <<>>, stream |-> <<>>,
                gone |-> FALSE, armed |-> TRUE, fin |-> FALSE] \in Connection
    BY <1>1, Zenon DEF Connection
  <2> QED
    BY <2>1 DEF Init
<1>3. TypeOK
  BY <1>1, <1>2, ListenerAssumption DEF Init, TypeOK, Idle
<1>4. SocketsSound
  BY DEF Init, SocketsSound, ActsForSender, Idle
<1> QED
  BY <1>3, <1>4 DEF TypeInv

(* An action that leaves the UI thread, the socket table, the phase of every *)
(* connection and lastReg alone keeps SocketsSound.                          *)
LEMMA SocketsFrame ==
  ASSUME TypeInv, UNCHANGED <<ui, sockets, lastReg>>,
         \A c \in Conns : conn'[c].st = conn[c].st
  PROVE  SocketsSound'
<1>1. ActsForSender'
  BY DEF TypeInv, SocketsSound, ActsForSender
<1>2. /\ sockets \in [Handles -> Conns \cup {NoConn}]
      /\ lastReg \in [Hosts -> Conns \cup {NoConn}]
  BY DEF TypeInv, TypeOK
<1> QED
  BY <1>1, <1>2 DEF TypeInv, SocketsSound

(* Closing a connection keeps it too, when the handler ends with that or     *)
(* goes on to read data of odd length.                                       *)
LEMMA SocketsClosed ==
  ASSUME TypeInv, NEW s \in Handles, CloseConnection(s), ActsForSender',
         lastReg' = lastReg
  PROVE  SocketsSound'
<1>1. /\ lastReg \in [Hosts -> Conns \cup {NoConn}]
      /\ sockets \in [Handles -> Conns \cup {NoConn}]
  BY DEF TypeInv, TypeOK
<1> QED
  BY <1>1, CloseConnectionSound DEF TypeInv, SocketsSound

LEMMA TypePeer ==
  ASSUME TypeInv, NEW c \in Conns,
         PeerConnect(c) \/ PeerSend(c) \/ PeerGone(c) \/ Arrive(c)
  PROVE  TypeInv'
<1> USE DEF TypeInv
<1>1. /\ conn \in [Conns -> Connection] /\ conn[c] \in Connection
      /\ <<>> \in Seq(Piece) /\ conn[c].wire \in Seq(Piece)
      /\ conn[c].stream \in Seq(Piece)
  BY DEF TypeOK, Connection
<1>2. CASE PeerConnect(c)
  <2> DEFINE r == [conn[c] EXCEPT !.st = "backlog"]
  <2>1. r \in Connection
    BY <1>1, ConnectionFields, Zenon
  <2>2. conn' \in [Conns -> Connection]
    BY <1>1, <1>2, <2>1 DEF PeerConnect
  <2>3. TypeOK'
    BY <1>2, <2>2 DEF PeerConnect, TypeOK
  <2>4. SocketsSound'
    BY <1>1, <1>2 DEF PeerConnect, TypeOK, SocketsSound, ActsForSender, Connection
  <2> QED
    BY <2>3, <2>4
<1>3. CASE PeerSend(c)
  <2> PICK m \in Requests : conn' = [conn EXCEPT ![c].wire = Pieces(m)]
    BY <1>3 DEF PeerSend
  <2> DEFINE r == [conn[c] EXCEPT !.wire = Pieces(m)]
  <2>1. Pieces(m) \in Seq(Piece)
    BY PiecesType, ListenerAssumption
  <2>2. r \in Connection
    BY <1>1, <2>1, ConnectionFields, Zenon
  <2>3. conn' = [conn EXCEPT ![c] = r] /\ r.st = conn[c].st
    BY <1>1 DEF Connection
  <2>4. conn' \in [Conns -> Connection] /\ \A d \in Conns : conn'[d].st = conn[d].st
    BY <1>1, <2>2, <2>3, ConnUpdate
  <2>5. sent' \in [Conns -> 0 .. MaxSend]
    BY <1>3, ListenerAssumption DEF PeerSend, TypeOK
  <2>6. TypeOK'
    BY <1>3, <2>4, <2>5 DEF PeerSend, TypeOK
  <2> QED
    BY <1>3, <2>4, <2>6, SocketsFrame DEF PeerSend
<1>4. CASE PeerGone(c)
  <2> DEFINE r == [conn[c] EXCEPT !.gone = TRUE, !.wire = <<>>]
  <2>1. r \in Connection
    BY <1>1, ConnectionFields, Zenon
  <2>2. conn' = [conn EXCEPT ![c] = r] /\ r.st = conn[c].st
    BY <1>1, <1>4 DEF PeerGone, Connection
  <2>3. conn' \in [Conns -> Connection] /\ \A d \in Conns : conn'[d].st = conn[d].st
    BY <1>1, <2>1, <2>2, ConnUpdate
  <2>4. TypeOK'
    BY <1>4, <2>3 DEF PeerGone, TypeOK
  <2> QED
    BY <1>4, <2>3, <2>4, SocketsFrame DEF PeerGone
<1>5. CASE Arrive(c)
  <2> DEFINE str == Append(conn[c].stream, Head(conn[c].wire))
             wr  == Tail(conn[c].wire)
             r   == [conn[c] EXCEPT !.stream = str, !.wire = wr]
  <2>1. str \in Seq(Piece) /\ wr \in Seq(Piece)
    BY <1>1, <1>5 DEF Arrive
  <2>2. r.st = conn[c].st
    BY <1>1 DEF Connection
  <2>6. conn' = [conn EXCEPT ![c] = r]
    BY <1>1, <1>5, Zenon DEF Arrive
  <2> HIDE DEF str, wr
  <2>3. r \in Connection
    BY <1>1, <2>1, ConnectionFields, Zenon
  <2> HIDE DEF r
  <2>4. conn' \in [Conns -> Connection] /\ \A d \in Conns : conn'[d].st = conn[d].st
    BY <1>1, <2>2, <2>3, <2>6, ConnUpdate
  <2>5. TypeOK'
    BY <1>5, <2>4 DEF Arrive, TypeOK
  <2> QED
    BY <1>5, <2>4, <2>5, SocketsFrame DEF Arrive
<1> QED
  BY <1>2, <1>3, <1>4, <1>5

LEMMA TypeWinsock ==
  ASSUME TypeInv, Winsock
  PROVE  TypeInv'
<1> USE DEF TypeInv
<1>0. conn \in [Conns -> Connection] /\ NoConn \notin Conns
  BY ListenerAssumption DEF TypeOK
<1>1. CASE PostAccept
  <2>1. queue' \in Seq(Event)
    BY <1>1 DEF PostAccept, TypeOK, Event
  <2>2. TypeOK'
    BY <1>1, <2>1 DEF PostAccept, TypeOK
  <2> QED
    BY <1>1, <2>2, SocketsFrame DEF PostAccept
<1>2. ASSUME NEW s \in Handles, PostRead(s)
      PROVE  TypeInv'
  <2> DEFINE c == sockets[s]
             r == [conn[c] EXCEPT !.armed = FALSE]
  <2>1. c \in Conns /\ conn[c] \in Connection
    BY <1>0, <1>2 DEF TypeOK, PostRead, IsOpen
  <2>2. conn' = [conn EXCEPT ![c] = r] /\ r.st = conn[c].st
    BY <1>2, <2>1 DEF PostRead, Connection
  <2> HIDE DEF c
  <2>3. FALSE \in BOOLEAN /\ r \in Connection
    BY <2>1, ConnectionFields, Zenon
  <2>4. queue' \in Seq(Event)
    BY <1>2 DEF PostRead, TypeOK, Event
  <2> HIDE DEF r
  <2>5. conn' \in [Conns -> Connection] /\ \A d \in Conns : conn'[d].st = conn[d].st
    BY <1>0, <2>1, <2>2, <2>3, ConnUpdate
  <2>6. TypeOK'
    BY <1>2, <2>4, <2>5 DEF PostRead, TypeOK
  <2> QED
    BY <1>2, <2>5, <2>6, SocketsFrame DEF PostRead
<1>3. ASSUME NEW s \in Handles, PostClose(s)
      PROVE  TypeInv'
  <2> DEFINE c == sockets[s]
             r == [conn[c] EXCEPT !.fin = TRUE]
  <2>1. c \in Conns /\ conn[c] \in Connection
    BY <1>0, <1>3 DEF TypeOK, PostClose, IsOpen
  <2>2. conn' = [conn EXCEPT ![c] = r] /\ r.st = conn[c].st
    BY <1>3, <2>1 DEF PostClose, Connection
  <2> HIDE DEF c
  <2>3. TRUE \in BOOLEAN /\ r \in Connection
    BY <2>1, ConnectionFields, Zenon
  <2>4. queue' \in Seq(Event)
    BY <1>3 DEF PostClose, TypeOK, Event
  <2> HIDE DEF r
  <2>5. conn' \in [Conns -> Connection] /\ \A d \in Conns : conn'[d].st = conn[d].st
    BY <1>0, <2>1, <2>2, <2>3, ConnUpdate
  <2>6. TypeOK'
    BY <1>3, <2>4, <2>5 DEF PostClose, TypeOK
  <2> QED
    BY <1>3, <2>5, <2>6, SocketsFrame DEF PostClose
<1> QED
  BY <1>1, <1>2, <1>3 DEF Winsock

LEMMA TypeOnAccept == TypeInv /\ OnAccept => TypeInv'
<1> SUFFICES ASSUME TypeInv, OnAccept PROVE TypeInv'
  OBVIOUS
<1> USE DEF TypeInv
<1>0. conn \in [Conns -> Connection] /\ NoConn \notin Conns
  BY ListenerAssumption DEF TypeOK
<1>1. queue' \in Seq(Event)
  BY DEF OnAccept, TypeOK
<1>2. ASSUME NEW c \in Conns, NEW s \in Handles, conn[c].st = "backlog",
             sockets[s] = NoConn, conn' = [conn EXCEPT ![c].st = "open"],
             sockets' = [sockets EXCEPT ![s] = c]
      PROVE  TypeInv'
  <2> DEFINE r == [conn[c] EXCEPT !.st = "open"]
  <2>1. r \in Connection
    BY <1>0, ConnectionFields, Zenon
  <2>2. r.st = "open" /\ conn' = [conn EXCEPT ![c] = r]
    BY <1>0, <1>2 DEF Connection
  <2> HIDE DEF r
  <2>3. /\ conn' \in [Conns -> Connection] /\ conn'[c].st = "open"
        /\ \A d \in Conns : d # c => conn'[d] = conn[d]
    BY <1>0, <2>1, <2>2, ConnUpdate
  <2>4. sockets' \in [Handles -> Conns \cup {NoConn}]
    BY <1>2 DEF TypeOK
  <2>5. TypeOK'
    BY <1>1, <2>3, <2>4 DEF OnAccept, TypeOK
  <2>6. \A t \in Handles : sockets[t] # c
    BY <1>0, <1>2 DEF SocketsSound
  <2>7. SocketsSound'
    BY <1>0, <1>2, <2>3, <2>6 DEF OnAccept, TypeOK, SocketsSound, ActsForSender
  <2> QED
    BY <2>5, <2>7
<1>3. CASE UNCHANGED <<conn, sockets>>
  <2>1. TypeOK'
    BY <1>1, <1>3 DEF OnAccept, TypeOK
  <2> QED
    BY <1>3, <2>1, SocketsFrame DEF OnAccept
<1> QED
  BY <1>2, <1>3 DEF OnAccept

(* Closing a SOCKET value that is no longer open is harmless, and so is the  *)
(* close of a stale FD_CLOSE: the socket table stays sound either way.       *)
LEMMA TypeOnClose == TypeInv /\ OnClose => TypeInv'
<1> SUFFICES ASSUME TypeInv, OnClose PROVE TypeInv'
  OBVIOUS
<1> DEFINE s == Head(queue).sock
<1>1. queue \in Seq(Event) /\ Head(queue) \in Event /\ queue' \in Seq(Event)
  BY DEF OnClose, TypeInv, TypeOK
<1>2. UNCHANGED <<m_arrClientInfo, listening, ui, m_lstWebHistory, acceptArmed,
                  sent, lastReg>> /\ ui = Idle /\ CloseConnection(s)
  BY DEF OnClose
<1> HIDE DEF s
<1>3. CASE s \in Handles
  <2>1. sockets' \in [Handles -> Conns \cup {NoConn}] /\ conn' \in [Conns -> Connection]
    BY <1>2, <1>3, CloseConnectionSound
  <2>2. TypeOK'
    BY <1>1, <1>2, <2>1 DEF TypeInv, TypeOK
  <2>3. ActsForSender'
    BY <1>2 DEF ActsForSender
  <2>4. SocketsSound'
    BY <1>2, <1>3, <2>3, SocketsClosed
  <2> QED
    BY <2>2, <2>4 DEF TypeInv
<1>4. CASE s \notin Handles
  <2>1. UNCHANGED <<conn, sockets>>
    BY <1>2, <1>4 DEF CloseConnection, IsOpen
  <2>2. TypeOK'
    BY <1>1, <1>2, <2>1 DEF TypeInv, TypeOK
  <2> QED
    BY <1>2, <2>1, <2>2, SocketsFrame DEF TypeInv
<1> QED
  BY <1>3, <1>4

(* What a receiving handler does to a connection it does not close: it drops *)
(* pieces from the front of the stream and arms FD_READ again.               *)
LEMMA ReceiveSound ==
  ASSUME conn \in [Conns -> Connection], NEW c \in Conns, NEW n \in Nat,
         Receive(c, n) \/ conn' = [conn EXCEPT ![c].armed = TRUE]
  PROVE  /\ conn' \in [Conns -> Connection]
         /\ \A d \in Conns : conn'[d].st = conn[d].st
<1> DEFINE rest == SubSeq(conn[c].stream, n + 1, Len(conn[c].stream))
           q == [conn[c] EXCEPT !.armed = TRUE]
           r == [conn[c] EXCEPT !.armed = TRUE, !.stream = rest]
<1>1. conn[c] \in Connection /\ conn[c].stream \in Seq(Piece)
  BY DEF Connection
<1>2. rest \in Seq(Piece)
  BY <1>1
<1>3. q.st = conn[c].st /\ r.st = conn[c].st
  BY <1>1 DEF Connection
<1>4. conn' = [conn EXCEPT ![c] = q] \/ conn' = [conn EXCEPT ![c] = r]
  BY Zenon DEF Receive
<1> HIDE DEF rest
<1>5. q \in Connection /\ r \in Connection
  BY <1>1, <1>2, ConnectionFields, Zenon
<1> HIDE DEF q, r
<1>6. CASE conn' = [conn EXCEPT ![c] = q]
  BY <1>3, <1>5, <1>6, ConnUpdate
<1>7. CASE conn' = [conn EXCEPT ![c] = r]
  BY <1>3, <1>5, <1>7, ConnUpdate
<1> QED
  BY <1>4, <1>6, <1>7

(* The UI thread finishes a handler, or starts or continues one that works   *)
(* on an open connection, and closes at most the connection it worked on; or *)
(* it closes that connection and goes on to read data of odd length.         *)
LEMMA HandlerStep ==
  ASSUME TypeInv, NEW s \in Handles,
         queue' \in Seq(Event),
         UNCHANGED <<m_arrClientInfo, listening, m_lstWebHistory, acceptArmed,
                     sent, lastReg>>,
         \/ /\ \/ ui' = Idle
               \/ /\ IsOpen(s)
                  /\ \E m \in Piece : m.msg.len = "odd" /\ ui' = Busy("data", s, m)
            /\ CloseConnection(s)
         \/ /\ \/ ui' = Idle
               \/ /\ IsOpen(s)
                  /\ \E pc \in {"data", "cmd"}, m \in Piece :
                       m.msg.len # "odd" /\ ui' = Busy(pc, s, m)
            /\ \/ UNCHANGED conn
               \/ /\ IsOpen(s)
                  /\ \/ conn' = [conn EXCEPT ![sockets[s]].armed = TRUE]
                     \/ \E n \in Nat : Receive(sockets[s], n)
            /\ UNCHANGED sockets
  PROVE  TypeInv'
<1>0. /\ conn \in [Conns -> Connection]
      /\ sockets \in [Handles -> Conns \cup {NoConn}]
      /\ lastReg \in [Hosts -> Conns \cup {NoConn}]
      /\ SocketsSound
  BY DEF TypeInv, TypeOK
<1>1. IsOpen(s) => sockets[s] \in Conns
  BY <1>0 DEF IsOpen
<1>2. CASE /\ CloseConnection(s)
           /\ \/ ui' = Idle
              \/ /\ IsOpen(s)
                 /\ \E m \in Piece : m.msg.len = "odd" /\ ui' = Busy("data", s, m)
  <2>1. sockets' \in [Handles -> Conns \cup {NoConn}] /\ conn' \in [Conns -> Connection]
    BY <1>2, CloseConnectionSound
  <2>2. ui' \in {Idle} \cup [pc : {"data", "cmd"}, sock : Handles, from : Conns, hdr : Piece]
    BY <1>1, <1>2 DEF Busy
  <2>3. TypeOK'
    BY <1>2, <2>1, <2>2 DEF TypeInv, TypeOK
  <2>4. sockets'[s] = NoConn
    BY <1>0, <1>2 DEF CloseConnection, IsOpen
  <2>5. ActsForSender'
    BY <1>2, <2>4 DEF ActsForSender, Busy
  <2>6. SocketsSound'
    BY <1>2, <2>5, SocketsClosed
  <2> QED
    BY <2>3, <2>6 DEF TypeInv
<1>3. CASE /\ UNCHANGED sockets
           /\ \/ ui' = Idle
              \/ /\ IsOpen(s)
                 /\ \E pc \in {"data", "cmd"}, m \in Piece :
                      m.msg.len # "odd" /\ ui' = Busy(pc, s, m)
           /\ (\/ UNCHANGED conn
               \/ IsOpen(s) /\ conn' = [conn EXCEPT ![sockets[s]].armed = TRUE]
               \/ IsOpen(s) /\ \E n \in Nat : Receive(sockets[s], n))
  <2>1. conn' \in [Conns -> Connection] /\ \A d \in Conns : conn'[d].st = conn[d].st
    <3>1. CASE UNCHANGED conn
      BY <1>0, <3>1
    <3>2. CASE IsOpen(s) /\ conn' = [conn EXCEPT ![sockets[s]].armed = TRUE]
      <4>1. 0 \in Nat
        OBVIOUS
      <4> QED
        BY <1>0, <1>1, <3>2, <4>1, ReceiveSound
    <3>3. CASE IsOpen(s) /\ \E n \in Nat : Receive(sockets[s], n)
      BY <1>0, <1>1, <3>3, ReceiveSound
    <3> QED
      BY <1>3, <3>1, <3>2, <3>3
  <2>2. ui' \in {Idle} \cup [pc : {"data", "cmd"}, sock : Handles, from : Conns, hdr : Piece]
    BY <1>1, <1>3 DEF Busy
  <2>3. TypeOK'
    BY <1>3, <2>1, <2>2 DEF TypeInv, TypeOK
  <2>4. ActsForSender'
    BY <1>3 DEF ActsForSender, Busy
  <2>5. SocketsSound'
    BY <1>0, <1>3, <2>1, <2>4, ListenerAssumption DEF SocketsSound
  <2> QED
    BY <2>3, <2>5 DEF TypeInv
<1> QED
  BY <1>2, <1>3

LEMMA TypeOnRead == TypeInv /\ OnRead => TypeInv'
<1> SUFFICES ASSUME TypeInv, OnRead PROVE TypeInv'
  OBVIOUS
<1> DEFINE s == Head(queue).sock
<1>1. queue \in Seq(Event) /\ queue' \in Seq(Event) /\ ui = Idle
  BY DEF OnRead, TypeInv, TypeOK
<1>2. UNCHANGED <<m_arrClientInfo, listening, m_lstWebHistory, acceptArmed, sent, lastReg>>
  BY DEF OnRead
<1>3. \/ ReadStale(s) \/ ReadNothing(s) \/ ReadPartial(s) \/ ReadBadHeader(s)
      \/ OddLength(s) \/ ReadHeader(s)
  BY DEF OnRead
<1> HIDE DEF s
<1>4. CASE ReadStale(s)
  <2>1. UNCHANGED <<conn, sockets, ui>>
    BY <1>4 DEF ReadStale
  <2>2. TypeOK'
    BY <1>1, <1>2, <2>1 DEF TypeInv, TypeOK
  <2> QED
    BY <1>2, <2>1, <2>2, SocketsFrame DEF TypeInv
<1>5. ASSUME IsOpen(s)
      PROVE  s \in Handles /\ sockets[s] \in Conns /\ conn[sockets[s]] \in Connection
  BY <1>5 DEF IsOpen, TypeInv, TypeOK
<1>6. CASE ReadNothing(s)
  BY <1>1, <1>2, <1>5, <1>6, HandlerStep DEF ReadNothing
<1>7. CASE ReadPartial(s)
  BY <1>1, <1>2, <1>5, <1>7, HandlerStep DEF ReadPartial
<1>8. CASE ReadBadHeader(s)
  BY <1>1, <1>2, <1>5, <1>8, HandlerStep DEF ReadBadHeader
<1>9. CASE ReadHeader(s)
  <2>1. IsOpen(s) /\ UNCHANGED sockets /\ Receive(sockets[s], 2) /\ 2 \in Nat
    BY <1>9 DEF ReadHeader
  <2>2. conn[sockets[s]].stream[1] \in Piece
    BY <1>5, <1>9 DEF ReadHeader, Connection
  <2>3. \E pc \in {"data", "cmd"}, m \in Piece : m.msg.len # "odd" /\ ui' = Busy(pc, s, m)
    BY <1>9, <2>2 DEF ReadHeader
  <2> QED
    BY <1>1, <1>2, <1>5, <2>1, <2>3, HandlerStep
<1>10. CASE OddLength(s)
  <2>1. IsOpen(s) /\ CloseConnection(s)
    BY <1>10 DEF OddLength
  <2>2. conn[sockets[s]].stream[1] \in Piece
    BY <1>5, <1>10 DEF OddLength, Connection
  <2>3. \E m \in Piece : m.msg.len = "odd" /\ ui' = Busy("data", s, m)
    BY <1>10, <2>2 DEF OddLength
  <2> QED
    BY <1>1, <1>2, <1>5, <2>1, <2>3, HandlerStep
<1> QED
  BY <1>3, <1>4, <1>6, <1>7, <1>8, <1>9, <1>10

LEMMA TypeRecvData == TypeInv /\ RecvData => TypeInv'
<1> SUFFICES ASSUME TypeInv, RecvData PROVE TypeInv'
  OBVIOUS
<1> DEFINE s == ui.sock
<1>1. /\ queue' \in Seq(Event)
      /\ UNCHANGED <<m_arrClientInfo, listening, m_lstWebHistory, acceptArmed, sent, lastReg>>
  BY DEF RecvData, TypeInv, TypeOK
<1>2. ui # Idle /\ s \in Handles /\ ui.hdr \in Piece
  BY DEF RecvData, TypeInv, TypeOK, Idle
<1>3. CASE DataOfClosed
  BY <1>1, <1>2, <1>3, HandlerStep DEF DataOfClosed
<1>4. CASE DataComplete
  <2>1. IsOpen(s) /\ Receive(sockets[s], 1) /\ 1 \in Nat /\ UNCHANGED sockets
        /\ ui' = [ui EXCEPT !.pc = "cmd"]
    BY <1>4 DEF DataComplete
  <2>2. sockets[s] = ui.from /\ ui.hdr.msg.len # "odd"
    BY <1>2, <2>1 DEF TypeInv, SocketsSound, ActsForSender, IsOpen
  <2>3. ui' = Busy("cmd", s, ui.hdr)
    BY <1>2, <2>1, <2>2 DEF TypeInv, TypeOK, Busy
  <2> QED
    BY <1>1, <1>2, <2>1, <2>2, <2>3, HandlerStep
<1>5. CASE DataMissing
  BY <1>1, <1>2, <1>5, HandlerStep DEF DataMissing
<1> QED
  BY <1>3, <1>4, <1>5 DEF RecvData

(* AddNewClient keeps the list typed, touches no other connection than the   *)
(* one it may close, and records only an open connection as registered.      *)
LEMMA AddNewClientSound ==
  ASSUME TypeInv, NEW s \in Handles, IsOpen(s), NEW h \in Hosts, AddNewClient(s, h)
  PROVE  /\ m_arrClientInfo' \in Seq(ClientInfo)
         /\ lastReg' \in [Hosts -> Conns \cup {NoConn}]
         /\ \/ CloseConnection(s) /\ UNCHANGED <<m_arrClientInfo, lastReg>>
            \/ /\ UNCHANGED <<conn, sockets>>
               /\ lastReg' = [lastReg EXCEPT ![h] = sockets[s]]
<1>1. /\ m_arrClientInfo \in Seq(ClientInfo)
      /\ lastReg \in [Hosts -> Conns \cup {NoConn}]
      /\ sockets[s] \in Conns
  BY DEF TypeInv, TypeOK, IsOpen
<1>2. CASE /\ m_arrClientInfo' = Append(m_arrClientInfo, NewClientInfo(s, h))
           /\ lastReg' = [lastReg EXCEPT ![h] = sockets[s]]
           /\ UNCHANGED <<conn, sockets>>
  <2>1. NewClientInfo(s, h) \in ClientInfo
    BY DEF NewClientInfo, ClientInfo
  <2> QED
    BY <1>1, <1>2, <2>1
<1>3. CASE CloseConnection(s) /\ UNCHANGED <<m_arrClientInfo, lastReg>>
  BY <1>1, <1>3
<1>4. ASSUME NEW i \in DOMAIN m_arrClientInfo,
             m_arrClientInfo' = [m_arrClientInfo EXCEPT ![i].ConnSock = s],
             lastReg' = [lastReg EXCEPT ![h] = sockets[s]],
             UNCHANGED <<conn, sockets>>
      PROVE  /\ m_arrClientInfo' \in Seq(ClientInfo)
             /\ lastReg' \in [Hosts -> Conns \cup {NoConn}]
  <2> DEFINE e == [m_arrClientInfo[i] EXCEPT !.ConnSock = s]
  <2>1. e \in ClientInfo
    <3>1. m_arrClientInfo[i] \in ClientInfo
      BY <1>1
    <3> QED
      BY <3>1, Zenon DEF ClientInfo
  <2>2. m_arrClientInfo' = [m_arrClientInfo EXCEPT ![i] = e]
    BY <1>1, <1>4
  <2> HIDE DEF e
  <2>3. m_arrClientInfo' \in Seq(ClientInfo)
    <3>1. m_arrClientInfo \in Seq(ClientInfo) /\ i \in 1 .. Len(m_arrClientInfo)
      BY <1>1
    <3> QED
      BY <2>1, <2>2, <3>1, ExceptSeq
  <2>4. lastReg' \in [Hosts -> Conns \cup {NoConn}]
    BY <1>1, <1>4
  <2> QED
    BY <2>3, <2>4
<1> QED
  BY <1>2, <1>3, <1>4, Zenon DEF AddNewClient

LEMMA TypeProcessCmd == TypeInv /\ ProcessCmd => TypeInv'
<1> SUFFICES ASSUME TypeInv, ProcessCmd PROVE TypeInv'
  OBVIOUS
<1> DEFINE s == ui.sock
<1>1. ui # Idle /\ s \in Handles /\ IsOpen(s) /\ ui' = Idle
      /\ UNCHANGED <<listening, queue, acceptArmed, sent>>
  BY CommandIsOpen
     DEF ProcessCmd, OnMsgClientInfo, IgnoreClientInfo, RefuseCmd, HandleCmd
<1>2. /\ sockets[s] \in Conns /\ conn[sockets[s]] \in Connection
      /\ conn[sockets[s]].host \in Hosts /\ conn[sockets[s]].st = "open"
      /\ queue' \in Seq(Event) /\ sockets \in [Handles -> Conns \cup {NoConn}]
      /\ lastReg \in [Hosts -> Conns \cup {NoConn}]
      /\ conn \in [Conns -> Connection]
  BY <1>1 DEF IsOpen, TypeInv, TypeOK, SocketsSound, Connection
<1>3. CASE OnMsgClientInfo
  <2>1. UNCHANGED m_lstWebHistory
    BY <1>3 DEF OnMsgClientInfo
  <2>2. CASE CloseConnection(s) /\ UNCHANGED <<m_arrClientInfo, lastReg>>
    BY <1>1, <1>2, <2>1, <2>2, HandlerStep
  <2>3. CASE AddNewClient(s, conn[sockets[s]].host)
    <3> DEFINE h == conn[sockets[s]].host
    <3>1. /\ m_arrClientInfo' \in Seq(ClientInfo)
          /\ lastReg' \in [Hosts -> Conns \cup {NoConn}]
          /\ \/ CloseConnection(s) /\ UNCHANGED <<m_arrClientInfo, lastReg>>
             \/ /\ UNCHANGED <<conn, sockets>>
                /\ lastReg' = [lastReg EXCEPT ![h] = sockets[s]]
      BY <1>1, <1>2, <2>3, AddNewClientSound
    <3>2. CASE /\ UNCHANGED <<conn, sockets>>
               /\ lastReg' = [lastReg EXCEPT ![h] = sockets[s]]
      <4>1. TypeOK'
        BY <1>1, <2>1, <3>1, <3>2 DEF TypeInv, TypeOK
      <4>2. SocketsSound'
        BY <1>1, <1>2, <3>1, <3>2 DEF TypeInv, SocketsSound, ActsForSender
      <4> QED
        BY <4>1, <4>2 DEF TypeInv
    <3> QED
      BY <2>2, <3>1, <3>2
  <2> QED
    BY <1>3, <2>2, <2>3 DEF OnMsgClientInfo
<1>4. CASE IgnoreClientInfo
  BY <1>1, <1>2, <1>4, HandlerStep DEF IgnoreClientInfo
<1>5. CASE RefuseCmd
  BY <1>1, <1>2, <1>5, HandlerStep DEF RefuseCmd
<1>6. CASE HandleCmd
  <2>1. m_lstWebHistory' \in Seq(Conns)
    <3>1. m_lstWebHistory \in Seq(Conns)
      BY DEF TypeInv, TypeOK
    <3>2. UNCHANGED m_lstWebHistory
          \/ m_lstWebHistory' = Append(m_lstWebHistory, sockets[s])
      BY <1>6, Zenon DEF HandleCmd, AddRow
    <3> QED
      BY <1>2, <3>1, <3>2
  <2>2. TypeOK'
    BY <1>1, <1>6, <2>1 DEF HandleCmd, AddRow, TypeInv, TypeOK
  <2>3. SocketsSound'
    BY <1>1, <1>6 DEF HandleCmd, AddRow, TypeInv, SocketsSound, ActsForSender
  <2> QED
    BY <2>2, <2>3 DEF TypeInv
<1> QED
  BY <1>3, <1>4, <1>5, <1>6 DEF ProcessCmd

LEMMA TypeStartStop == TypeInv /\ (Start \/ Stop) => TypeInv'
<1> SUFFICES ASSUME TypeInv, Start \/ Stop PROVE TypeInv'
  OBVIOUS
<1>1. CASE Start
  <2>1. TypeOK'
    BY <1>1 DEF Start, Initialize, TypeInv, TypeOK
  <2>2. SocketsSound'
    BY <1>1 DEF Start, Initialize, TypeInv, SocketsSound, ActsForSender
  <2> QED
    BY <2>1, <2>2 DEF TypeInv
<1>2. CASE Stop
  <2> DEFINE closed(c) == [conn[c] EXCEPT !.st = "closed", !.stream = <<>>, !.wire = <<>>]
  <2>1. ASSUME NEW c \in Conns
        PROVE  closed(c) \in Connection /\ closed(c).st = "closed"
    <3>1. <<>> \in Seq(Piece) /\ conn[c] \in Connection
      BY DEF TypeInv, TypeOK
    <3>2. closed(c) \in Connection
      BY <3>1, ConnectionFields, Zenon
    <3>3. closed(c).st = "closed"
      BY <3>1 DEF Connection
    <3> QED
      BY <3>2, <3>3
  <2>2. conn' = [c \in Conns |-> closed(c)]
    BY <1>2, Zenon DEF Stop, CleanUp
  <2> HIDE DEF closed
  <2>3. conn' \in [Conns -> Connection] /\ \A c \in Conns : conn'[c].st = "closed"
    BY <2>1, <2>2
  <2>6. <<>> \in Seq(Event)
    OBVIOUS
  <2>4. TypeOK'
    <3>4. queue' = <<>> /\ <<>> \in Seq(Event)
      BY <1>2, <2>6 DEF Stop, CleanUp
    <3>1. queue' \in Seq(Event)
      BY <3>4, Zenon
    <3>3. sockets' \in [Handles -> Conns \cup {NoConn}]
      BY <1>2, Zenon DEF Stop, CleanUp
    <3>2. UNCHANGED <<m_arrClientInfo, ui, m_lstWebHistory, acceptArmed, sent, lastReg>>
          /\ listening' = "stopped"
      BY <1>2 DEF Stop, CleanUp
    <3> QED
      BY <2>3, <3>1, <3>2, <3>3 DEF TypeInv, TypeOK
  <2>5. SocketsSound'
    <3>1. /\ ui' = Idle /\ lastReg' = lastReg
          /\ sockets' = [s \in Handles |-> NoConn]
      BY <1>2 DEF Stop, CleanUp
    <3>2. ActsForSender'
      BY <3>1 DEF ActsForSender
    <3>3. lastReg \in [Hosts -> Conns \cup {NoConn}]
      BY DEF TypeInv, TypeOK
    <3> QED
      BY <2>3, <3>1, <3>2, <3>3 DEF SocketsSound
  <2> QED
    BY <2>4, <2>5 DEF TypeInv
<1> QED
  BY <1>1, <1>2

LEMMA TypeStep == TypeInv /\ [Next]_vars => TypeInv'
<1> SUFFICES ASSUME TypeInv, [Next]_vars PROVE TypeInv'
  OBVIOUS
<1>1. CASE Next
  BY <1>1, TypeStartStop, TypeOnAccept, TypeOnClose, TypeOnRead, TypeRecvData,
     TypeProcessCmd, TypePeer, TypeWinsock, Zenon DEF Next, Dispatch, Peer
<1>2. CASE UNCHANGED vars
  BY <1>2 DEF vars, TypeInv, TypeOK, SocketsSound, ActsForSender
<1> QED
  BY <1>1, <1>2

(* In every reachable state, for every choice of the constants, the          *)
(* variables have their types and the SOCKET values are sound: what the      *)
(* handler and the table hold denotes distinct open connections, or nothing. *)
THEOREM TypeCorrect == Spec => [](TypeOK /\ SocketsSound)
BY TypeInit, TypeStep, PTL DEF Spec, TypeInv

(* Whatever closes, fails and is reused, ProcessRead and ProcessCmd act for  *)
(* the connection that sent the message they handle; where ProcessRead goes  *)
(* on with a SOCKET value it has closed itself (an odd DataLen, after which  *)
(* Listener.cpp:372 does not return), the value denotes no connection and    *)
(* the message reaches no command.                                           *)
THEOREM SenderCorrect == Spec => []ActsForSender
<1>1. TypeOK /\ SocketsSound => ActsForSender
  BY DEF SocketsSound
<1> QED
  BY <1>1, TypeCorrect, PTL

-----------------------------------------------------------------------------
(* The connection list.  HostNameIsKey and ConnSockIsKey are inductive       *)
(* relative to TypeInv.  LatestRegistrationWins needs HostNameIsKey (the     *)
(* entry taken over is not another machine's) and, from SocketsSound, that   *)
(* an accepted connection was not registered before.                         *)

ListInv == HostNameIsKey /\ ConnSockIsKey /\ LatestRegistrationWins

(* Registers(s, h): the effect of AddNewClient when it accepts the           *)
(* registration of machine h over the open connection s.                     *)
Registers(s, h) ==
  /\ \/ /\ \A i \in DOMAIN m_arrClientInfo : m_arrClientInfo[i].HostName # h
        /\ m_arrClientInfo' = Append(m_arrClientInfo, NewClientInfo(s, h))
     \/ \E i \in DOMAIN m_arrClientInfo :
          /\ m_arrClientInfo[i].HostName = h
          /\ m_arrClientInfo' = [m_arrClientInfo EXCEPT ![i].ConnSock = s]
  /\ ~Registered(s)
  /\ lastReg' = [lastReg EXCEPT ![h] = sockets[s]]
  /\ UNCHANGED sockets

(* Every other step leaves the list alone and frees SOCKET values, or hands  *)
(* a free one to a connection that has registered no machine.                *)
KeepsList ==
  /\ UNCHANGED <<m_arrClientInfo, lastReg>>
  /\ \A s \in Handles : \/ sockets'[s] = sockets[s]
                        \/ sockets'[s] = NoConn
                        \/ \A h \in Hosts : lastReg[h] # sockets'[s]

LEMMA CloseKeepsList ==
  ASSUME TypeInv, NEW s \in Handles, CloseConnection(s),
         UNCHANGED <<m_arrClientInfo, lastReg>>
  PROVE  KeepsList
BY CloseConnectionSound DEF KeepsList

LEMMA ListChange ==
  ASSUME TypeInv, [Next]_vars
  PROVE  KeepsList \/ \E s \in Handles, h \in Hosts : IsOpen(s) /\ Registers(s, h)
<1>1. CASE UNCHANGED <<m_arrClientInfo, lastReg, sockets>>
  BY <1>1 DEF KeepsList
<1>2. CASE Start
  BY <1>1, <1>2 DEF Start, Initialize
<1>3. CASE Stop
  BY <1>3 DEF Stop, CleanUp, KeepsList
<1>4. CASE OnAccept
  <2>1. ASSUME NEW c \in Conns, NEW s \in Handles, conn[c].st = "backlog",
               sockets' = [sockets EXCEPT ![s] = c]
        PROVE  KeepsList
    <3>1. \A h \in Hosts : lastReg[h] # c
      BY <2>1, ListenerAssumption DEF TypeInv, SocketsSound
    <3> QED
      BY <1>4, <2>1, <3>1 DEF OnAccept, KeepsList, TypeInv, TypeOK
  <2> QED
    BY <1>1, <1>4, <2>1 DEF OnAccept
<1>5. CASE OnClose
  <2>1. CloseConnection(Head(queue).sock) /\ UNCHANGED <<m_arrClientInfo, lastReg>>
    BY <1>5 DEF OnClose
  <2>2. CASE Head(queue).sock \in Handles
    BY <2>1, <2>2, CloseKeepsList
  <2>3. CASE Head(queue).sock \notin Handles
    BY <1>1, <2>1, <2>3 DEF CloseConnection, IsOpen
  <2> QED
    BY <2>2, <2>3
<1>6. CASE OnRead
  <2> DEFINE s == Head(queue).sock
  <2>1. UNCHANGED <<m_arrClientInfo, lastReg>>
        /\ (UNCHANGED sockets \/ (IsOpen(s) /\ CloseConnection(s)))
    BY <1>6 DEF OnRead, ReadStale, ReadNothing, ReadPartial, ReadBadHeader, OddLength,
                ReadHeader
  <2> HIDE DEF s
  <2> QED
    BY <1>1, <2>1, CloseKeepsList DEF IsOpen
<1>7. CASE RecvData
  <2>1. ui.sock \in Handles
    BY <1>7 DEF RecvData, TypeInv, TypeOK, Idle
  <2>2. UNCHANGED <<m_arrClientInfo, lastReg>>
        /\ (UNCHANGED sockets \/ CloseConnection(ui.sock))
    BY <1>7 DEF RecvData, DataOfClosed, DataComplete, DataMissing
  <2> QED
    BY <1>1, <2>1, <2>2, CloseKeepsList
<1>8. CASE ProcessCmd
  <2>1. ui.sock \in Handles /\ IsOpen(ui.sock)
    BY <1>8, CommandIsOpen
       DEF ProcessCmd, OnMsgClientInfo, IgnoreClientInfo, RefuseCmd, HandleCmd
  <2>2. CASE OnMsgClientInfo
    <3> DEFINE s == ui.sock
               h == conn[sockets[s]].host
    <3>1. h \in Hosts /\ ~Registered(s)
      BY <2>1, <2>2 DEF OnMsgClientInfo, IsOpen, TypeInv, TypeOK, Connection
    <3>2. CASE CloseConnection(s) /\ UNCHANGED <<m_arrClientInfo, lastReg>>
      BY <2>1, <3>2, CloseKeepsList
    <3>3. CASE AddNewClient(s, h)
      <4> HIDE DEF s, h
      <4>1. \/ CloseConnection(s) /\ UNCHANGED <<m_arrClientInfo, lastReg>>
            \/ Registers(s, h)
        BY <3>1, <3>3 DEF AddNewClient, Registers
      <4> QED
        BY <2>1, <3>1, <4>1, CloseKeepsList DEF s
    <3> QED
      BY <2>2, <3>2, <3>3 DEF OnMsgClientInfo
  <2>3. CASE RefuseCmd
    BY <2>1, <2>3, CloseKeepsList DEF RefuseCmd
  <2>4. CASE IgnoreClientInfo \/ HandleCmd
    BY <1>1, <2>4 DEF IgnoreClientInfo, HandleCmd
  <2> QED
    BY <1>8, <2>2, <2>3, <2>4 DEF ProcessCmd
<1>9. CASE Peer
  BY <1>1, <1>9 DEF Peer, PeerConnect, PeerSend, PeerGone, Arrive
<1>10. CASE Winsock
  BY <1>1, <1>10 DEF Winsock, PostAccept, PostRead, PostClose
<1>11. CASE UNCHANGED vars
  BY <1>1, <1>11 DEF vars
<1> QED
  BY <1>2, <1>3, <1>4, <1>5, <1>6, <1>7, <1>8, <1>9, <1>10, <1>11 DEF Next, Dispatch

(* Taking an entry over changes its SOCKET value and nothing else. *)
LEMMA EntryMoves ==
  ASSUME m_arrClientInfo \in Seq(ClientInfo), NEW i \in DOMAIN m_arrClientInfo, NEW s,
         m_arrClientInfo' = [m_arrClientInfo EXCEPT ![i].ConnSock = s]
  PROVE  /\ DOMAIN m_arrClientInfo' = DOMAIN m_arrClientInfo
         /\ \A j \in DOMAIN m_arrClientInfo :
              /\ m_arrClientInfo'[j].HostName = m_arrClientInfo[j].HostName
              /\ j # i => m_arrClientInfo'[j].ConnSock = m_arrClientInfo[j].ConnSock
         /\ m_arrClientInfo'[i].ConnSock = s
<1> DEFINE e == [m_arrClientInfo[i] EXCEPT !.ConnSock = s]
<1>1. m_arrClientInfo[i] \in ClientInfo
  OBVIOUS
<1>2. e.ConnSock = s /\ e.HostName = m_arrClientInfo[i].HostName
  BY <1>1 DEF ClientInfo
<1>3. m_arrClientInfo' = [m_arrClientInfo EXCEPT ![i] = e]
  BY Zenon
<1> HIDE DEF e
<1> QED
  BY <1>2, <1>3

LEMMA ListStep == TypeInv /\ ListInv /\ [Next]_vars => ListInv'
<1> SUFFICES ASSUME TypeInv, ListInv, [Next]_vars PROVE ListInv'
  OBVIOUS
<1>0. /\ m_arrClientInfo \in Seq(ClientInfo)
      /\ sockets \in [Handles -> Conns \cup {NoConn}]
      /\ lastReg \in [Hosts -> Conns \cup {NoConn}]
      /\ NoConn \notin Conns
  BY ListenerAssumption DEF TypeInv, TypeOK
<1>1. CASE KeepsList
  BY <1>0, <1>1 DEF KeepsList, ListInv, HostNameIsKey, ConnSockIsKey,
                    LatestRegistrationWins
<1>2. ASSUME NEW s \in Handles, NEW h \in Hosts, IsOpen(s), Registers(s, h)
      PROVE  ListInv'
  <2>1. /\ \A i \in DOMAIN m_arrClientInfo : m_arrClientInfo[i].ConnSock # s
        /\ UNCHANGED sockets
        /\ lastReg' = [lastReg EXCEPT ![h] = sockets[s]]
    BY <1>2 DEF Registers, Registered
  <2>2. \A t \in Handles : sockets[t] = sockets[s] => t = s
    BY <1>2 DEF TypeInv, SocketsSound, IsOpen
  <2>3. CASE /\ \A i \in DOMAIN m_arrClientInfo : m_arrClientInfo[i].HostName # h
             /\ m_arrClientInfo' = Append(m_arrClientInfo, NewClientInfo(s, h))
    <3> DEFINE n == Len(m_arrClientInfo)
    <3>1. /\ n \in Nat /\ DOMAIN m_arrClientInfo = 1 .. n
          /\ DOMAIN m_arrClientInfo' = 1 .. (n + 1)
          /\ \A i \in 1 .. n : m_arrClientInfo'[i] = m_arrClientInfo[i]
          /\ m_arrClientInfo'[n + 1] = NewClientInfo(s, h)
      BY <1>0, <2>3
    <3>2. NewClientInfo(s, h).HostName = h /\ NewClientInfo(s, h).ConnSock = s
      BY DEF NewClientInfo
    <3> HIDE DEF n
    <3>3. HostNameIsKey'
      BY <2>3, <3>1, <3>2 DEF ListInv, HostNameIsKey
    <3>4. ConnSockIsKey'
      BY <2>1, <3>1, <3>2 DEF ListInv, ConnSockIsKey
    <3>5. LatestRegistrationWins'
      BY <1>0, <2>1, <2>2, <3>1, <3>2 DEF ListInv, LatestRegistrationWins
    <3> QED
      BY <3>3, <3>4, <3>5 DEF ListInv
  <2>4. ASSUME NEW i \in DOMAIN m_arrClientInfo, m_arrClientInfo[i].HostName = h,
               m_arrClientInfo' = [m_arrClientInfo EXCEPT ![i].ConnSock = s]
        PROVE  ListInv'
    <3>1. /\ DOMAIN m_arrClientInfo' = DOMAIN m_arrClientInfo
          /\ \A j \in DOMAIN m_arrClientInfo :
               /\ m_arrClientInfo'[j].HostName = m_arrClientInfo[j].HostName
               /\ j # i => m_arrClientInfo'[j].ConnSock = m_arrClientInfo[j].ConnSock
          /\ m_arrClientInfo'[i].ConnSock = s
      BY <1>0, <2>4, EntryMoves
    <3>2. HostNameIsKey'
      BY <3>1 DEF ListInv, HostNameIsKey
    <3>3. ConnSockIsKey'
      BY <2>1, <3>1 DEF ListInv, ConnSockIsKey
    <3>4. LatestRegistrationWins'
      BY <1>0, <2>1, <2>2, <2>4, <3>1 DEF ListInv, LatestRegistrationWins
    <3> QED
      BY <3>2, <3>3, <3>4 DEF ListInv
  <2> QED
    BY <1>2, <2>3, <2>4 DEF Registers
<1> QED
  BY <1>1, <1>2, ListChange

LEMMA ListInit == Init => ListInv
BY DEF Init, ListInv, HostNameIsKey, ConnSockIsKey, LatestRegistrationWins

(* HostName and ConnSock are keys of the connection list, however machines   *)
(* reconnect and Winsock reuses SOCKET values.                               *)
THEOREM KeysCorrect == Spec => [](HostNameIsKey /\ ConnSockIsKey)
<1>1. ListInv => HostNameIsKey /\ ConnSockIsKey
  BY DEF ListInv
<1> QED
  BY <1>1, TypeInit, TypeStep, ListInit, ListStep, PTL DEF Spec

(* No two entries hold the same SOCKET value, although entries of closed      *)
(* connections keep theirs and Winsock hands it out again.                   *)
THEOREM ConnSockKeyCorrect == Spec => []ConnSockIsKey
BY KeysCorrect, PTL

(* A machine's entry holds the SOCKET value of the connection that           *)
(* registered it last, for as long as that connection is open.               *)
THEOREM LatestRegistrationCorrect == Spec => []LatestRegistrationWins
<1>1. ListInv => LatestRegistrationWins
  BY DEF ListInv
<1> QED
  BY <1>1, TypeInit, TypeStep, ListInit, ListStep, PTL DEF Spec

-----------------------------------------------------------------------------
(***************************************************************************)
(* The frame is kept: wherever messages are cut, RecvHeader reads headers  *)
(* and RecvData the data of the header just read.  FramingKept looks at    *)
(* the first piece of a connection only.  What makes it inductive is the   *)
(* order of all pieces that are unread, of which the last completes its    *)
(* message as long as the peer is there to send more behind it.            *)
(***************************************************************************)
(* What the server has still to read of a connection *)
Unread(c) == conn[c].stream \o conn[c].wire

Data(m) == [part |-> "data", msg |-> m]

(* The piece p is the last of its message. *)
Completes(p) == p.part = "data" \/ (p.part = "header2" /\ ~HasData(p.msg))

(* The piece q may come after p. *)
Follows(p, q) ==
  IF p.part = "header1" THEN q = [part |-> "header2", msg |-> p.msg]
  ELSE IF Completes(p) THEN q.part = "header1"
  ELSE q = Data(p.msg)

Framed(in) == \A i \in 1 .. Len(in) - 1 : Follows(in[i], in[i + 1])

(* The frame of a connection with the unread pieces in: reading says that    *)
(* the handler is about to read the data of the message m from it.           *)
InFrame(in, gone, reading, m) ==
  /\ Framed(in)
  /\ in # <<>> => IF reading THEN in[1] = Data(m) ELSE in[1].part = "header1"
  /\ ~gone /\ in # <<>> => Completes(in[Len(in)])
  /\ ~gone /\ reading => in # <<>>

Reading(c) == ui # Idle /\ ui.pc = "data" /\ sockets[ui.sock] = c

ConnFrame(c) ==
  /\ InFrame(Unread(c), conn[c].gone, Reading(c), ui.hdr.msg)
  /\ conn[c].gone => conn[c].wire = <<>>

FrameInv ==
  /\ ui # Idle => ui.hdr.part = "header1"
  /\ \A c \in Conns : ConnFrame(c)

-----------------------------------------------------------------------------
(* The pieces of messages *)

LEMMA PiecesFramed ==
  ASSUME NEW m \in Messages
  PROVE  /\ Pieces(m) \in Seq(Piece) /\ Pieces(m) # <<>>
         /\ Framed(Pieces(m))
         /\ Pieces(m)[1].part = "header1"
         /\ Completes(Pieces(m)[Len(Pieces(m))])
<1> DEFINE p(x) == [part |-> x, msg |-> m]
           P == Pieces(m)
<1>1. P \in Seq(Piece)
  BY PiecesType
<1>2. CASE HasData(m)
  <2>1. P = <<p("header1"), p("header2"), p("data")>>
    BY <1>2 DEF Pieces
  <2>2. Len(P) = 3 /\ P[1] = p("header1") /\ P[2] = p("header2") /\ P[3] = p("data")
    BY <2>1
  <2>3. Follows(p("header1"), p("header2")) /\ Follows(p("header2"), p("data"))
        /\ Completes(p("data"))
    BY <1>2 DEF Follows, Completes, Data
  <2>4. p("header1").part = "header1"
    OBVIOUS
  <2> HIDE DEF P, p
  <2>5. Framed(P)
    <3> SUFFICES ASSUME NEW i \in 1 .. 2 PROVE Follows(P[i], P[i + 1])
      BY <2>2 DEF Framed
    <3>1. (i = 1 /\ i + 1 = 2) \/ (i = 2 /\ i + 1 = 3)
      OBVIOUS
    <3> QED
      BY <2>2, <2>3, <3>1
  <2>6. P # <<>> /\ P[1].part = "header1" /\ Completes(P[Len(P)])
    BY <1>1, <2>2, <2>3, <2>4, EmptySeq
  <2> QED
    BY <1>1, <2>5, <2>6 DEF P
<1>3. CASE ~HasData(m)
  <2>1. P = <<p("header1"), p("header2")>>
    BY <1>3 DEF Pieces
  <2>2. Len(P) = 2 /\ P[1] = p("header1") /\ P[2] = p("header2")
    BY <2>1
  <2>3. Follows(p("header1"), p("header2")) /\ Completes(p("header2"))
    BY <1>3 DEF Follows, Completes
  <2>4. p("header1").part = "header1"
    OBVIOUS
  <2> HIDE DEF P, p
  <2>5. Framed(P)
    <3> SUFFICES ASSUME NEW i \in 1 .. 1 PROVE Follows(P[i], P[i + 1])
      BY <2>2 DEF Framed
    <3>1. i = 1 /\ i + 1 = 2
      OBVIOUS
    <3> QED
      BY <2>2, <2>3, <3>1
  <2>6. P # <<>> /\ P[1].part = "header1" /\ Completes(P[Len(P)])
    BY SMTT(30), <1>1, <2>2, <2>3, <2>4, EmptySeq
  <2> QED
    BY <1>1, <2>5, <2>6 DEF P
<1> QED
  BY <1>2, <1>3

(* A peer that is there sends another message. *)
LEMMA FrameSend ==
  ASSUME NEW in \in Seq(Piece), NEW reading \in BOOLEAN, NEW m, NEW new \in Messages,
         InFrame(in, FALSE, reading, m)
  PROVE  InFrame(in \o Pieces(new), FALSE, reading, m)
<1> DEFINE P == Pieces(new)
           out == in \o P
<1>1. /\ P \in Seq(Piece) /\ P # <<>> /\ Framed(P)
      /\ P[1].part = "header1" /\ Completes(P[Len(P)])
  BY PiecesFramed
<1> HIDE DEF P
<1>2. /\ Len(in) \in Nat /\ Len(P) \in Nat \ {0} /\ Len(out) = Len(in) + Len(P)
      /\ \A i \in 1 .. Len(in) + Len(P) :
           out[i] = IF i <= Len(in) THEN in[i] ELSE P[i - Len(in)]
      /\ out # <<>>
      /\ in # <<>> <=> Len(in) > 0
  BY <1>1, ConcatProperties, EmptySeq
<1> HIDE DEF out
<1>3. ASSUME NEW i \in 1 .. Len(out) - 1 PROVE Follows(out[i], out[i + 1])
  <2>1. CASE i < Len(in)
    BY <1>2, <2>1 DEF InFrame, Framed
  <2>2. CASE i = Len(in)
    <3>1. out[i] = in[Len(in)] /\ out[i + 1] = P[1]
      BY <1>2, <2>2
    <3> QED
      BY <1>1, <1>2, <2>2, <3>1 DEF InFrame, Follows, Completes
  <2>3. CASE i > Len(in)
    <3>1. i - Len(in) \in 1 .. Len(P) - 1
      BY <1>2, <2>3
    <3>2. out[i] = P[i - Len(in)] /\ out[i + 1] = P[i - Len(in) + 1]
      BY <1>2, <2>3, <3>1
    <3> QED
      BY <1>1, <3>1, <3>2 DEF Framed
  <2> QED
    BY <1>2, <2>1, <2>2, <2>3
<1>4. out[Len(out)] = P[Len(P)] /\ out[1] = IF in = <<>> THEN P[1] ELSE in[1]
  BY <1>2
<1> QED
  BY <1>1, <1>2, <1>3, <1>4 DEF InFrame, Framed, out, P

(* The peer is gone, and what had not arrived is lost. *)
LEMMA FrameCut ==
  ASSUME NEW in \in Seq(Piece), NEW lost \in Seq(Piece), NEW reading \in BOOLEAN,
         NEW m, InFrame(in \o lost, FALSE, reading, m)
  PROVE  InFrame(in, TRUE, reading, m)
<1> DEFINE all == in \o lost
<1>1. /\ Len(in) \in Nat /\ Len(lost) \in Nat /\ Len(all) = Len(in) + Len(lost)
      /\ \A i \in 1 .. Len(in) : all[i] = in[i]
      /\ in # <<>> <=> Len(in) > 0
      /\ all # <<>> <=> Len(all) > 0
  BY ConcatProperties, EmptySeq
<1> HIDE DEF all
<1>2. InFrame(all, FALSE, reading, m)
  BY DEF all
<1>3. Framed(in)
  BY <1>1, <1>2 DEF InFrame, Framed
<1>4. in # <<>> => all # <<>> /\ in[1] = all[1]
  BY <1>1
<1> QED
  BY <1>2, <1>3, <1>4, Zenon DEF InFrame

(* The pieces before the k-th are read. *)
LEMMA DropFramed ==
  ASSUME NEW in \in Seq(Piece), NEW k \in 1 .. Len(in) + 1, Framed(in)
  PROVE  LET rest == SubSeq(in, k, Len(in))
         IN  /\ rest \in Seq(Piece) /\ Len(rest) = Len(in) - k + 1 /\ Framed(rest)
             /\ \A i \in 1 .. Len(rest) : rest[i] = in[k + i - 1]
             /\ rest = <<>> <=> Len(rest) = 0
<1> DEFINE rest == SubSeq(in, k, Len(in))
<1>1. Len(in) \in Nat /\ \A i \in k .. Len(in) : in[i] \in Piece
  OBVIOUS
<1>2. /\ rest \in Seq(Piece)
      /\ Len(rest) = IF k <= Len(in) THEN Len(in) - k + 1 ELSE 0
      /\ \A i \in 1 .. Len(in) - k + 1 : rest[i] = in[k + i - 1]
  BY <1>1, SubSeqProperties
<1> HIDE DEF rest
<1>3. Len(rest) = Len(in) - k + 1 /\ \A i \in 1 .. Len(rest) : rest[i] = in[k + i - 1]
  BY <1>1, <1>2
<1>4. ASSUME NEW i \in 1 .. Len(rest) - 1 PROVE Follows(rest[i], rest[i + 1])
  <2>1. rest[i] = in[k + i - 1] /\ rest[i + 1] = in[k + i - 1 + 1]
        /\ k + i - 1 \in 1 .. Len(in) - 1
    BY <1>1, <1>3
  <2> QED
    BY <2>1 DEF Framed
<1>5. rest = <<>> <=> Len(rest) = 0
  BY <1>2, EmptySeq
<1> QED
  BY <1>2, <1>3, <1>4, <1>5 DEF rest, Framed

LEMMA FrameHeader ==
  ASSUME NEW in \in Seq(Piece), Len(in) >= 2, NEW gone \in BOOLEAN, NEW m,
         InFrame(in, gone, FALSE, m)
  PROVE  /\ in[1].part = "header1"
         /\ InFrame(SubSeq(in, 3, Len(in)), gone, HasData(in[1].msg), in[1].msg)
<1> DEFINE rest == SubSeq(in, 3, Len(in))
<1>1. Len(in) \in Nat /\ in # <<>>
  BY EmptySeq
<1>0. 3 \in 1 .. Len(in) + 1 /\ Framed(in)
  BY <1>1 DEF InFrame
<1>9. /\ rest \in Seq(Piece) /\ Len(rest) = Len(in) - 3 + 1 /\ Framed(rest)
      /\ \A i \in 1 .. Len(rest) : rest[i] = in[3 + i - 1]
      /\ rest = <<>> <=> Len(rest) = 0
  BY <1>0, DropFramed
<1> HIDE DEF rest
<1>2. /\ rest \in Seq(Piece) /\ Len(rest) = Len(in) - 2 /\ Framed(rest)
      /\ \A i \in 1 .. Len(rest) : rest[i] = in[2 + i]
      /\ rest = <<>> <=> Len(in) = 2
  BY <1>1, <1>9
<1>3. in[1].part = "header1"
  BY <1>1 DEF InFrame
<1>4. in[2] = [part |-> "header2", msg |-> in[1].msg]
  BY <1>1, <1>3 DEF InFrame, Framed, Follows
<1>5. Completes(in[2]) <=> ~HasData(in[1].msg)
  BY <1>4 DEF Completes
<1>6. rest # <<>> =>
        /\ rest[1] = in[3] /\ rest[Len(rest)] = in[Len(in)]
        /\ Follows(in[2], in[3])
  BY <1>1, <1>2 DEF InFrame, Framed
<1>7. rest # <<>> => IF HasData(in[1].msg) THEN rest[1] = Data(in[1].msg)
                                            ELSE rest[1].part = "header1"
  BY <1>4, <1>5, <1>6 DEF Follows
<1>8. ~gone /\ HasData(in[1].msg) => rest # <<>>
  BY <1>1, <1>2, <1>5 DEF InFrame
<1> QED
  BY <1>1, <1>2, <1>3, <1>6, <1>7, <1>8 DEF InFrame, rest

LEMMA FrameData ==
  ASSUME NEW in \in Seq(Piece), in # <<>>, NEW gone \in BOOLEAN, NEW m, NEW n,
         InFrame(in, gone, TRUE, m)
  PROVE  InFrame(SubSeq(in, 2, Len(in)), gone, FALSE, n)
<1> DEFINE rest == SubSeq(in, 2, Len(in))
<1>1. Len(in) \in Nat \ {0}
  BY EmptySeq
<1>0. 2 \in 1 .. Len(in) + 1 /\ Framed(in)
  BY <1>1 DEF InFrame
<1>9. /\ rest \in Seq(Piece) /\ Len(rest) = Len(in) - 2 + 1 /\ Framed(rest)
      /\ \A i \in 1 .. Len(rest) : rest[i] = in[2 + i - 1]
      /\ rest = <<>> <=> Len(rest) = 0
  BY <1>0, DropFramed
<1> HIDE DEF rest
<1>2. /\ rest \in Seq(Piece) /\ Len(rest) = Len(in) - 1 /\ Framed(rest)
      /\ \A i \in 1 .. Len(rest) : rest[i] = in[1 + i]
      /\ rest = <<>> <=> Len(in) = 1
  BY <1>1, <1>9
<1>3. rest # <<>> =>
        /\ rest[1] = in[2] /\ rest[Len(rest)] = in[Len(in)]
        /\ Follows(in[1], in[2])
  BY <1>1, <1>2 DEF InFrame, Framed
<1>4. rest # <<>> => rest[1].part = "header1"
  BY <1>3 DEF InFrame, Follows, Completes, Data
<1> QED
  BY <1>2, <1>3, <1>4 DEF InFrame, rest

(* Nothing is left to read. *)
LEMMA FrameEmpty ==
  ASSUME NEW gone \in BOOLEAN, NEW reading \in BOOLEAN, NEW m, gone \/ ~reading
  PROVE  InFrame(<<>>, gone, reading, m)
BY DEF InFrame, Framed

(* Only a handler that reads data cares which message it is. *)
LEMMA FrameMessage ==
  ASSUME NEW in, NEW gone, NEW m, NEW n, InFrame(in, gone, FALSE, m)
  PROVE  InFrame(in, gone, FALSE, n)
BY DEF InFrame

(* Reading from what has arrived is reading from what is unread. *)
LEMMA DropConcat ==
  ASSUME NEW in \in Seq(Piece), NEW out \in Seq(Piece), NEW k \in 1 .. Len(in) + 1
  PROVE  SubSeq(in, k, Len(in)) \o out = SubSeq(in \o out, k, Len(in \o out))
<1> DEFINE all  == in \o out
           rest == SubSeq(in, k, Len(in))
           left == rest \o out
           right == SubSeq(all, k, Len(all))
<1>1. /\ Len(in) \in Nat /\ Len(out) \in Nat
      /\ all \in Seq(Piece) /\ Len(all) = Len(in) + Len(out)
      /\ \A i \in 1 .. Len(in) + Len(out) :
           all[i] = IF i <= Len(in) THEN in[i] ELSE out[i - Len(in)]
      /\ \A i \in k .. Len(in) : in[i] \in Piece
  BY ConcatProperties
<1> HIDE DEF all
<1>2. \A i \in k .. Len(all) : all[i] \in Piece
  BY <1>1
<1>3. /\ rest \in Seq(Piece)
      /\ Len(rest) = Len(in) - k + 1
      /\ \A i \in 1 .. Len(in) - k + 1 : rest[i] = in[k + i - 1]
  BY <1>1, SubSeqProperties
<1>4. /\ right \in Seq(Piece)
      /\ Len(right) = Len(all) - k + 1
      /\ \A i \in 1 .. Len(all) - k + 1 : right[i] = all[k + i - 1]
  BY <1>1, <1>2, SubSeqProperties
<1> HIDE DEF rest, right
<1>5. /\ left \in Seq(Piece)
      /\ Len(left) = Len(rest) + Len(out)
      /\ \A i \in 1 .. Len(rest) + Len(out) :
           left[i] = IF i <= Len(rest) THEN rest[i] ELSE out[i - Len(rest)]
  BY <1>3, ConcatProperties
<1> HIDE DEF left
<1>6. Len(left) = Len(right)
  BY <1>1, <1>3, <1>4, <1>5
<1>7. ASSUME NEW i \in 1 .. Len(left) PROVE left[i] = right[i]
  <2>1. CASE i <= Len(rest)
    <3>1. i \in 1 .. Len(in) - k + 1 /\ i \in 1 .. Len(all) - k + 1
          /\ k + i - 1 \in 1 .. Len(in)
      BY <1>1, <1>3, <1>5, <2>1
    <3>2. left[i] = in[k + i - 1] /\ right[i] = all[k + i - 1]
      BY <1>3, <1>4, <1>5, <2>1, <3>1
    <3>3. \A j \in 1 .. Len(in) : all[j] = in[j]
      BY <1>1
    <3> QED
      BY <3>1, <3>2, <3>3
  <2>2. CASE i > Len(rest)
    <3>1. /\ left[i] = out[i - Len(rest)] /\ right[i] = all[k + i - 1]
          /\ k + i - 1 \in Len(in) + 1 .. Len(in) + Len(out)
          /\ k + i - 1 - Len(in) = i - Len(rest)
      BY SMTT(30), <1>1, <1>3, <1>4, <1>5, <2>2
    <3> QED
      BY SMTT(30), <1>1, <3>1
  <2> QED
    BY <1>1, <1>3, <1>5, <2>1, <2>2
<1> QED
  BY <1>4, <1>5, <1>6, <1>7, SeqEqual DEF all, rest, left, right

(* Nor does it matter what has arrived. *)
LEMMA HeadArrives ==
  ASSUME NEW in \in Seq(Piece), NEW out \in Seq(Piece), out # <<>>
  PROVE  Append(in, Head(out)) \o Tail(out) = in \o out
<1> DEFINE h == Head(out)
           r == Tail(out)
<1>1. h \in Piece /\ r \in Seq(Piece) /\ out = <<h>> \o r
  <2>1. 1 \in 1 .. Len(out) /\ Len(out) \in 1 .. Len(out)
    BY EmptySeq
  <2>2. out = <<out[1]>> \o SubSeq(out, 1 + 1, Len(out))
    BY <2>1, SubSeqFull, SubSeqRecursiveFirst
  <2>3. h = out[1] /\ r = SubSeq(out, 2, Len(out)) /\ 1 + 1 = 2
    BY TailIsSubSeq
  <2> QED
    BY <2>2, <2>3, HeadTailProperties
<1>2. Append(in, h) = in \o <<h>> /\ <<h>> \in Seq(Piece)
  BY <1>1, AppendIsConcat
<1> HIDE DEF h, r
<1> QED
  BY SMTT(30), <1>1, <1>2, ConcatAssociative DEF h, r

-----------------------------------------------------------------------------
(* What a step does to one connection *)

(* It is left as it was, and the handler does not read its data or is the    *)
(* one that did.                                                             *)
LEMMA FrameKept ==
  ASSUME FrameInv, NEW c \in Conns,
         conn'[c].stream \o conn'[c].wire = Unread(c),
         conn'[c].gone = conn[c].gone,
         conn[c].gone => conn'[c].wire = conn[c].wire,
         \/ Reading(c)' = Reading(c) /\ ui' = ui
         \/ ~Reading(c) /\ ~Reading(c)'
  PROVE  ConnFrame(c)'
<1>1. ConnFrame(c)
  BY DEF FrameInv
<1>2. Unread(c)' = Unread(c)
  BY DEF Unread
<1>3. CASE Reading(c)' = Reading(c) /\ ui' = ui
  BY <1>1, <1>2, <1>3 DEF ConnFrame
<1>4. CASE ~Reading(c) /\ ~Reading(c)'
  <2>1. InFrame(Unread(c), conn[c].gone, FALSE, ui.hdr.msg)
    BY <1>1, <1>4 DEF ConnFrame, InFrame
  <2>2. InFrame(Unread(c), conn[c].gone, FALSE, ui'.hdr.msg)
    BY <2>1, FrameMessage
  <2>3. InFrame(Unread(c)', conn'[c].gone, Reading(c)', ui'.hdr.msg)
    BY <1>2, <1>4, <2>2 DEF InFrame
  <2> QED
    BY <1>1, <2>3 DEF ConnFrame
<1> QED
  BY <1>3, <1>4

(* Its pieces are all read or lost. *)
LEMMA FrameDone ==
  ASSUME NEW c \in Conns, conn'[c].stream = <<>>, conn'[c].wire = <<>>, ~Reading(c)'
  PROVE  ConnFrame(c)'
<1>1. Unread(c)' = <<>>
  BY DEF Unread
<1> QED
  BY <1>1 DEF ConnFrame, InFrame, Framed

(* A handler closes the connection s, and is done with it or goes on with    *)
(* its SOCKET value.                                                         *)
LEMMA FrameClose ==
  ASSUME TypeInv, FrameInv, NEW s \in Handles, CloseConnection(s),
         ui' # Idle => ui'.sock = s /\ ui'.hdr.part = "header1",
         ui # Idle => ui.sock = s
  PROVE  FrameInv'
<1>1. /\ conn \in [Conns -> Connection]
      /\ sockets \in [Handles -> Conns \cup {NoConn}] /\ NoConn \notin Conns
  BY ListenerAssumption DEF TypeInv, TypeOK
<1>2. \A c \in Conns : ~Reading(c)'
  <2>1. sockets'[s] = NoConn
    BY <1>1 DEF CloseConnection, IsOpen
  <2> QED
    BY <1>1, <2>1 DEF Reading
<1>3. CASE IsOpen(s)
  <2> DEFINE c0 == sockets[s]
             r == [conn[c0] EXCEPT !.st = "closed", !.stream = <<>>, !.wire = <<>>]
  <2>1. c0 \in Conns /\ conn[c0] \in Connection
    BY <1>1, <1>3 DEF IsOpen
  <2>2. conn' = [conn EXCEPT ![c0] = r]
    BY <1>3 DEF CloseConnection
  <2>3. r.stream = <<>> /\ r.wire = <<>>
    BY <2>1 DEF Connection
  <2> HIDE DEF r
  <2>4. conn'[c0] = r /\ \A d \in Conns : d # c0 => conn'[d] = conn[d]
    BY <1>1, <2>1, <2>2
  <2>5. ASSUME NEW d \in Conns, d = c0 PROVE ConnFrame(d)'
    BY <1>2, <2>3, <2>4, <2>5, FrameDone
  <2>6. ASSUME NEW d \in Conns, d # c0 PROVE ConnFrame(d)'
    <3>1. ~Reading(d)
      BY <2>6 DEF Reading
    <3> QED
      BY <1>2, <2>4, <2>6, <3>1, FrameKept DEF Unread
  <2> QED
    BY <2>5, <2>6 DEF FrameInv
<1>4. CASE ~IsOpen(s)
  <2>1. UNCHANGED conn /\ sockets[s] = NoConn
    BY <1>4 DEF CloseConnection, IsOpen
  <2>2. \A d \in Conns : ~Reading(d)
    BY <1>1, <2>1 DEF Reading
  <2>3. \A d \in Conns : ConnFrame(d)'
    BY <1>2, <2>1, <2>2, FrameKept DEF Unread
  <2> QED
    BY <2>3 DEF FrameInv
<1> QED
  BY <1>3, <1>4

(* A handler ends and leaves every connection as it was; nothing is unread   *)
(* where it was to read data.                                                *)
LEMMA FrameIdle ==
  ASSUME FrameInv, ui' = Idle, UNCHANGED conn,
         \A c \in Conns : Reading(c) => conn[c].stream = <<>> /\ conn[c].wire = <<>>
  PROVE  FrameInv'
<1>1. \A c \in Conns : ~Reading(c)'
  BY DEF Reading
<1>2. ASSUME NEW c \in Conns PROVE ConnFrame(c)'
  <2>1. CASE Reading(c)
    BY <1>1, <2>1, FrameDone
  <2>2. CASE ~Reading(c)
    BY <1>1, <2>2, FrameKept DEF Unread
  <2> QED
    BY <2>1, <2>2
<1> QED
  BY <1>2 DEF FrameInv

-----------------------------------------------------------------------------
(* What Winsock and the peers do *)

LEMMA FramePeer ==
  ASSUME TypeInv, FrameInv, NEW c \in Conns,
         PeerConnect(c) \/ PeerSend(c) \/ PeerGone(c) \/ Arrive(c)
  PROVE  FrameInv'
<1>0. /\ conn \in [Conns -> Connection] /\ conn[c] \in Connection
      /\ conn[c].stream \in Seq(Piece) /\ conn[c].wire \in Seq(Piece)
      /\ conn[c].gone \in BOOLEAN
      /\ UNCHANGED <<ui, sockets>> /\ ConnFrame(c)
  BY DEF TypeInv, TypeOK, Connection, FrameInv, PeerConnect, PeerSend, PeerGone, Arrive
<1>1. (\A d \in Conns : Reading(d)' = Reading(d)) /\ Reading(c) \in BOOLEAN
  BY <1>0 DEF Reading
<1>2. ASSUME NEW d \in Conns, conn'[d] = conn[d] PROVE ConnFrame(d)'
  BY <1>0, <1>1, <1>2, FrameKept DEF Unread
<1>3. ASSUME ConnFrame(c)', \A d \in Conns : d # c => conn'[d] = conn[d]
      PROVE  FrameInv'
  BY <1>0, <1>2, <1>3 DEF FrameInv
<1>4. CASE PeerConnect(c)
  <2> DEFINE r == [conn[c] EXCEPT !.st = "backlog"]
  <2>1. r.stream = conn[c].stream /\ r.wire = conn[c].wire /\ r.gone = conn[c].gone
    BY <1>0 DEF Connection
  <2>2. conn' = [conn EXCEPT ![c] = r]
    BY <1>4 DEF PeerConnect
  <2> HIDE DEF r
  <2>3. conn'[c] = r /\ \A d \in Conns : d # c => conn'[d] = conn[d]
    BY <1>0, <2>2
  <2>4. ConnFrame(c)'
    BY <1>0, <1>1, <2>1, <2>3, FrameKept DEF Unread
  <2> QED
    BY <1>3, <2>3, <2>4
<1>5. CASE PeerSend(c)
  <2> PICK m \in Requests : conn' = [conn EXCEPT ![c].wire = Pieces(m)]
    BY <1>5 DEF PeerSend
  <2> DEFINE r == [conn[c] EXCEPT !.wire = Pieces(m)]
  <2>1. r.stream = conn[c].stream /\ r.wire = Pieces(m) /\ r.gone = conn[c].gone
    BY <1>0 DEF Connection
  <2>2. conn' = [conn EXCEPT ![c] = r]
    OBVIOUS
  <2> HIDE DEF r
  <2>3. conn'[c] = r /\ \A d \in Conns : d # c => conn'[d] = conn[d]
    BY <1>0, <2>2
  <2>4. m \in Messages /\ ~conn[c].gone /\ conn[c].wire = <<>>
    BY <1>5, ListenerAssumption DEF PeerSend
  <2>5. Unread(c) \in Seq(Piece) /\ Unread(c) = conn[c].stream
    BY <1>0, <2>4, ConcatEmptySeq DEF Unread
  <2>6. InFrame(Unread(c), FALSE, Reading(c), ui.hdr.msg)
    BY <1>0, <2>4 DEF ConnFrame, InFrame
  <2>7. InFrame(Unread(c) \o Pieces(m), FALSE, Reading(c), ui.hdr.msg)
    BY <1>1, <2>4, <2>5, <2>6, FrameSend
  <2>8. Unread(c)' = Unread(c) \o Pieces(m) /\ ~conn'[c].gone
    BY <2>1, <2>3, <2>4, <2>5 DEF Unread
  <2>9. ConnFrame(c)'
    BY <1>0, <1>1, <2>7, <2>8 DEF ConnFrame, InFrame
  <2> QED
    BY <1>3, <2>3, <2>9
<1>6. CASE PeerGone(c)
  <2> DEFINE r == [conn[c] EXCEPT !.gone = TRUE, !.wire = <<>>]
  <2>1. r.stream = conn[c].stream /\ r.wire = <<>> /\ r.gone = TRUE
    BY <1>0 DEF Connection
  <2>2. conn' = [conn EXCEPT ![c] = r]
    BY <1>6 DEF PeerGone
  <2> HIDE DEF r
  <2>3. conn'[c] = r /\ \A d \in Conns : d # c => conn'[d] = conn[d]
    BY <1>0, <2>2
  <2>4. InFrame(conn[c].stream \o conn[c].wire, FALSE, Reading(c), ui.hdr.msg)
    BY <1>0, <1>6 DEF PeerGone, ConnFrame, Unread, InFrame
  <2>5. InFrame(conn[c].stream, TRUE, Reading(c), ui.hdr.msg)
    BY <1>0, <1>1, <2>4, FrameCut
  <2>6. Unread(c)' = conn[c].stream /\ conn'[c].gone = TRUE /\ conn'[c].wire = <<>>
    BY <1>0, <2>1, <2>3, ConcatEmptySeq DEF Unread
  <2>7. ConnFrame(c)'
    BY <1>0, <1>1, <2>5, <2>6 DEF ConnFrame
  <2> QED
    BY <1>3, <2>3, <2>7
<1>7. CASE Arrive(c)
  <2> DEFINE str == Append(conn[c].stream, Head(conn[c].wire))
             wr  == Tail(conn[c].wire)
             r   == [conn[c] EXCEPT !.stream = str, !.wire = wr]
  <2>1. conn[c].wire # <<>> /\ ~conn[c].gone
    BY <1>0, <1>7 DEF Arrive, ConnFrame
  <2>2. str \o wr = Unread(c)
    BY <1>0, <2>1, HeadArrives DEF Unread
  <2>3. r.stream = str /\ r.wire = wr /\ r.gone = conn[c].gone
    BY <1>0 DEF Connection
  <2>4. conn' = [conn EXCEPT ![c] = r]
    BY <1>7, Zenon DEF Arrive
  <2> HIDE DEF str, wr, r
  <2>5. conn'[c] = r /\ \A d \in Conns : d # c => conn'[d] = conn[d]
    BY <1>0, <2>4
  <2>6. ConnFrame(c)'
    BY <1>0, <1>1, <2>1, <2>2, <2>3, <2>5, FrameKept
  <2> QED
    BY <1>3, <2>5, <2>6
<1> QED
  BY <1>4, <1>5, <1>6, <1>7

LEMMA FrameWinsock ==
  ASSUME TypeInv, FrameInv, Winsock
  PROVE  FrameInv'
<1>0. /\ conn \in [Conns -> Connection]
      /\ sockets \in [Handles -> Conns \cup {NoConn}] /\ NoConn \notin Conns
  BY ListenerAssumption DEF TypeInv, TypeOK
<1>1. UNCHANGED <<ui, sockets>>
  BY DEF Winsock, PostAccept, PostRead, PostClose
<1>2. \A d \in Conns : Reading(d)' = Reading(d)
  BY <1>1 DEF Reading
<1>3. ASSUME NEW d \in Conns
      PROVE  /\ conn'[d].stream = conn[d].stream /\ conn'[d].wire = conn[d].wire
             /\ conn'[d].gone = conn[d].gone
  <2>1. CASE PostAccept
    BY <2>1 DEF PostAccept
  <2>2. ASSUME NEW s \in Handles, PostRead(s)
        PROVE  /\ conn'[d].stream = conn[d].stream /\ conn'[d].wire = conn[d].wire
               /\ conn'[d].gone = conn[d].gone
    BY <1>0, <2>2 DEF PostRead, IsOpen, Connection
  <2>3. ASSUME NEW s \in Handles, PostClose(s)
        PROVE  /\ conn'[d].stream = conn[d].stream /\ conn'[d].wire = conn[d].wire
               /\ conn'[d].gone = conn[d].gone
    BY <1>0, <2>3 DEF PostClose, IsOpen, Connection
  <2> QED
    BY <2>1, <2>2, <2>3 DEF Winsock
<1>4. ASSUME NEW d \in Conns PROVE ConnFrame(d)'
  BY <1>1, <1>2, <1>3, FrameKept DEF Unread
<1> QED
  BY <1>1, <1>4 DEF FrameInv

-----------------------------------------------------------------------------
(* What the handlers do *)

(* recv takes the first n of the unread pieces. *)
LEMMA ReceiveUnread ==
  ASSUME conn \in [Conns -> Connection], NEW c \in Conns,
         NEW n \in 0 .. Len(conn[c].stream), Receive(c, n)
  PROVE  /\ conn'[c].stream \o conn'[c].wire = SubSeq(Unread(c), n + 1, Len(Unread(c)))
         /\ conn'[c].wire = conn[c].wire /\ conn'[c].gone = conn[c].gone
         /\ \A d \in Conns : d # c => conn'[d] = conn[d]
<1> DEFINE rest == SubSeq(conn[c].stream, n + 1, Len(conn[c].stream))
           r == [conn[c] EXCEPT !.armed = TRUE, !.stream = rest]
<1>1. /\ conn[c] \in Connection
      /\ conn[c].stream \in Seq(Piece) /\ conn[c].wire \in Seq(Piece)
  BY DEF Connection
<1>2. r.stream = rest /\ r.wire = conn[c].wire /\ r.gone = conn[c].gone
  BY <1>1 DEF Connection
<1>3. conn' = [conn EXCEPT ![c] = r]
  BY Zenon DEF Receive
<1> HIDE DEF r
<1>4. conn'[c] = r /\ \A d \in Conns : d # c => conn'[d] = conn[d]
  BY <1>3
<1>5. n + 1 \in 1 .. Len(conn[c].stream) + 1
  BY <1>1
<1>6. rest \o conn[c].wire = SubSeq(Unread(c), n + 1, Len(Unread(c)))
  BY <1>1, <1>5, DropConcat DEF Unread
<1> QED
  BY <1>2, <1>4, <1>6

LEMMA FrameOnAccept == TypeInv /\ FrameInv /\ OnAccept => FrameInv'
<1> SUFFICES ASSUME TypeInv, FrameInv, OnAccept PROVE FrameInv'
  OBVIOUS
<1>0. conn \in [Conns -> Connection] /\ ui = Idle /\ ui' = Idle
  BY DEF OnAccept, TypeInv, TypeOK
<1>1. \A d \in Conns : ~Reading(d) /\ ~Reading(d)'
  BY <1>0 DEF Reading
<1>2. ASSUME NEW d \in Conns
      PROVE  /\ conn'[d].stream = conn[d].stream /\ conn'[d].wire = conn[d].wire
             /\ conn'[d].gone = conn[d].gone
  <2>1. conn[d] \in Connection
    BY <1>0
  <2>2. CASE conn' = conn
    BY <2>2
  <2>3. ASSUME NEW c \in Conns, conn' = [conn EXCEPT ![c].st = "open"]
        PROVE  /\ conn'[d].stream = conn[d].stream /\ conn'[d].wire = conn[d].wire
               /\ conn'[d].gone = conn[d].gone
    BY <1>0, <2>1, <2>3 DEF Connection
  <2> QED
    BY <2>2, <2>3 DEF OnAccept
<1>3. ASSUME NEW d \in Conns PROVE ConnFrame(d)'
  BY <1>1, <1>2, FrameKept DEF Unread
<1> QED
  BY <1>0, <1>3 DEF FrameInv

LEMMA FrameOnClose == TypeInv /\ FrameInv /\ OnClose => FrameInv'
<1> SUFFICES ASSUME TypeInv, FrameInv, OnClose PROVE FrameInv'
  OBVIOUS
<1> DEFINE s == Head(queue).sock
<1>1. ui = Idle /\ ui' = Idle /\ CloseConnection(s)
  BY DEF OnClose
<1> HIDE DEF s
<1>2. CASE s \in Handles
  BY <1>1, <1>2, FrameClose
<1>3. CASE s \notin Handles
  <2>1. UNCHANGED conn /\ \A c \in Conns : ~Reading(c)
    BY <1>1, <1>3 DEF CloseConnection, IsOpen, Reading
  <2> QED
    BY <1>1, <2>1, FrameIdle
<1> QED
  BY <1>2, <1>3

(* A handler reads n pieces of the connection s and takes up state new. *)
LEMMA FrameReceive ==
  ASSUME TypeInv, FrameInv, NEW s \in Handles, IsOpen(s), ui # Idle => ui.sock = s,
         NEW n \in 0 .. Len(conn[sockets[s]].stream), Receive(sockets[s], n),
         UNCHANGED sockets,
         ui' # Idle => ui'.sock = s /\ ui'.hdr.part = "header1",
         LET rest == SubSeq(Unread(sockets[s]), n + 1, Len(Unread(sockets[s])))
         IN  InFrame(rest, conn[sockets[s]].gone, ui' # Idle /\ ui'.pc = "data",
                     ui'.hdr.msg)
  PROVE  FrameInv'
<1>0. conn \in [Conns -> Connection] /\ sockets[s] \in Conns
  BY DEF TypeInv, TypeOK, IsOpen
<1> PICK c \in Conns : c = sockets[s]
  BY <1>0
<1>1. /\ conn'[c].stream \o conn'[c].wire = SubSeq(Unread(c), n + 1, Len(Unread(c)))
      /\ conn'[c].wire = conn[c].wire /\ conn'[c].gone = conn[c].gone
      /\ \A d \in Conns : d # c => conn'[d] = conn[d]
  BY <1>0, ReceiveUnread
<1>2. Reading(c)' = (ui' # Idle /\ ui'.pc = "data")
  BY DEF Reading
<1>3. ConnFrame(c)
  BY DEF FrameInv
<1>4. ConnFrame(c)'
  <2>1. Unread(c)' = SubSeq(Unread(c), n + 1, Len(Unread(c)))
    BY <1>1 DEF Unread
  <2>2. InFrame(Unread(c)', conn'[c].gone, Reading(c)', ui'.hdr.msg)
    BY <1>1, <1>2, <2>1
  <2> QED
    BY <1>1, <1>3, <2>2 DEF ConnFrame
<1>5. ASSUME NEW d \in Conns, d # c PROVE ConnFrame(d)'
  <2>1. ~Reading(d) /\ ~Reading(d)'
    BY <1>5 DEF Reading
  <2> QED
    BY <1>1, <1>5, <2>1, FrameKept DEF Unread
<1> QED
  BY <1>4, <1>5 DEF FrameInv

LEMMA FrameOnRead == TypeInv /\ FrameInv /\ OnRead => FrameInv'
<1> SUFFICES ASSUME TypeInv, FrameInv, OnRead PROVE FrameInv'
  OBVIOUS
<1> DEFINE s == Head(queue).sock
<1>1. conn \in [Conns -> Connection] /\ ui = Idle
  BY DEF OnRead, TypeInv, TypeOK
<1>2. \/ ReadStale(s) \/ ReadNothing(s) \/ ReadPartial(s) \/ ReadBadHeader(s)
      \/ OddLength(s) \/ ReadHeader(s)
  BY DEF OnRead
<1> HIDE DEF s
<1>3. \A d \in Conns : ~Reading(d)
  BY <1>1 DEF Reading
<1>4. CASE ReadStale(s)
  BY <1>1, <1>3, <1>4, FrameIdle DEF ReadStale
<1>5. CASE IsOpen(s) /\ CloseConnection(s) /\ ui' = ui
  BY <1>1, <1>5, FrameClose DEF IsOpen
<1>6. ASSUME IsOpen(s)
      PROVE  s \in Handles /\ \E c \in Conns : c = sockets[s]
  BY <1>6 DEF IsOpen, TypeInv, TypeOK
<1>7. CASE IsOpen(s) /\ conn' = [conn EXCEPT ![sockets[s]].armed = TRUE] /\ ui' = ui
  <2>1. PICK c \in Conns : c = sockets[s]
    BY <1>6, <1>7
  <2>2. ASSUME NEW d \in Conns
        PROVE  /\ conn'[d].stream = conn[d].stream /\ conn'[d].wire = conn[d].wire
               /\ conn'[d].gone = conn[d].gone
    BY <1>1, <1>7, <2>1 DEF Connection
  <2>3. ASSUME NEW d \in Conns PROVE ConnFrame(d)'
    <3>1. ~Reading(d)'
      BY <1>1, <1>7 DEF Reading
    <3> QED
      BY <1>3, <2>2, <3>1, FrameKept DEF Unread
  <2> QED
    BY <1>1, <1>7, <2>3 DEF FrameInv
<1>8. CASE /\ IsOpen(s) /\ Len(conn[sockets[s]].stream) = 1 /\ ui' = ui
           /\ conn[sockets[s]].gone /\ Receive(sockets[s], 1) /\ UNCHANGED sockets
  <2> DEFINE in == Unread(sockets[s])
  <2>1. PICK c \in Conns : c = sockets[s]
    BY <1>6, <1>8
  <2>2. conn[c].stream \in Seq(Piece) /\ conn[c].wire = <<>>
    BY <1>1, <1>8, <2>1 DEF FrameInv, ConnFrame, Connection
  <2>3. in = conn[c].stream /\ Len(in) = 1
    BY <1>8, <2>1, <2>2, ConcatEmptySeq DEF Unread
  <2>4. 1 \in 0 .. Len(conn[sockets[s]].stream) /\ 1 + 1 \in Int /\ Len(in) \in Int
        /\ Len(in) < 1 + 1
    BY <1>8, <2>3
  <2>5. SubSeq(in, 1 + 1, Len(in)) = <<>>
    BY <2>4, SubSeqEmpty
  <2>6. InFrame(SubSeq(in, 1 + 1, Len(in)), conn[sockets[s]].gone,
                ui' # Idle /\ ui'.pc = "data", ui'.hdr.msg)
    <3> DEFINE rest == SubSeq(in, 1 + 1, Len(in))
    <3>1. Framed(<<>>) /\ rest = <<>>
      BY <2>5 DEF Framed
    <3> HIDE DEF rest
    <3>2. conn[sockets[s]].gone /\ ui' = Idle
      BY <1>1, <1>8
    <3> QED
      BY <3>1, <3>2 DEF InFrame, rest
  <2> QED
    BY <1>1, <1>6, <1>8, <2>4, <2>6, FrameReceive
<1>9. ASSUME IsOpen(s), Len(conn[sockets[s]].stream) > 1
      PROVE  LET in == Unread(sockets[s])
             IN  /\ in[1] = conn[sockets[s]].stream[1] /\ in[1] \in Piece
                 /\ in[1].part = "header1"
                 /\ InFrame(SubSeq(in, 3, Len(in)), conn[sockets[s]].gone,
                            HasData(in[1].msg), in[1].msg)
  <2> DEFINE in == Unread(sockets[s])
  <2>1. PICK c \in Conns : c = sockets[s]
    BY <1>6, <1>9
  <2>2. /\ conn[c] \in Connection /\ conn[c].stream \in Seq(Piece)
        /\ conn[c].wire \in Seq(Piece) /\ conn[c].gone \in BOOLEAN /\ ConnFrame(c)
    BY <1>1 DEF FrameInv, Connection
  <2>3. /\ in \in Seq(Piece) /\ Len(in) >= 2 /\ in[1] = conn[c].stream[1]
        /\ in[1] \in Piece
    <3> DEFINE arrived == conn[c].stream
               coming  == conn[c].wire
               all     == arrived \o coming
    <3>1. /\ in = all /\ arrived \in Seq(Piece) /\ coming \in Seq(Piece)
          /\ Len(arrived) > 1
      BY <1>9, <2>1, <2>2 DEF Unread
    <3> HIDE DEF in, arrived, coming
    <3>2. /\ all \in Seq(Piece)
          /\ Len(all) = Len(arrived) + Len(coming)
          /\ \A i \in 1 .. Len(arrived) + Len(coming) :
               all[i] = IF i <= Len(arrived) THEN arrived[i] ELSE coming[i - Len(arrived)]
      BY <3>1, ConcatProperties
    <3>3. Len(arrived) \in Nat /\ Len(coming) \in Nat /\ arrived[1] \in Piece
      BY <3>1
    <3> HIDE DEF all
    <3>4. 1 \in 1 .. Len(arrived) + Len(coming) /\ 1 <= Len(arrived)
      BY <3>1, <3>3
    <3>5. all[1] = arrived[1] /\ Len(all) >= 2
      BY <3>1, <3>2, <3>3, <3>4
    <3> QED
      BY <3>1, <3>2, <3>3, <3>5 DEF arrived
  <2>4. InFrame(in, conn[c].gone, FALSE, ui.hdr.msg)
    BY <1>3, <2>1, <2>2 DEF ConnFrame, InFrame
  <2> HIDE DEF in
  <2>5. /\ in[1].part = "header1"
        /\ InFrame(SubSeq(in, 3, Len(in)), conn[c].gone, HasData(in[1].msg), in[1].msg)
    BY <2>2, <2>3, <2>4, FrameHeader
  <2> QED
    BY <2>1, <2>3, <2>5 DEF in
<1>10. CASE OddLength(s)
  <2> DEFINE first == conn[sockets[s]].stream[1]
  <2>1. /\ IsOpen(s) /\ Len(conn[sockets[s]].stream) > 1 /\ CloseConnection(s)
        /\ ui' = Busy("data", s, first)
    BY <1>10 DEF OddLength
  <2>2. first.part = "header1"
    BY <1>9, <2>1
  <2> HIDE DEF first
  <2>3. ui'.sock = s /\ ui'.hdr.part = "header1"
    BY <2>1, <2>2 DEF Busy
  <2> QED
    BY <1>1, <1>6, <2>1, <2>3, FrameClose
<1>11. CASE ReadHeader(s)
  <2> DEFINE in == Unread(sockets[s])
  <2>1. /\ IsOpen(s) /\ Receive(sockets[s], 2) /\ UNCHANGED sockets
        /\ Len(conn[sockets[s]].stream) > 1
    BY <1>11 DEF ReadHeader
  <2>2. conn[sockets[s]].stream \in Seq(Piece)
    BY <1>1, <1>6, <2>1 DEF Connection
  <2>3. 2 \in 0 .. Len(conn[sockets[s]].stream) /\ 2 + 1 = 3
    BY <2>1, <2>2
  <2>4. /\ in[1] = conn[sockets[s]].stream[1] /\ in[1] \in Piece
        /\ in[1].part = "header1"
        /\ InFrame(SubSeq(in, 3, Len(in)), conn[sockets[s]].gone,
                   HasData(in[1].msg), in[1].msg)
    BY <1>9, <2>1
  <2> HIDE DEF in
  <2>5. /\ ui' = Busy(IF in[1].msg.len = "zero" THEN "cmd" ELSE "data", s, in[1])
        /\ ~BadHeader(in[1].msg) /\ in[1].msg.len # "odd"
    BY <1>11, <2>4 DEF ReadHeader
  <2>6. /\ ui' # Idle => ui'.sock = s /\ ui'.hdr.part = "header1"
        /\ ui'.hdr.msg = in[1].msg
    BY <2>4, <2>5 DEF Busy
  <2>7. (ui' # Idle /\ ui'.pc = "data") = HasData(in[1].msg)
    <3>1. /\ ui' # Idle
          /\ ui'.pc = IF in[1].msg.len = "zero" THEN "cmd" ELSE "data"
      BY <2>5, Zenon DEF Busy, Idle
    <3>2. in[1].msg.len \in {"negative", "zero", "even", "odd"}
      BY <2>4 DEF Piece, Messages, Lengths
    <3>3. in[1].msg.len \in {"zero", "even"}
      BY <2>5, <3>2 DEF BadHeader
    <3> QED
      BY <3>1, <3>3 DEF HasData
  <2>8. InFrame(SubSeq(in, 2 + 1, Len(in)), conn[sockets[s]].gone,
                ui' # Idle /\ ui'.pc = "data", ui'.hdr.msg)
    BY <2>3, <2>4, <2>6, <2>7
  <2> QED
    BY <1>1, <1>6, <2>1, <2>3, <2>6, <2>8, FrameReceive DEF in
<1> QED
  BY <1>2, <1>4, <1>5, <1>7, <1>8, <1>10, <1>11 DEF ReadNothing, ReadPartial, ReadBadHeader

LEMMA FrameRecvData == TypeInv /\ FrameInv /\ RecvData => FrameInv'
<1> SUFFICES ASSUME TypeInv, FrameInv, RecvData PROVE FrameInv'
  OBVIOUS
<1> DEFINE s == ui.sock
<1>1. ui # Idle /\ s \in Handles /\ ui.pc = "data"
  BY DEF RecvData, TypeInv, TypeOK, Idle
<1>2. CASE DataOfClosed
  <2>1. sockets[s] = NoConn /\ NoConn \notin Conns
    BY <1>1, <1>2, ListenerAssumption DEF DataOfClosed, IsOpen
  <2>2. \A d \in Conns : ~Reading(d)
    BY <2>1 DEF Reading
  <2> QED
    BY <1>2, <2>2, FrameIdle DEF DataOfClosed
<1>3. SUFFICES ASSUME IsOpen(s), DataComplete \/ DataMissing PROVE FrameInv'
  BY <1>2 DEF RecvData, DataComplete, DataMissing
<1>4. ui # Idle /\ s \in Handles /\ ui.pc = "data" /\ IsOpen(s)
  BY <1>1, <1>3
<1>5. PICK c \in Conns : c = sockets[s]
  BY <1>4 DEF IsOpen, TypeInv, TypeOK
<1>6. /\ conn \in [Conns -> Connection] /\ conn[c] \in Connection
      /\ conn[c].stream \in Seq(Piece) /\ conn[c].wire \in Seq(Piece)
      /\ conn[c].gone \in BOOLEAN /\ ConnFrame(c)
  BY DEF TypeInv, TypeOK, FrameInv, Connection
<1>7. CASE CloseConnection(s) /\ ui' = Idle
  BY <1>4, <1>7, FrameClose
<1>8. CASE DataComplete
  <2> DEFINE in == Unread(sockets[s])
  <2>1. Receive(sockets[s], 1) /\ UNCHANGED sockets /\ conn[c].stream # <<>>
    BY <1>5, <1>8 DEF DataComplete
  <2>2. 1 \in 0 .. Len(conn[sockets[s]].stream) /\ 1 + 1 = 2
    BY <1>5, <1>6, <2>1, EmptySeq
  <2>3. in \in Seq(Piece) /\ in # <<>>
    BY <1>5, <1>6, <2>1, ConcatProperties, ConcatEqualIffEmpty DEF Unread
  <2>4. InFrame(in, conn[c].gone, TRUE, ui.hdr.msg)
    BY <1>4, <1>5, <1>6 DEF ConnFrame, Reading, InFrame
  <2> HIDE DEF in
  <2>5. InFrame(SubSeq(in, 2, Len(in)), conn[c].gone, FALSE, ui.hdr.msg)
    BY <1>6, <2>3, <2>4, FrameData
  <2>6. /\ ui' # Idle => ui'.sock = s /\ ui'.hdr.part = "header1"
        /\ ui'.hdr = ui.hdr /\ ui'.pc = "cmd"
    BY <1>4, <1>8 DEF DataComplete, TypeInv, TypeOK, FrameInv
  <2>7. InFrame(SubSeq(in, 1 + 1, Len(in)), conn[sockets[s]].gone,
                ui' # Idle /\ ui'.pc = "data", ui'.hdr.msg)
    BY <1>5, <2>2, <2>5, <2>6 DEF InFrame
  <2> QED
    BY <1>4, <2>1, <2>2, <2>6, <2>7, FrameReceive DEF in
<1>9. CASE DataMissing /\ conn[c].gone /\ UNCHANGED <<conn, sockets>>
  <2>1. \A d \in Conns : Reading(d) => d = c
    BY <1>5 DEF Reading
  <2>2. conn[c].stream = <<>> /\ conn[c].wire = <<>> /\ ui' = Idle
    BY <1>5, <1>6, <1>9 DEF DataMissing, ConnFrame
  <2> QED
    BY <1>9, <2>1, <2>2, FrameIdle
<1> QED
  BY <1>5, <1>7, <1>8, <1>9, <1>3 DEF DataMissing

LEMMA FrameProcessCmd == TypeInv /\ FrameInv /\ ProcessCmd => FrameInv'
<1> SUFFICES ASSUME TypeInv, FrameInv, ProcessCmd PROVE FrameInv'
  OBVIOUS
<1>1. /\ ui # Idle /\ ui.sock \in Handles /\ ui.pc = "cmd" /\ ui' = Idle
      /\ UNCHANGED conn \/ CloseConnection(ui.sock)
  <2>1. ui.pc = "cmd" /\ ui' = Idle
    BY DEF ProcessCmd, OnMsgClientInfo, IgnoreClientInfo, RefuseCmd, HandleCmd
  <2>2. UNCHANGED conn \/ CloseConnection(ui.sock)
    <3>1. CASE OnMsgClientInfo
      BY <3>1, Zenon DEF OnMsgClientInfo, AddNewClient
    <3>2. CASE IgnoreClientInfo \/ RefuseCmd \/ HandleCmd
      BY <3>2 DEF IgnoreClientInfo, RefuseCmd, HandleCmd
    <3> QED
      BY <3>1, <3>2 DEF ProcessCmd
  <2>3. ui # Idle
    BY <2>1 DEF Idle
  <2>4. ui.sock \in Handles
    BY <2>3 DEF TypeInv, TypeOK
  <2> QED
    BY <2>1, <2>2, <2>3, <2>4
<1>2. \A c \in Conns : ~Reading(c)
  BY <1>1 DEF Reading
<1> QED
  BY <1>1, <1>2, FrameIdle, FrameClose

LEMMA FrameStartStop == TypeInv /\ FrameInv /\ (Start \/ Stop) => FrameInv'
<1> SUFFICES ASSUME TypeInv, FrameInv, Start \/ Stop PROVE FrameInv'
  OBVIOUS
<1>1. CASE Start
  <2>1. UNCHANGED <<conn, ui, sockets>>
    BY <1>1 DEF Start
  <2>2. \A c \in Conns : ConnFrame(c)'
    BY <2>1, FrameKept DEF Reading, Unread
  <2> QED
    BY <2>1, <2>2 DEF FrameInv
<1>2. CASE Stop
  <2>1. ui' = Idle /\ conn \in [Conns -> Connection]
    BY <1>2 DEF Stop, TypeInv, TypeOK
  <2>2. ASSUME NEW c \in Conns PROVE ConnFrame(c)'
    <3> DEFINE r == [conn[c] EXCEPT !.st = "closed", !.stream = <<>>, !.wire = <<>>]
    <3>1. conn'[c] = r
      BY <1>2 DEF Stop, CleanUp
    <3>2. conn[c] \in Connection
      BY <2>1
    <3>3. r.stream = <<>> /\ r.wire = <<>>
      BY <3>2 DEF Connection
    <3>4. ~Reading(c)'
      BY <2>1 DEF Reading
    <3> HIDE DEF r
    <3> QED
      BY <3>1, <3>3, <3>4, FrameDone
  <2> QED
    BY <2>1, <2>2 DEF FrameInv
<1> QED
  BY <1>1, <1>2

LEMMA FrameStep == TypeInv /\ FrameInv /\ [Next]_vars => FrameInv'
<1> SUFFICES ASSUME TypeInv, FrameInv, [Next]_vars PROVE FrameInv'
  OBVIOUS
<1>1. CASE Next
  BY <1>1, FrameStartStop, FrameOnAccept, FrameOnClose, FrameOnRead, FrameRecvData,
     FrameProcessCmd, FramePeer, FrameWinsock, Zenon DEF Next, Dispatch, Peer
<1>2. CASE UNCHANGED vars
  BY <1>2 DEF vars, FrameInv, ConnFrame, Unread, Reading
<1> QED
  BY <1>1, <1>2

LEMMA FrameInit == Init => FrameInv
<1> SUFFICES ASSUME Init PROVE FrameInv
  OBVIOUS
<1>1. ui = Idle
  BY DEF Init
<1>2. ASSUME NEW c \in Conns PROVE ConnFrame(c)
  <2>1. conn[c].wire = <<>> /\ conn[c].stream = <<>> /\ ~conn[c].gone
    BY DEF Init
  <2>2. Unread(c) = <<>>
    BY <2>1 DEF Unread
  <2>3. ~Reading(c)
    BY <1>1 DEF Reading
  <2> QED
    BY <2>1, <2>2, <2>3 DEF ConnFrame, InFrame, Framed
<1> QED
  BY <1>1, <1>2 DEF FrameInv

LEMMA FrameImplies == TypeInv /\ FrameInv => FramingKept
<1> SUFFICES ASSUME TypeInv, FrameInv PROVE FramingKept
  OBVIOUS
<1>1. ASSUME NEW s \in Handles, sockets[s] # NoConn, Unread(sockets[s]) # <<>>
      PROVE  IF ui # Idle /\ ui.pc = "data" /\ ui.sock = s
             THEN Head(Unread(sockets[s])) = [part |-> "data", msg |-> ui.hdr.msg]
             ELSE Head(Unread(sockets[s])).part = "header1"
  <2>1. PICK c \in Conns : c = sockets[s]
    BY <1>1 DEF TypeInv, TypeOK
  <2>2. ConnFrame(c) /\ Unread(c) \in Seq(Piece)
    BY ConcatProperties DEF FrameInv, Unread, TypeInv, TypeOK, Connection
  <2>3. Head(Unread(c)) = Unread(c)[1]
    BY <1>1, <2>1, <2>2
  <2>4. Reading(c) <=> ui # Idle /\ ui.pc = "data" /\ ui.sock = s
    BY <1>1, <2>1 DEF Reading, TypeInv, SocketsSound, TypeOK, Idle
  <2> QED
    BY <1>1, <2>1, <2>2, <2>3, <2>4 DEF ConnFrame, InFrame, Data
<1> QED
  BY <1>1 DEF FrameInv, FramingKept, Unread

(* At every moment, however messages are cut and peers fail, the next piece  *)
(* of an open connection is the data of the header just read, when the       *)
(* handler has announced it, and otherwise the beginning of a header.        *)
THEOREM FramingCorrect == Spec => []FramingKept
BY TypeInit, TypeStep, FrameInit, FrameStep, FrameImplies, PTL DEF Spec

-----------------------------------------------------------------------------
(***************************************************************************)
(* CSMListener implements ClientRegistry.  Every step of the listener has  *)
(* one of five effects on the connection list and the SOCKET table, or     *)
(* none; each effect is a step of the registry, under TypeInv and ListInv. *)
(***************************************************************************)
Inv == TypeInv /\ ListInv

-----------------------------------------------------------------------------
(* The effects *)

(* on neither the list, the table, the window, nor the life of a connection *)
Quiet ==
  /\ UNCHANGED <<m_arrClientInfo, sockets, m_lstWebHistory>>
  /\ \A c \in Conns : \/ conn'[c].st = conn[c].st
                      \/ conn[c].st = "none" /\ conn'[c].st = "backlog"

Accepts(c, s) ==
  /\ UNCHANGED <<m_arrClientInfo, m_lstWebHistory>>
  /\ conn[c].st = "backlog"
  /\ conn'[c].st = "open"
  /\ \A d \in Conns : d # c => conn'[d].st = conn[d].st
  /\ sockets[s] = NoConn
  /\ sockets' = [sockets EXCEPT ![s] = c]

Closes(s) ==
  /\ UNCHANGED <<m_arrClientInfo, m_lstWebHistory>>
  /\ IsOpen(s)
  /\ conn'[sockets[s]].st = "closed"
  /\ \A d \in Conns : d # sockets[s] => conn'[d].st = conn[d].st
  /\ sockets' = [sockets EXCEPT ![s] = NoConn]

Enters(s, h) ==
  /\ UNCHANGED <<conn, m_lstWebHistory>>
  /\ IsOpen(s)
  /\ Registers(s, h)

Shows(s) ==
  /\ UNCHANGED <<m_arrClientInfo, sockets, conn>>
  /\ IsOpen(s)
  /\ Registered(s)
  /\ AddRow(sockets[s])

Stops ==
  /\ UNCHANGED <<m_arrClientInfo, m_lstWebHistory>>
  /\ \A c \in Conns : conn'[c].st = "closed"
  /\ sockets' = [s \in Handles |-> NoConn]

Effect ==
  \/ Quiet
  \/ \E c \in Conns, s \in Handles : Accepts(c, s)
  \/ \E s \in Handles : Closes(s) \/ Shows(s)
  \/ \E s \in Handles, h \in Hosts : Enters(s, h)
  \/ Stops

-----------------------------------------------------------------------------
(* Every step has an effect *)

(* CloseConnection closes what it can, or does nothing. *)
LEMMA CloseEffect ==
  ASSUME TypeInv, NEW s, CloseConnection(s),
         UNCHANGED <<m_arrClientInfo, m_lstWebHistory>>
  PROVE  Effect
<1>0. conn \in [Conns -> Connection] /\ sockets \in [Handles -> Conns \cup {NoConn}]
  BY DEF TypeInv, TypeOK
<1>1. CASE IsOpen(s)
  <2> DEFINE c == sockets[s]
             r == [conn[c] EXCEPT !.st = "closed", !.stream = <<>>, !.wire = <<>>]
  <2>1. s \in Handles /\ c \in Conns /\ conn[c] \in Connection
    BY <1>0, <1>1 DEF IsOpen
  <2>2. conn' = [conn EXCEPT ![c] = r] /\ sockets' = [sockets EXCEPT ![s] = NoConn]
    BY <1>1 DEF CloseConnection
  <2>3. r.st = "closed"
    BY <2>1 DEF Connection
  <2> HIDE DEF r
  <2>4. conn'[c] = r /\ \A d \in Conns : d # c => conn'[d] = conn[d]
    BY <1>0, <2>1, <2>2
  <2>5. Closes(s)
    BY <1>1, <2>2, <2>3, <2>4 DEF Closes
  <2> QED
    BY <2>1, <2>5 DEF Effect
<1>2. CASE ~IsOpen(s)
  BY <1>2 DEF CloseConnection, Effect, Quiet
<1> QED
  BY <1>1, <1>2

(* What peers and Winsock do to a connection does not open or close it. *)
LEMMA NetworkEffect ==
  ASSUME TypeInv, Peer \/ Winsock
  PROVE  Quiet
<1>0. conn \in [Conns -> Connection] /\ sockets \in [Handles -> Conns \cup {NoConn}]
  BY DEF TypeInv, TypeOK
<1>1. UNCHANGED <<m_arrClientInfo, sockets, m_lstWebHistory>>
  BY DEF Peer, PeerConnect, PeerSend, PeerGone, Arrive, Winsock, PostAccept, PostRead,
         PostClose
<1>2. ASSUME NEW c \in Conns, PeerConnect(c) \/ PeerSend(c) \/ PeerGone(c) \/ Arrive(c)
      PROVE  Quiet
  <2>1. conn[c] \in Connection
    BY <1>0
  <2>2. \A d \in Conns : d # c => conn'[d] = conn[d]
    BY <1>0, <1>2 DEF PeerConnect, PeerSend, PeerGone, Arrive
  <2>3. \/ conn'[c].st = conn[c].st
        \/ conn[c].st = "none" /\ conn'[c].st = "backlog"
    <3>1. CASE PeerConnect(c) \/ PeerGone(c) \/ Arrive(c)
      BY <1>0, <2>1, <3>1 DEF PeerConnect, PeerGone, Arrive, Connection
    <3>2. CASE PeerSend(c)
      <4>1. PICK m \in Requests : conn' = [conn EXCEPT ![c].wire = Pieces(m)]
        BY <3>2 DEF PeerSend
      <4> QED
        BY <1>0, <2>1, <4>1 DEF Connection
    <3> QED
      BY <1>2, <3>1, <3>2
  <2> QED
    BY <1>1, <2>2, <2>3 DEF Quiet
<1>3. CASE PostAccept
  BY <1>1, <1>3 DEF PostAccept, Quiet
<1>4. ASSUME NEW s \in Handles, PostRead(s) \/ PostClose(s)
      PROVE  Quiet
  <2>1. sockets[s] \in Conns /\ conn[sockets[s]] \in Connection
    BY <1>0, <1>4 DEF PostRead, PostClose, IsOpen
  <2>2. \A d \in Conns : conn'[d].st = conn[d].st
    <3>1. \/ conn' = [conn EXCEPT ![sockets[s]].armed = FALSE]
          \/ conn' = [conn EXCEPT ![sockets[s]].fin = TRUE]
      BY <1>4 DEF PostRead, PostClose
    <3>2. CASE conn' = [conn EXCEPT ![sockets[s]].armed = FALSE]
      BY <1>0, <2>1, <3>2 DEF Connection
    <3>3. CASE conn' = [conn EXCEPT ![sockets[s]].fin = TRUE]
      BY <1>0, <2>1, <3>3 DEF Connection
    <3> QED
      BY <3>1, <3>2, <3>3
  <2> QED
    BY <1>1, <2>2 DEF Quiet
<1> QED
  BY <1>2, <1>3, <1>4 DEF Peer, Winsock

LEMMA ReadEffect ==
  ASSUME TypeInv, OnRead \/ RecvData
  PROVE  Effect
<1>0. conn \in [Conns -> Connection] /\ sockets \in [Handles -> Conns \cup {NoConn}]
  BY DEF TypeInv, TypeOK
<1> DEFINE s == IF OnRead THEN Head(queue).sock ELSE ui.sock
<1>1. /\ UNCHANGED <<m_arrClientInfo, m_lstWebHistory>>
      /\ \/ CloseConnection(s)
         \/ UNCHANGED <<conn, sockets>>
         \/ /\ IsOpen(s)
            /\ \/ conn' = [conn EXCEPT ![sockets[s]].armed = TRUE]
               \/ \E n \in Nat : Receive(sockets[s], n)
            /\ UNCHANGED sockets
  <2>1. CASE OnRead
    BY <2>1 DEF OnRead, ReadStale, ReadNothing, ReadPartial, ReadBadHeader, OddLength,
                ReadHeader
  <2>2. CASE RecvData /\ ~OnRead
    BY <2>2 DEF RecvData, DataOfClosed, DataComplete, DataMissing
  <2> QED
    BY <2>1, <2>2
<1> HIDE DEF s
<1>2. CASE CloseConnection(s)
  BY <1>1, <1>2, CloseEffect
<1>3. CASE UNCHANGED <<conn, sockets>>
  BY <1>1, <1>3 DEF Effect, Quiet
<1>4. CASE /\ IsOpen(s) /\ UNCHANGED sockets
           /\ \/ conn' = [conn EXCEPT ![sockets[s]].armed = TRUE]
              \/ \E n \in Nat : Receive(sockets[s], n)
  <2>1. sockets[s] \in Conns /\ 0 \in Nat
    BY <1>0, <1>4 DEF IsOpen
  <2>2. \A d \in Conns : conn'[d].st = conn[d].st
    BY <1>0, <1>4, <2>1, ReceiveSound
  <2> QED
    BY <1>1, <1>4, <2>2 DEF Effect, Quiet
<1> QED
  BY <1>1, <1>2, <1>3, <1>4

LEMMA CmdEffect ==
  ASSUME TypeInv, ProcessCmd
  PROVE  Effect
<1> DEFINE s == ui.sock
           h == conn[sockets[s]].host
<1>1. s \in Handles /\ IsOpen(s) /\ h \in Hosts
  <2>1. s \in Handles /\ IsOpen(s)
    BY CommandIsOpen
       DEF ProcessCmd, OnMsgClientInfo, IgnoreClientInfo, RefuseCmd, HandleCmd
  <2> QED
    BY <2>1 DEF IsOpen, TypeInv, TypeOK, Connection
<1>2. CASE OnMsgClientInfo
  <2>1. ~Registered(s) /\ UNCHANGED m_lstWebHistory
    BY <1>2 DEF OnMsgClientInfo
  <2>2. CASE CloseConnection(s) /\ UNCHANGED m_arrClientInfo
    BY <2>1, <2>2, CloseEffect
  <2>3. CASE AddNewClient(s, h)
    <3> HIDE DEF s, h
    <3>1. \/ CloseConnection(s) /\ UNCHANGED m_arrClientInfo
          \/ Registers(s, h) /\ UNCHANGED conn
      BY <2>1, <2>3 DEF AddNewClient, Registers
    <3>2. CASE Registers(s, h) /\ UNCHANGED conn
      BY <1>1, <2>1, <3>2 DEF Effect, Enters
    <3> QED
      BY <2>1, <3>1, <3>2, CloseEffect
  <2> QED
    BY <1>2, <2>2, <2>3 DEF OnMsgClientInfo
<1>3. CASE RefuseCmd
  BY <1>3, CloseEffect DEF RefuseCmd
<1>4. CASE IgnoreClientInfo
  BY <1>4 DEF IgnoreClientInfo, Effect, Quiet
<1>5. CASE HandleCmd
  <2>1. CASE UNCHANGED m_lstWebHistory
    BY <1>5, <2>1 DEF HandleCmd, Effect, Quiet
  <2>2. CASE AddRow(sockets[s])
    <3>1. Shows(s)
      BY <1>1, <1>5, <2>2 DEF HandleCmd, Shows
    <3> QED
      BY <1>1, <3>1 DEF Effect
  <2> QED
    BY <1>5, <2>1, <2>2 DEF HandleCmd
<1> QED
  BY <1>2, <1>3, <1>4, <1>5 DEF ProcessCmd

LEMMA StepEffect ==
  ASSUME TypeInv, [Next]_vars
  PROVE  Effect
<1>0. conn \in [Conns -> Connection] /\ sockets \in [Handles -> Conns \cup {NoConn}]
  BY DEF TypeInv, TypeOK
<1>1. CASE Start \/ UNCHANGED vars
  BY <1>1 DEF Start, vars, Effect, Quiet
<1>2. CASE Stop
  <2>1. \A c \in Conns : conn[c] \in Connection
    BY <1>0
  <2>2. \A c \in Conns : conn'[c].st = "closed"
    BY <1>2, <2>1 DEF Stop, CleanUp, Connection
  <2> QED
    BY <1>2, <2>2 DEF Stop, CleanUp, Stops, Effect
<1>3. CASE OnAccept
  <2>1. CASE UNCHANGED <<conn, sockets>>
    BY <1>3, <2>1 DEF OnAccept, Effect, Quiet
  <2>2. ASSUME NEW c \in Conns, NEW s \in Handles, conn[c].st = "backlog",
               sockets[s] = NoConn, conn' = [conn EXCEPT ![c].st = "open"],
               sockets' = [sockets EXCEPT ![s] = c]
        PROVE  Effect
    <3>1. conn[c] \in Connection
      BY <1>0
    <3>2. conn'[c].st = "open" /\ \A d \in Conns : d # c => conn'[d].st = conn[d].st
      BY <1>0, <2>2, <3>1 DEF Connection
    <3>3. Accepts(c, s)
      BY <1>3, <2>2, <3>2 DEF OnAccept, Accepts
    <3> QED
      BY <3>3 DEF Effect
  <2> QED
    BY <1>3, <2>1, <2>2 DEF OnAccept
<1>4. CASE OnClose
  BY <1>4, CloseEffect DEF OnClose
<1>5. CASE OnRead \/ RecvData
  BY <1>5, ReadEffect
<1>6. CASE ProcessCmd
  BY <1>6, CmdEffect
<1>7. CASE Peer \/ Winsock
  BY <1>7, NetworkEffect DEF Effect
<1> QED
  BY <1>1, <1>2, <1>3, <1>4, <1>5, <1>6, <1>7 DEF Next, Dispatch

-----------------------------------------------------------------------------
(* Every effect is a step of the registry *)

(* What the mapping says of a connection and of the table *)
LEMMA LifeOf ==
  ASSUME NEW c \in Conns
  PROVE  /\ conn[c].st = "open" <=> Life[c] = "open"
         /\ conn[c].st = "closed" <=> Life[c] = "ended"
         /\ conn[c].st \notin {"open", "closed"} <=> Life[c] = "new"
BY DEF Life

LEMMA Facts ==
  ASSUME Inv
  PROVE  /\ sockets \in [Handles -> Conns \cup {NoConn}]
         /\ NoConn \notin Conns
         /\ m_arrClientInfo \in Seq(ClientInfo)
         /\ \A i \in DOMAIN m_arrClientInfo : /\ m_arrClientInfo[i].ConnSock \in Handles
                                              /\ m_arrClientInfo[i].HostName \in Hosts
         /\ \A s \in Handles : IsOpen(s) =>
              /\ sockets[s] \in Conns
              /\ conn[sockets[s]].st = "open"
              /\ \A t \in Handles : sockets[t] = sockets[s] => t = s
         /\ HostNameIsKey
         /\ ConnSockIsKey
<1>1. m_arrClientInfo \in Seq(ClientInfo)
  BY DEF Inv, TypeInv, TypeOK
<1>2. \A i \in DOMAIN m_arrClientInfo : m_arrClientInfo[i] \in ClientInfo
  BY <1>1
<1>3. sockets \in [Handles -> Conns \cup {NoConn}] /\ NoConn \notin Conns
  BY ListenerAssumption DEF Inv, TypeInv, TypeOK
<1>4. HostNameIsKey /\ ConnSockIsKey /\ SocketsSound
  BY DEF Inv, TypeInv, ListInv
<1> QED
  BY <1>1, <1>2, <1>3, <1>4 DEF SocketsSound, IsOpen, ClientInfo

LEMMA QuietStep == Inv /\ Quiet => UNCHANGED <<Listed, Serves, Life, m_lstWebHistory>>
<1> SUFFICES ASSUME Inv, Quiet PROVE UNCHANGED <<Listed, Serves, Life, m_lstWebHistory>>
  OBVIOUS
<1>1. Life' = Life
  BY DEF Quiet, Life
<1>2. Listed' = Listed /\ Serves' = Serves
  BY DEF Quiet, Listed, Serves, Reached
<1> QED
  BY <1>1, <1>2 DEF Quiet

LEMMA AcceptStep ==
  ASSUME Inv, NEW c \in Conns, NEW s \in Handles, Accepts(c, s)
  PROVE  Registry!Accept(c)
<1>0. /\ sockets \in [Handles -> Conns \cup {NoConn}]
      /\ m_arrClientInfo \in Seq(ClientInfo)
      /\ NoConn \notin Conns
      /\ \A i \in DOMAIN m_arrClientInfo : /\ m_arrClientInfo[i].ConnSock \in Handles
                                           /\ m_arrClientInfo[i].HostName \in Hosts
      /\ HostNameIsKey /\ ConnSockIsKey
  BY Facts
<1>1. Life[c] = "new" /\ Life' = [Life EXCEPT ![c] = "open"]
  BY DEF Accepts, Life
<1>2. Listed' = Listed
  BY DEF Accepts, Listed
<1>3. CASE \A i \in DOMAIN m_arrClientInfo : m_arrClientInfo[i].ConnSock # s
  <2>1. Serves' = Serves
    BY <1>0, <1>3 DEF Accepts, Serves, Reached
  <2> QED
    BY <1>1, <1>2, <2>1 DEF Registry!Accept, Accepts
<1>4. ASSUME NEW i \in DOMAIN m_arrClientInfo, m_arrClientInfo[i].ConnSock = s
      PROVE  Registry!Accept(c)
  <2>0. PICK h \in Hosts : m_arrClientInfo[i].HostName = h
    BY <1>0
  <2>1. h \in Listed
    BY <2>0 DEF Listed
  <2>2. \A j \in DOMAIN m_arrClientInfo : m_arrClientInfo[j].HostName = h <=> j = i
    BY <1>0, <2>0 DEF HostNameIsKey
  <2>3. \A j \in DOMAIN m_arrClientInfo : m_arrClientInfo[j].ConnSock = s <=> j = i
    BY <1>0, <1>4 DEF ConnSockIsKey
  <2>4. Serves[h] = {}
    BY <1>0, <1>4, <2>1, <2>2 DEF Accepts, Serves, Reached, Listed
  <2>5. Serves' = [Serves EXCEPT ![h] = {c}]
    <3>1. Reached(h)' = {c}
      BY <1>0, <1>4, <2>2 DEF Accepts, Reached
    <3>2. \A g \in Hosts : g # h => Reached(g)' = Reached(g)
      BY <1>0, <2>2, <2>3 DEF Accepts, Reached
    <3> QED
      BY <3>1, <3>2 DEF Serves
  <2> QED
    BY <1>1, <1>2, <2>1, <2>4, <2>5 DEF Registry!Accept, Accepts
<1> QED
  BY <1>3, <1>4

LEMMA EndStep ==
  ASSUME Inv, NEW s \in Handles, Closes(s)
  PROVE  Registry!End(sockets[s])
<1> DEFINE c == sockets[s]
<1>0. /\ sockets \in [Handles -> Conns \cup {NoConn}]
      /\ NoConn \notin Conns
      /\ c \in Conns /\ conn[c].st = "open"
      /\ \A t \in Handles : sockets[t] = c => t = s
      /\ \A i \in DOMAIN m_arrClientInfo : m_arrClientInfo[i].ConnSock \in Handles
  BY Facts DEF Closes
<1>1. Life[c] = "open" /\ Life' = [Life EXCEPT ![c] = "ended"]
  BY <1>0 DEF Closes, Life
<1>2. Listed' = Listed
  BY DEF Closes, Listed
<1>3. Serves' = [h \in Hosts |-> Serves[h] \ {c}]
  <2>1. \A h \in Hosts : Reached(h)' = Reached(h) \ {c}
    BY <1>0 DEF Closes, Reached
  <2> QED
    BY <2>1 DEF Serves
<1> QED
  BY <1>1, <1>2, <1>3 DEF Registry!End, Closes

LEMMA RegisterStep ==
  ASSUME Inv, NEW s \in Handles, NEW h \in Hosts, Enters(s, h)
  PROVE  Registry!Register(h, sockets[s])
<1> DEFINE c == sockets[s]
<1>0. /\ sockets \in [Handles -> Conns \cup {NoConn}]
      /\ m_arrClientInfo \in Seq(ClientInfo)
      /\ NoConn \notin Conns
      /\ c \in Conns /\ conn[c].st = "open"
      /\ \A t \in Handles : sockets[t] = c => t = s
      /\ \A i \in DOMAIN m_arrClientInfo : /\ m_arrClientInfo[i].ConnSock \in Handles
                                           /\ m_arrClientInfo[i].ConnSock # s
      /\ UNCHANGED <<conn, sockets, m_lstWebHistory>>
      /\ HostNameIsKey
  BY Facts DEF Enters, Registers, Registered
<1>1. Life[c] = "open" /\ Life' = Life
  BY <1>0 DEF Life
<1>2. Registry!Free(c)
  BY <1>0 DEF Registry!Free, Serves, Reached
<1> HIDE DEF c
<1>3. Listed' = Listed \cup {h} /\ Serves' = [Serves EXCEPT ![h] = {c}]
  <2> SUFFICES /\ Listed' = Listed \cup {h}
               /\ Reached(h)' = {c}
               /\ \A g \in Hosts : g # h => Reached(g)' = Reached(g)
    BY DEF Serves
  <2>1. CASE /\ \A i \in DOMAIN m_arrClientInfo : m_arrClientInfo[i].HostName # h
             /\ m_arrClientInfo' = Append(m_arrClientInfo, NewClientInfo(s, h))
    <3> DEFINE n == Len(m_arrClientInfo)
    <3>1. /\ n \in Nat /\ DOMAIN m_arrClientInfo = 1 .. n
          /\ DOMAIN m_arrClientInfo' = 1 .. (n + 1)
          /\ \A i \in 1 .. n : m_arrClientInfo'[i] = m_arrClientInfo[i]
          /\ m_arrClientInfo'[n + 1] = NewClientInfo(s, h)
      BY <1>0, <2>1
    <3>2. NewClientInfo(s, h).HostName = h /\ NewClientInfo(s, h).ConnSock = s
      BY DEF NewClientInfo
    <3> HIDE DEF n
    <3>3. 1 .. (n + 1) = 1 .. n \cup {n + 1}
      BY <3>1
    <3>4. Listed' = Listed \cup {h}
      BY <3>1, <3>2, <3>3 DEF Listed
    <3>5. Reached(h)' = {c}
      BY <1>0, <2>1, <3>1, <3>2, <3>3 DEF Reached, c
    <3>6. \A g \in Hosts : g # h => Reached(g)' = Reached(g)
      BY <1>0, <3>1, <3>2, <3>3 DEF Reached
    <3> QED
      BY <3>4, <3>5, <3>6
  <2>2. ASSUME NEW i \in DOMAIN m_arrClientInfo, m_arrClientInfo[i].HostName = h,
               m_arrClientInfo' = [m_arrClientInfo EXCEPT ![i].ConnSock = s]
        PROVE  /\ Listed' = Listed \cup {h}
               /\ Reached(h)' = {c}
               /\ \A g \in Hosts : g # h => Reached(g)' = Reached(g)
    <3>1. /\ DOMAIN m_arrClientInfo' = DOMAIN m_arrClientInfo
          /\ \A j \in DOMAIN m_arrClientInfo :
               /\ m_arrClientInfo'[j].HostName = m_arrClientInfo[j].HostName
               /\ j # i => m_arrClientInfo'[j].ConnSock = m_arrClientInfo[j].ConnSock
          /\ m_arrClientInfo'[i].ConnSock = s
      BY <1>0, <2>2, EntryMoves
    <3>2. \A j \in DOMAIN m_arrClientInfo : m_arrClientInfo[j].HostName = h <=> j = i
      BY <1>0, <2>2 DEF HostNameIsKey
    <3>3. Listed' = Listed \cup {h}
      BY <2>2, <3>1 DEF Listed
    <3>4. Reached(h)' = {c}
      BY <1>0, <3>1, <3>2 DEF Reached, c
    <3>5. \A g \in Hosts : g # h => Reached(g)' = Reached(g)
      BY <1>0, <3>1, <3>2 DEF Reached
    <3> QED
      BY <3>3, <3>4, <3>5
  <2> QED
    BY <2>1, <2>2 DEF Enters, Registers
<1> QED
  BY <1>0, <1>1, <1>2, <1>3 DEF Registry!Register, c

LEMMA ShowStep ==
  ASSUME Inv, NEW s \in Handles, Shows(s)
  PROVE  Registry!Show(sockets[s])
<1> DEFINE c == sockets[s]
<1>0. /\ c \in Conns /\ conn[c].st = "open"
      /\ \A i \in DOMAIN m_arrClientInfo : m_arrClientInfo[i].HostName \in Hosts
  BY Facts DEF Shows
<1>1. Life[c] = "open" /\ Life' = Life
  BY <1>0 DEF Shows, Life
<1>2. ~Registry!Free(c)
  BY <1>0 DEF Shows, Registered, Registry!Free, Serves, Reached
<1>3. Listed' = Listed /\ Serves' = Serves
  BY DEF Shows, Listed, Serves, Reached
<1> QED
  BY <1>1, <1>2, <1>3 DEF Registry!Show, Shows, AddRow

LEMMA StopStep ==
  ASSUME Inv, Stops
  PROVE  Registry!Shutdown
<1>0. /\ NoConn \notin Conns
      /\ \A i \in DOMAIN m_arrClientInfo : m_arrClientInfo[i].ConnSock \in Handles
  BY Facts
<1>1. Life' = [c \in Conns |-> "ended"]
  BY DEF Stops, Life
<1>2. Listed' = Listed /\ Serves' = [h \in Hosts |-> {}]
  BY <1>0 DEF Stops, Listed, Serves, Reached
<1> QED
  BY <1>1, <1>2 DEF Registry!Shutdown, Stops

LEMMA RegistryStep ==
  ASSUME Inv, [Next]_vars
  PROVE  [Registry!Next]_(Registry!registryVars)
<1>1. Effect
  BY StepEffect DEF Inv
<1>2. CASE Quiet
  BY <1>2, QuietStep DEF Registry!registryVars
<1>3. ASSUME NEW c \in Conns, NEW s \in Handles, Accepts(c, s)
      PROVE  Registry!Next
  BY <1>3, AcceptStep DEF Registry!Next
<1>4. ASSUME NEW s \in Handles, Closes(s) \/ Shows(s)
      PROVE  Registry!Next
  <2>1. sockets[s] \in Conns
    BY <1>4 DEF Closes, Shows, IsOpen, Inv, TypeInv, TypeOK
  <2> QED
    BY <1>4, <2>1, EndStep, ShowStep DEF Registry!Next
<1>5. ASSUME NEW s \in Handles, NEW h \in Hosts, Enters(s, h)
      PROVE  Registry!Next
  <2>1. sockets[s] \in Conns
    BY <1>5 DEF Enters, IsOpen, Inv, TypeInv, TypeOK
  <2> QED
    BY <1>5, <2>1, RegisterStep DEF Registry!Next
<1>6. CASE Stops
  BY <1>6, StopStep DEF Registry!Next
<1> QED
  BY <1>1, <1>2, <1>3, <1>4, <1>5, <1>6 DEF Effect

LEMMA RegistryInit == Init => Registry!Init
BY DEF Init, Registry!Init, Listed, Serves, Reached, Life

(* The listener's connection list is a registry, for every value of the      *)
(* constants: every behaviour of CSMListener is one of ClientRegistry under  *)
(* the refinement mapping.                                                   *)
THEOREM ListenerImplementsRegistry == Spec => ImplementsRegistry
<1>1. Init => Inv
  BY TypeInit, ListInit DEF Inv
<1>2. Inv /\ [Next]_vars => Inv'
  BY TypeStep, ListStep DEF Inv
<1> QED
  BY <1>1, <1>2, RegistryInit, RegistryStep, PTL DEF Spec, ImplementsRegistry, Registry!Spec

=============================================================================
