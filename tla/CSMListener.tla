---------------------------- MODULE CSMListener ----------------------------
(***************************************************************************)
(* CListener, the connection side of the CSM server simulator              *)
(* (src/HaiNT3/CSMServerSimulator/Listener.cpp, Listener.h and the dialog  *)
(* that owns the window the socket events are posted to).                  *)
(*                                                                         *)
(* One thread, the UI thread, runs every handler.  Winsock posts           *)
(* WM_SOCKET messages (WSAAsyncSelect) to that thread's queue, each naming *)
(* a SOCKET value; the handler acts on whatever connection that value      *)
(* denotes when the message is DISPATCHED.  A SOCKET value is free for     *)
(* reuse as soon as closesocket returns, while messages that carry it may  *)
(* still be queued and m_arrClientInfo entries may still store it.         *)
(***************************************************************************)
EXTENDS Naturals, Sequences, FiniteSets

CONSTANTS
  Hosts,      \* machines; a machine's name stands for HostName and for its IP
  Conns,      \* TCP connections that may ever be opened to the server
  Handles,    \* SOCKET values Winsock can hand out for accepted connections
  Requests,   \* the messages a peer may send, a subset of Messages
  MaxSend,    \* bound: messages a peer sends on one connection
  NoConn,     \* a SOCKET value that denotes no connection
  ListenSock  \* the SOCKET value m_ListenSock

(* Commands of Listener.h, and the classes of header that ProcessRead tells *)
(* apart: DataLen negative, zero, even or odd.                              *)
Commands == {"VCM_CLIENTINFO", "VCM_PING", "VCM_WEB_HISTORY", "out_of_range"}
Lengths  == {"negative", "zero", "even", "odd"}
Messages == [cmd : Commands, len : Lengths]

ASSUME ListenerAssumption ==
  /\ Requests \subseteq Messages
  /\ MaxSend \in Nat
  /\ NoConn \notin Conns
  /\ ListenSock \notin Handles

VARIABLES
  m_arrClientInfo,  \* the connection list: sequence of CLIENT_INFO
  listening,        \* what Start made of m_ListenSock
  queue,            \* WM_SOCKET messages posted to the window, oldest first
  ui,               \* where the UI thread is inside ProcessSocketMsg
  m_lstWebHistory,  \* connections whose history rows the window shows, in order
  sockets,          \* Winsock: the connection each SOCKET value denotes
  conn,             \* Winsock: the state of each connection
  acceptArmed,      \* Winsock: FD_ACCEPT may be posted again
  sent,             \* messages each peer has sent (bounded by MaxSend)
  lastReg           \* history: the connection that last registered each host

vars == <<m_arrClientInfo, listening, queue, ui, m_lstWebHistory,
          sockets, conn, acceptArmed, sent, lastReg>>

-----------------------------------------------------------------------------
(* Bytes.  A message travels as two header pieces and, when DataLen is     *)
(* positive, one data piece: enough to cut it inside the header and        *)
(* between header and data.                                                *)

HasData(m) == m.len \in {"even", "odd"}

Piece == [part : {"header1", "header2", "data"}, msg : Messages]

Pieces(m) ==
  LET p(s) == [part |-> s, msg |-> m]
  IN  IF HasData(m) THEN <<p("header1"), p("header2"), p("data")>>
                    ELSE <<p("header1"), p("header2")>>

ClientInfo == [ConnSock : Handles, HostName : Hosts,
               Status : {"INIT_INFO", "AVAILABLE", "ONLINE"}]

Connection == [st     : {"none", "backlog", "open", "closed"},
               host   : Hosts,
               wire   : Seq(Piece),   \* sent by the peer, not yet arrived
               stream : Seq(Piece),   \* arrived, not yet received
               gone   : BOOLEAN,      \* the peer closed or died
               armed  : BOOLEAN,      \* FD_READ may be posted again
               fin    : BOOLEAN]      \* FD_CLOSE has been posted

Event == [ev : {"FD_ACCEPT", "FD_READ", "FD_CLOSE"},
          sock : Handles \cup {ListenSock}]

Idle == [pc |-> "idle"]

(* The handler works on the SOCKET value s for the header m; "from" records  *)
(* the connection the header was read from.                                  *)
Busy(pc, s, m) == [pc |-> pc, sock |-> s, from |-> sockets[s], hdr |-> m]

HandleOf(c) == {s \in Handles : sockets[s] = c}
IsOpen(s)   == s \in Handles /\ sockets[s] # NoConn

(* Plausible bug: the entry is made with m_ListenSock *)
NewClientInfo_WrongSock(s, h) ==
  [ConnSock |-> ListenSock, HostName |-> h, Status |-> "INIT_INFO"]

(* tagClientInfo's constructor, Listener.h *)
NewClientInfo(s, h) == [ConnSock |-> s, HostName |-> h, Status |-> "INIT_INFO"]

Active(info) == info.Status \in {"AVAILABLE", "ONLINE"}

(* GetClientInfo(sock) # NULL; its callers use the result for nothing else *)
Registered(s) ==
  \E i \in DOMAIN m_arrClientInfo : m_arrClientInfo[i].ConnSock = s

-----------------------------------------------------------------------------
Init ==
  /\ m_arrClientInfo = <<>>
  /\ listening = "not_started"
  /\ queue = <<>>
  /\ ui = Idle
  /\ m_lstWebHistory = <<>>
  /\ sockets = [s \in Handles |-> NoConn]
  /\ conn \in [Conns -> {[st |-> "none", host |-> h, wire |-> <<>>,
                          stream |-> <<>>, gone |-> FALSE, armed |-> TRUE,
                          fin |-> FALSE] : h \in Hosts}]
  /\ acceptArmed = TRUE
  /\ sent = [c \in Conns |-> 0]
  /\ lastReg = [h \in Hosts |-> NoConn]

(* Initialize: any of its steps may fail, and then undoes those before it *)
Initialize == listening' \in {"yes", "failed"}

(* OnInitDialog -> Start -> Initialize.  OnInitDialog ignores the result: the *)
(* program then runs without listening.                                       *)
Start ==
  /\ listening = "not_started"
  /\ Initialize
  /\ UNCHANGED <<m_arrClientInfo, queue, ui, m_lstWebHistory, sockets, conn,
                 acceptArmed, sent, lastReg>>

(* CloseConnection: shutdown, closesocket.  On a SOCKET value that denotes  *)
(* nothing both calls fail and the failure is ignored.                      *)
CloseConnection(s) ==
  IF IsOpen(s)
  THEN /\ conn' = [conn EXCEPT ![sockets[s]] =
                      [@ EXCEPT !.st = "closed", !.stream = <<>>, !.wire = <<>>]]
       /\ sockets' = [sockets EXCEPT ![s] = NoConn]
  ELSE UNCHANGED <<conn, sockets>>

-----------------------------------------------------------------------------
(* Peers and Winsock *)

PeerConnect(c) ==
  /\ listening = "yes"
  /\ conn[c].st = "none"
  /\ conn' = [conn EXCEPT ![c].st = "backlog"]
  /\ UNCHANGED <<m_arrClientInfo, listening, queue, ui, m_lstWebHistory,
                 sockets, acceptArmed, sent, lastReg>>

PeerSend(c) ==
  /\ conn[c].st \in {"backlog", "open"}
  /\ ~conn[c].gone
  /\ conn[c].wire = <<>>
  /\ sent[c] < MaxSend
  /\ sent' = [sent EXCEPT ![c] = @ + 1]
  /\ \E m \in Requests : conn' = [conn EXCEPT ![c].wire = Pieces(m)]
  /\ UNCHANGED <<m_arrClientInfo, listening, queue, ui, m_lstWebHistory,
                 sockets, acceptArmed, lastReg>>

(* The peer closes its end or dies; what has not arrived by then is lost *)
PeerGone(c) ==
  /\ conn[c].st \in {"backlog", "open"}
  /\ ~conn[c].gone
  /\ conn' = [conn EXCEPT ![c] = [@ EXCEPT !.gone = TRUE, !.wire = <<>>]]
  /\ UNCHANGED <<m_arrClientInfo, listening, queue, ui, m_lstWebHistory,
                 sockets, acceptArmed, sent, lastReg>>

Arrive(c) ==
  /\ conn[c].st \in {"backlog", "open"}
  /\ conn[c].wire # <<>>
  /\ conn' = [conn EXCEPT ![c] =
                [conn[c] EXCEPT !.stream = Append(conn[c].stream, Head(conn[c].wire)),
                                !.wire = Tail(conn[c].wire)]]
  /\ UNCHANGED <<m_arrClientInfo, listening, queue, ui, m_lstWebHistory,
                 sockets, acceptArmed, sent, lastReg>>

PostAccept ==
  /\ listening = "yes"
  /\ acceptArmed
  /\ \E c \in Conns : conn[c].st = "backlog"
  /\ acceptArmed' = FALSE
  /\ queue' = Append(queue, [ev |-> "FD_ACCEPT", sock |-> ListenSock])
  /\ UNCHANGED <<m_arrClientInfo, listening, ui, m_lstWebHistory, sockets,
                 conn, sent, lastReg>>

PostRead(s) ==
  /\ IsOpen(s)
  /\ conn[sockets[s]].armed
  /\ conn[sockets[s]].stream # <<>>
  /\ conn' = [conn EXCEPT ![sockets[s]].armed = FALSE]
  /\ queue' = Append(queue, [ev |-> "FD_READ", sock |-> s])
  /\ UNCHANGED <<m_arrClientInfo, listening, ui, m_lstWebHistory, sockets,
                 acceptArmed, sent, lastReg>>

(* FD_CLOSE, plain or carrying an error: ProcessSocketMsg treats both alike. *)
(* It is posted once, after everything that arrived has been received.       *)
PostClose(s) ==
  /\ IsOpen(s)
  /\ conn[sockets[s]].gone
  /\ conn[sockets[s]].stream = <<>>
  /\ ~conn[sockets[s]].fin
  /\ conn' = [conn EXCEPT ![sockets[s]].fin = TRUE]
  /\ queue' = Append(queue, [ev |-> "FD_CLOSE", sock |-> s])
  /\ UNCHANGED <<m_arrClientInfo, listening, ui, m_lstWebHistory, sockets,
                 acceptArmed, sent, lastReg>>

-----------------------------------------------------------------------------
(* ProcessSocketMsg *)

(* FD_ACCEPT: accept takes a pending connection; Winsock picks any free      *)
(* SOCKET value for it.  With none pending accept fails, ignored.            *)
OnAccept ==
  /\ ui = Idle
  /\ queue # <<>>
  /\ Head(queue).ev = "FD_ACCEPT"
  /\ queue' = Tail(queue)
  /\ acceptArmed' = TRUE
  /\ \/ \E c \in Conns, s \in Handles :
          /\ conn[c].st = "backlog"
          /\ sockets[s] = NoConn
          /\ conn' = [conn EXCEPT ![c].st = "open"]
          /\ sockets' = [sockets EXCEPT ![s] = c]
     \/ /\ \A s \in Handles : sockets[s] # NoConn
        /\ UNCHANGED <<conn, sockets>>
  /\ UNCHANGED <<m_arrClientInfo, listening, ui, m_lstWebHistory, sent, lastReg>>

(* Plausible bug: ProcessSocketMsg has no case for FD_CLOSE *)
OnClose_Ignored ==
  /\ ui = Idle
  /\ queue # <<>>
  /\ Head(queue).ev = "FD_CLOSE"
  /\ queue' = Tail(queue)
  /\ UNCHANGED <<m_arrClientInfo, listening, ui, m_lstWebHistory, sockets, conn,
                 acceptArmed, sent, lastReg>>

OnClose ==
  /\ ui = Idle
  /\ queue # <<>>
  /\ Head(queue).ev = "FD_CLOSE"
  /\ queue' = Tail(queue)
  /\ CloseConnection(Head(queue).sock)
  /\ UNCHANGED <<m_arrClientInfo, listening, ui, m_lstWebHistory, acceptArmed,
                 sent, lastReg>>

(* RecvHeader's outcomes for the SOCKET value s of an FD_READ.               *)

(* ENOTSOCK: the error code is cleared, so nothing is closed *)
ReadStale(s) ==
  /\ ~IsOpen(s)
  /\ ui' = ui
  /\ UNCHANGED <<conn, sockets>>

(* No byte: a remnant signal, or the peer is gone and recv returns 0 without *)
(* setting the error code that is then tested.                               *)
ReadNothing(s) ==
  /\ IsOpen(s)
  /\ conn[sockets[s]].stream = <<>>
  /\ ui' = ui
  /\ \/ /\ conn' = [conn EXCEPT ![sockets[s]].armed = TRUE]
        /\ UNCHANGED sockets
     \/ conn[sockets[s]].gone /\ CloseConnection(s)

(* recv takes what n pieces hold and lets Winsock post FD_READ again *)
Receive(c, n) ==
  conn' = [conn EXCEPT ![c] =
            [conn[c] EXCEPT !.armed = TRUE,
                            !.stream = SubSeq(conn[c].stream, n + 1, Len(conn[c].stream))]]

(* Plausible bug: a timeout in the header is no reason to close *)
ReadPartial_NeverCloses(s) ==
  /\ IsOpen(s)
  /\ Len(conn[sockets[s]].stream) = 1
  /\ ui' = ui
  /\ Receive(sockets[s], 1)
  /\ UNCHANGED sockets

(* Part of a header and no more within the five retries; a peer that is gone *)
(* makes recv return 0 with a cleared error code, and nothing is closed.     *)
ReadPartial(s) ==
  /\ IsOpen(s)
  /\ Len(conn[sockets[s]].stream) = 1
  /\ ui' = ui
  /\ \/ CloseConnection(s)
     \/ /\ conn[sockets[s]].gone
        /\ Receive(sockets[s], 1)
        /\ UNCHANGED sockets

(* A header that ProcessRead's checks refuse *)
BadHeader(hdr) == hdr.cmd = "out_of_range" \/ hdr.len = "negative"

ReadBadHeader(s) ==
  /\ IsOpen(s)
  /\ Len(conn[sockets[s]].stream) > 1
  /\ BadHeader(conn[sockets[s]].stream[1].msg)
  /\ ui' = ui
  /\ CloseConnection(s)

(* An odd DataLen: the connection is closed, but no return follows, and the  *)
(* handler goes on to read data from the SOCKET value it has just closed.    *)
OddLength(s) ==
  /\ IsOpen(s)
  /\ Len(conn[sockets[s]].stream) > 1
  /\ LET first == conn[sockets[s]].stream[1]
     IN  /\ ~BadHeader(first.msg)
         /\ first.msg.len = "odd"
         /\ ui' = Busy("data", s, first)
  /\ CloseConnection(s)

(* A header: its data is read next, if it announces any *)
ReadHeader(s) ==
  /\ IsOpen(s)
  /\ Len(conn[sockets[s]].stream) > 1
  /\ LET first == conn[sockets[s]].stream[1]
     IN  /\ ~BadHeader(first.msg)
         /\ first.msg.len # "odd"
         /\ ui' = Busy(IF first.msg.len = "zero" THEN "cmd" ELSE "data", s, first)
  /\ Receive(sockets[s], 2)
  /\ UNCHANGED sockets

(* FD_READ: ProcessRead up to and including RecvHeader and the header checks *)
OnRead ==
  /\ ui = Idle
  /\ queue # <<>>
  /\ Head(queue).ev = "FD_READ"
  /\ queue' = Tail(queue)
  /\ \/ ReadStale(Head(queue).sock)
     \/ ReadNothing(Head(queue).sock)
     \/ ReadPartial(Head(queue).sock)
     \/ ReadBadHeader(Head(queue).sock)
     \/ OddLength(Head(queue).sock)
     \/ ReadHeader(Head(queue).sock)
  /\ UNCHANGED <<m_arrClientInfo, listening, m_lstWebHistory, acceptArmed,
                 sent, lastReg>>

(* ProcessRead, the data of the message: RecvData's outcomes.                *)

(* Plausible bug: the result of RecvData is not tested *)
DataOfClosed_Ignored ==
  /\ ~IsOpen(ui.sock)
  /\ ui' = [ui EXCEPT !.pc = "cmd"]
  /\ UNCHANGED <<conn, sockets>>

(* ENOTSOCK, after OddLength: the error code is cleared and the handler ends *)
DataOfClosed ==
  /\ ~IsOpen(ui.sock)
  /\ ui' = Idle
  /\ UNCHANGED <<conn, sockets>>

DataComplete ==
  /\ IsOpen(ui.sock)
  /\ conn[sockets[ui.sock]].stream # <<>>
  /\ Receive(sockets[ui.sock], 1)
  /\ ui' = [ui EXCEPT !.pc = "cmd"]
  /\ UNCHANGED sockets

(* nothing more within the five retries *)
DataMissing ==
  /\ IsOpen(ui.sock)
  /\ conn[sockets[ui.sock]].stream = <<>>
  /\ ui' = Idle
  /\ \/ CloseConnection(ui.sock)
     \/ conn[sockets[ui.sock]].gone /\ UNCHANGED <<conn, sockets>>

RecvData ==
  /\ ui.pc = "data"
  /\ DataOfClosed \/ DataComplete \/ DataMissing
  /\ UNCHANGED <<m_arrClientInfo, listening, queue, m_lstWebHistory,
                 acceptArmed, sent, lastReg>>

-----------------------------------------------------------------------------
(* ProcessCmd *)

(* Plausible bugs: a reconnecting machine is appended again; its entry is    *)
(* found but keeps the old SOCKET value.                                     *)
AddNewClient_Appends(s, h) ==
  /\ m_arrClientInfo' = Append(m_arrClientInfo, NewClientInfo(s, h))
  /\ lastReg' = [lastReg EXCEPT ![h] = sockets[s]]
  /\ UNCHANGED <<conn, sockets>>

AddNewClient_KeepsSock(s, h) ==
  /\ m_arrClientInfo' =
       IF \E i \in DOMAIN m_arrClientInfo : m_arrClientInfo[i].HostName = h
       THEN m_arrClientInfo
       ELSE Append(m_arrClientInfo, NewClientInfo(s, h))
  /\ lastReg' = [lastReg EXCEPT ![h] = sockets[s]]
  /\ UNCHANGED <<conn, sockets>>

(* AddNewClient: the first entry with this IP that is active, or with this   *)
(* name, decides.  An active one refuses the connection; an inactive one of  *)
(* this name is taken over; with none a new entry is appended.               *)
AddNewClient(s, h) ==
  LET hits == {i \in DOMAIN m_arrClientInfo : m_arrClientInfo[i].HostName = h}
  IN \/ /\ hits = {}
        /\ m_arrClientInfo' = Append(m_arrClientInfo, NewClientInfo(s, h))
        /\ lastReg' = [lastReg EXCEPT ![h] = sockets[s]]
        /\ UNCHANGED <<conn, sockets>>
     \/ \E i \in hits :
          /\ \A j \in hits : i <= j
          /\ IF Active(m_arrClientInfo[i])
             THEN /\ CloseConnection(s)
                  /\ UNCHANGED <<m_arrClientInfo, lastReg>>
             ELSE /\ m_arrClientInfo' = [m_arrClientInfo EXCEPT ![i].ConnSock = s]
                  /\ lastReg' = [lastReg EXCEPT ![h] = sockets[s]]
                  /\ UNCHANGED <<conn, sockets>>

(* Plausible bug: ProcessCmd does not look the SOCKET value up first *)
OnMsgClientInfo_NoLookup ==
  /\ ui.pc = "cmd"
  /\ ui.hdr.msg.cmd = "VCM_CLIENTINFO"
  /\ ui' = Idle
  /\ AddNewClient(ui.sock, conn[sockets[ui.sock]].host)
  /\ UNCHANGED <<listening, queue, m_lstWebHistory, acceptArmed, sent>>

(* OnMsgClientInfo; getpeername fails only when the peer is gone *)
OnMsgClientInfo ==
  /\ ui.pc = "cmd"
  /\ ui.hdr.msg.cmd = "VCM_CLIENTINFO"
  /\ ~Registered(ui.sock)
  /\ ui' = Idle
  /\ \/ AddNewClient(ui.sock, conn[sockets[ui.sock]].host)
     \/ /\ conn[sockets[ui.sock]].gone
        /\ CloseConnection(ui.sock)
        /\ UNCHANGED <<m_arrClientInfo, lastReg>>
  /\ UNCHANGED <<listening, queue, m_lstWebHistory, acceptArmed, sent>>

(* "info from client has existed": the message is ignored *)
IgnoreClientInfo ==
  /\ ui.pc = "cmd"
  /\ ui.hdr.msg.cmd = "VCM_CLIENTINFO"
  /\ Registered(ui.sock)
  /\ ui' = Idle
  /\ UNCHANGED <<m_arrClientInfo, listening, queue, m_lstWebHistory, sockets,
                 conn, acceptArmed, sent, lastReg>>

(* WindowProc -> InsertItemHistory: the row goes to the end of the window *)
AddRow(c) == m_lstWebHistory' = Append(m_lstWebHistory, c)

(* Plausible bug: a history row is taken from whoever sends it *)
RefuseCmd_AddsRow ==
  /\ ui.pc = "cmd"
  /\ ui.hdr.msg.cmd = "VCM_WEB_HISTORY"
  /\ ~Registered(ui.sock)
  /\ ui' = Idle
  /\ AddRow(sockets[ui.sock])
  /\ UNCHANGED <<m_arrClientInfo, listening, queue, sockets, conn, acceptArmed,
                 sent, lastReg>>

(* any other command before CLIENTINFO: the connection is closed *)
RefuseCmd ==
  /\ ui.pc = "cmd"
  /\ ui.hdr.msg.cmd # "VCM_CLIENTINFO"
  /\ ~Registered(ui.sock)
  /\ ui' = Idle
  /\ CloseConnection(ui.sock)
  /\ UNCHANGED <<m_arrClientInfo, listening, queue, m_lstWebHistory,
                 acceptArmed, sent, lastReg>>

(* VCM_WEB_HISTORY adds a row to the window; the rest of the switch is empty *)
HandleCmd ==
  /\ ui.pc = "cmd"
  /\ ui.hdr.msg.cmd # "VCM_CLIENTINFO"
  /\ Registered(ui.sock)
  /\ ui' = Idle
  /\ IF ui.hdr.msg.cmd = "VCM_WEB_HISTORY"
     THEN AddRow(sockets[ui.sock])
     ELSE UNCHANGED m_lstWebHistory
  /\ UNCHANGED <<m_arrClientInfo, listening, queue, sockets, conn, acceptArmed,
                 sent, lastReg>>

ProcessCmd == OnMsgClientInfo \/ IgnoreClientInfo \/ RefuseCmd \/ HandleCmd

(* CleanUp: WSACleanup closes every socket of the process *)
CleanUp ==
  /\ sockets' = [s \in Handles |-> NoConn]
  /\ conn' = [c \in Conns |-> [conn[c] EXCEPT !.st = "closed", !.stream = <<>>,
                                              !.wire = <<>>]]

(* OnDestroy -> Stop -> CleanUp; no message reaches the destroyed window *)
Stop ==
  /\ ui = Idle
  /\ listening \in {"yes", "failed"}
  /\ listening' = "stopped"
  /\ queue' = <<>>
  /\ CleanUp
  /\ UNCHANGED <<m_arrClientInfo, ui, m_lstWebHistory, acceptArmed, sent, lastReg>>

Dispatch == OnAccept \/ OnClose \/ OnRead \/ RecvData \/ ProcessCmd

Peer == \E c \in Conns :
          PeerConnect(c) \/ PeerSend(c) \/ PeerGone(c) \/ Arrive(c)

Winsock == PostAccept \/ \E s \in Handles : PostRead(s) \/ PostClose(s)

Next == Start \/ Stop \/ Dispatch \/ Winsock \/ Peer

(* The message loop runs whenever a message is queued and never blocks for   *)
(* good; Winsock posts what it owes.  Peers and the user promise nothing.    *)
Fairness ==
  /\ WF_vars(Dispatch)
  /\ WF_vars(PostAccept)
  /\ \A s \in Handles : WF_vars(PostRead(s)) /\ WF_vars(PostClose(s))

Spec == Init /\ [][Next]_vars /\ Fairness

-----------------------------------------------------------------------------
(* Properties *)

(* Every variable has its type. *)
TypeOK ==
  /\ m_arrClientInfo \in Seq(ClientInfo)
  /\ listening \in {"not_started", "yes", "failed", "stopped"}
  /\ queue \in Seq(Event)
  /\ ui \in {Idle} \cup [pc : {"data", "cmd"}, sock : Handles, from : Conns, hdr : Piece]
  /\ m_lstWebHistory \in Seq(Conns)
  /\ sockets \in [Handles -> Conns \cup {NoConn}]
  /\ conn \in [Conns -> Connection]
  /\ acceptArmed \in BOOLEAN
  /\ sent \in [Conns -> 0 .. MaxSend]
  /\ lastReg \in [Hosts -> Conns \cup {NoConn}]

(* The connection list never holds two entries of one machine, however often *)
(* machines reconnect: AddNewClient's search and the check of ProcessCmd     *)
(* that precedes it keep HostName a key.                                     *)
HostNameIsKey ==
  \A i, j \in DOMAIN m_arrClientInfo :
    m_arrClientInfo[i].HostName = m_arrClientInfo[j].HostName => i = j

(* Nor two entries with one SOCKET value, although values of closed          *)
(* connections stay in the list and Winsock reuses them: GetClientInfo's     *)
(* answer is never ambiguous.                                                *)
ConnSockIsKey ==
  \A i, j \in DOMAIN m_arrClientInfo :
    m_arrClientInfo[i].ConnSock = m_arrClientInfo[j].ConnSock => i = j

(* As long as the connection that last registered a machine is open, the     *)
(* machine's entry holds that connection's SOCKET value: a message sent to   *)
(* the machine (SendMsgToClient) goes to its newest connection and no other  *)
(* machine's registration can take the entry away.                           *)
LatestRegistrationWins ==
  \A h \in Hosts, s \in Handles :
    (lastReg[h] # NoConn /\ sockets[s] = lastReg[h]) =>
      \E i \in DOMAIN m_arrClientInfo :
         m_arrClientInfo[i].HostName = h /\ m_arrClientInfo[i].ConnSock = s

(* Whatever the pace at which bytes arrive, RecvHeader reads headers and     *)
(* RecvData the data of the header just read: a message cut short ends the   *)
(* connection instead of shifting the frame.                                 *)
FramingKept ==
  /\ ui # Idle => ui.hdr.part = "header1"
  /\ \A s \in Handles : sockets[s] # NoConn =>
       LET in == conn[sockets[s]].stream \o conn[sockets[s]].wire
       IN  in # <<>> =>
             IF ui # Idle /\ ui.pc = "data" /\ ui.sock = s
             THEN Head(in) = [part |-> "data", msg |-> ui.hdr.msg]
             ELSE Head(in).part = "header1"

(* ProcessRead and everything it calls carry the SOCKET value only.  From    *)
(* the header to the end of ProcessCmd that value denotes the connection the *)
(* header came from, so a registration and a history row are the sender's;   *)
(* the one exception is an odd DataLen, for which the close lacks a return   *)
(* (Listener.cpp:372): the value denotes nothing then, and RecvData's        *)
(* failure keeps the message from ever reaching ProcessCmd.                  *)
ActsForSender ==
  ui # Idle =>
    IF ui.hdr.msg.len = "odd"
    THEN ui.pc = "data" /\ sockets[ui.sock] = NoConn
    ELSE sockets[ui.sock] = ui.from

(* A connection whose peer is gone is closed by the server in the end, even  *)
(* when the peer left in the middle of a message: no SOCKET leaks.           *)
GoneIsClosed ==
  \A c \in Conns : (conn[c].st = "open" /\ conn[c].gone) ~> (conn[c].st = "closed")

-----------------------------------------------------------------------------
(* What a comment of Listener.cpp says, and the code does not keep *)

(* Listener.cpp:287, on taking over the entry of a known name: "This client   *)
(* has already existed but it was disconnected. Now re-connect" - so the      *)
(* SOCKET value the entry held denotes no connection whose peer is alive.     *)
TakenOverIsDisconnected ==
  [][\A i \in DOMAIN m_arrClientInfo :
       (/\ m_arrClientInfo'[i].ConnSock # m_arrClientInfo[i].ConnSock
        /\ IsOpen(m_arrClientInfo[i].ConnSock)) =>
         conn[sockets[m_arrClientInfo[i].ConnSock]].gone]_vars

=============================================================================
