----------------------------- MODULE CSMConnect -----------------------------
(***************************************************************************)
(* CConnect, the connection of the CSM client simulator to the server      *)
(* (src/HaiNT3/CSMClientSimulator/Connect.cpp and the dialog).             *)
(*                                                                         *)
(* Two threads work on m_ConnSock and m_bConnect.  The connection thread   *)
(* pings every 3 s and reconnects; the UI thread handles the WM_SOCKET     *)
(* messages and sends the web history every 15 s.  m_SyncConn guards       *)
(* SendData and nothing else: closing, connecting and the two variables    *)
(* are unguarded, so every access to them is a step of its own here.       *)
(***************************************************************************)
EXTENDS Naturals, Sequences, FiniteSets

CONSTANTS
  Sockets,         \* SOCKET values that socket() can return
  INVALID_SOCKET,
  ValidServerIP,   \* g_strServerIP is an address connect can be called with
  ServerSends,     \* the server sends messages (ours has no caller that does)
  MaxQueue         \* bound: WM_SOCKET messages in the UI thread's queue

ASSUME ConnectAssumption ==
  /\ INVALID_SOCKET \notin Sockets
  /\ ValidServerIP \in BOOLEAN
  /\ ServerSends \in BOOLEAN
  /\ MaxQueue \in Nat

Threads  == {"ui", "conn"}
Commands == {"VCM_PING", "VCM_CLIENTINFO", "VCM_WEB_HISTORY"}

(* The UI thread outside SendMsgToServer: it handles a WM_SOCKET message, or  *)
(* reads a message from the server whose DataLen is odd.                      *)
NoMsg   == "no message"
OddData == "odd DataLen"

VARIABLES
  m_ConnSock,
  m_bConnect,
  m_SyncConn,      \* the thread that owns the critical section, or "none"
  m_hControlEvent, \* the event Start waits for is set
  pc,              \* where each thread is
  msg,             \* the command of the message each thread is about to send
  part,            \* and the part of it that SendData sends next
  queue,           \* WM_SOCKET messages posted to the window, oldest first
  sock,            \* Winsock: the state of each SOCKET value
  gone,            \* Winsock: the server has closed this connection or died
  posted,          \* Winsock: FD_CLOSE has been posted for this connection
  stream,          \* what the server has read of each connection so far
  info,            \* the connections on which CLIENTINFO was sent whole
  callFailed       \* history: SendData, WSAAsyncSelect or GetComputerName has failed

shared == <<m_ConnSock, m_bConnect, m_SyncConn>>
net    == <<sock, gone, posted, stream, info>>
vars   == <<m_ConnSock, m_bConnect, m_SyncConn, m_hControlEvent, pc, msg, part,
            queue, sock, gone, posted, stream, info, callFailed>>

-----------------------------------------------------------------------------
(* A socket is free, created, connected, or shut down but not yet closed.    *)
SockStates == {"free", "created", "connected", "shut"}

(* The stream of a connection: at a message boundary, inside a message of a  *)
(* thread, or broken: a part arrived that does not continue what came before. *)
Boundary == "boundary"
Streams  == Threads \cup {Boundary, "broken"}

Continue(s, t, p) ==
  CASE s = Boundary /\ p = "first" -> t
    [] s = t /\ p = "rest"         -> Boundary
    [] OTHER                       -> "broken"

Event == {"FD_READ", "FD_CLOSE"}

At(t, label) == pc[t] = label
Goto(t, label) == pc' = [pc EXCEPT ![t] = label]

Current == m_ConnSock # INVALID_SOCKET
IsConnected == Current /\ sock[m_ConnSock] = "connected"

(* closesocket: a SOCKET value that is free again says nothing *)
Free(s) ==
  /\ sock' = [sock EXCEPT ![s] = "free"]
  /\ gone' = [gone EXCEPT ![s] = FALSE]
  /\ posted' = [posted EXCEPT ![s] = FALSE]
  /\ stream' = [stream EXCEPT ![s] = Boundary]
  /\ info' = info \ {s}

Init ==
  /\ m_ConnSock = INVALID_SOCKET
  /\ m_bConnect = FALSE
  /\ m_SyncConn = "none"
  /\ m_hControlEvent = FALSE
  /\ pc = [t \in Threads |-> IF t = "ui" THEN "start" ELSE "none"]
  /\ msg = [t \in Threads |-> IF t = "ui" THEN NoMsg ELSE "VCM_PING"]
  /\ part = [t \in Threads |-> "first"]
  /\ queue = <<>>
  /\ sock = [s \in Sockets |-> "free"]
  /\ gone = [s \in Sockets |-> FALSE]
  /\ posted = [s \in Sockets |-> FALSE]
  /\ stream = [s \in Sockets |-> Boundary]
  /\ info = {}
  /\ callFailed = FALSE

-----------------------------------------------------------------------------
(* Start and the start of ConnectThreadProc.  The dialog ignores the result: *)
(* without a connection thread the timer for the web history still runs.     *)

Start ==
  /\ At("ui", "start")
  /\ \/ Goto("ui", "idle")                    \* a step before the thread failed
     \/ pc' = [pc EXCEPT !["ui"] = "wait", !["conn"] = "init"]
  /\ UNCHANGED <<shared, m_hControlEvent, msg, part, queue, net, callFailed>>

ThreadInit ==
  /\ At("conn", "init")
  /\ m_hControlEvent' = TRUE
  /\ Goto("conn", "monitor") \/ Goto("conn", "exited")    \* SetTimer failed
  /\ UNCHANGED <<shared, msg, part, queue, net, callFailed>>

StartReturns ==
  /\ At("ui", "wait")
  /\ m_hControlEvent
  /\ Goto("ui", "idle")
  /\ UNCHANGED <<shared, m_hControlEvent, msg, part, queue, net, callFailed>>

-----------------------------------------------------------------------------
(* SendMsgToServer, by either thread *)

(* Plausible bug: SendMsgToServer does not enter the critical section *)
Lock_None(t) ==
  /\ At(t, "lock")
  /\ m_SyncConn' = t
  /\ Goto(t, "send")
  /\ UNCHANGED <<m_ConnSock, m_bConnect, m_hControlEvent, msg, part, queue, net,
                 callFailed>>

Lock(t) ==
  /\ At(t, "lock")
  /\ m_SyncConn = "none"
  /\ m_SyncConn' = t
  /\ Goto(t, "send")
  /\ UNCHANGED <<m_ConnSock, m_bConnect, m_hControlEvent, msg, part, queue, net,
                 callFailed>>

(* SendData: send takes the next part, on whatever m_ConnSock is by now *)
SendPart(t) ==
  /\ At(t, "send")
  /\ IsConnected
  /\ stream' = [stream EXCEPT ![m_ConnSock] = Continue(@, t, part[t])]
  /\ IF part[t] = "first"
     THEN /\ part' = [part EXCEPT ![t] = "rest"]
          /\ UNCHANGED <<pc, info>>
     ELSE /\ Goto(t, "unlock")
          /\ part' = [part EXCEPT ![t] = "first"]
          /\ info' = IF msg[t] = "VCM_CLIENTINFO" THEN info \cup {m_ConnSock} ELSE info
  /\ UNCHANGED <<shared, m_hControlEvent, msg, queue, sock, gone, posted, callFailed>>

(* Plausible bug: the return on an error skips m_SyncConn.Unlock *)
SendFails_KeepsLock(t) ==
  /\ At(t, "send")
  /\ callFailed' = TRUE
  /\ part' = [part EXCEPT ![t] = "first"]
  /\ Goto(t, "shutdown")
  /\ UNCHANGED <<shared, m_hControlEvent, msg, queue, net>>

(* an error, or WSAEWOULDBLOCK a sixth time *)
SendFails(t) ==
  /\ At(t, "send")
  /\ callFailed' = TRUE
  /\ part' = [part EXCEPT ![t] = "first"]
  /\ Goto(t, "unlock_failed")
  /\ UNCHANGED <<shared, m_hControlEvent, msg, queue, net>>

(* Plausible bug: SendMsgToServer returns into MonitorConnection whoever called *)
AfterSend_Monitor(t) == IF msg[t] = "VCM_PING" THEN "check" ELSE "monitor"

(* Where a thread goes on after sending or closing, by what it was sending:  *)
(* MonitorConnection tests m_bConnect again after the PING, UpdateURL turns  *)
(* to the next visit whether or not this one was sent, and a handler of the  *)
(* UI thread that only closes returns to the message loop, except that       *)
(* ProcessRead goes on to the data after it has closed for an odd DataLen.   *)
AfterSend(t) ==
  CASE msg[t] = "VCM_PING"        -> "check"
    [] msg[t] = "VCM_CLIENTINFO"  -> "monitor"
    [] msg[t] = "VCM_WEB_HISTORY" -> "visits"
    [] msg[t] = OddData           -> "recv"
    [] msg[t] = NoMsg             -> "idle"

(* Plausible bug: a failed send is reported, the connection left as it is *)
Unlock_NoClose(t) ==
  /\ pc[t] \in {"unlock", "unlock_failed"}
  /\ Goto(t, AfterSend(t))
  /\ m_SyncConn' = "none"
  /\ UNCHANGED <<m_ConnSock, m_bConnect, m_hControlEvent, msg, part, queue, net,
                 callFailed>>

(* SendMsgToServer closes only after it has left the critical section *)
Unlock(t) ==
  /\ \/ At(t, "unlock") /\ Goto(t, AfterSend(t))
     \/ At(t, "unlock_failed") /\ Goto(t, "shutdown")
  /\ m_SyncConn' = "none"
  /\ UNCHANGED <<m_ConnSock, m_bConnect, m_hControlEvent, msg, part, queue, net,
                 callFailed>>

-----------------------------------------------------------------------------
(* CloseConnection, by either thread: four statements, each on the value     *)
(* m_ConnSock has by then.                                                   *)

Shutdown(t) ==
  /\ At(t, "shutdown")
  /\ sock' = IF IsConnected THEN [sock EXCEPT ![m_ConnSock] = "shut"] ELSE sock
  /\ Goto(t, "closesocket")
  /\ UNCHANGED <<shared, m_hControlEvent, msg, part, queue, gone, posted, stream,
                 info, callFailed>>

Closesocket(t) ==
  /\ At(t, "closesocket")
  /\ IF Current THEN Free(m_ConnSock) ELSE UNCHANGED net
  /\ Goto(t, "invalidate")
  /\ UNCHANGED <<shared, m_hControlEvent, msg, part, queue, callFailed>>

Invalidate(t) ==
  /\ At(t, "invalidate")
  /\ m_ConnSock' = INVALID_SOCKET
  /\ Goto(t, "disconnected")
  /\ UNCHANGED <<m_bConnect, m_SyncConn, m_hControlEvent, msg, part, queue, net,
                 callFailed>>

(* Plausible bug: m_bConnect is not reset *)
Disconnected_StaysTrue(t) ==
  /\ At(t, "disconnected")
  /\ Goto(t, AfterSend(t))
  /\ UNCHANGED <<shared, m_hControlEvent, msg, part, queue, net, callFailed>>

Disconnected(t) ==
  /\ At(t, "disconnected")
  /\ m_bConnect' = FALSE
  /\ Goto(t, AfterSend(t))
  /\ UNCHANGED <<m_ConnSock, m_SyncConn, m_hControlEvent, msg, part, queue, net,
                 callFailed>>

-----------------------------------------------------------------------------
(* MonitorConnection: once at the start, then on every WM_TIMER *)

Monitor ==
  /\ At("conn", "monitor")
  /\ msg' = [msg EXCEPT !["conn"] = "VCM_PING"]
  /\ Goto("conn", IF m_bConnect THEN "lock" ELSE "check")
  /\ UNCHANGED <<shared, m_hControlEvent, part, queue, net, callFailed>>

(* the second test of m_bConnect *)
Check ==
  /\ At("conn", "check")
  /\ Goto("conn", IF m_bConnect THEN "monitor" ELSE "create")
  /\ UNCHANGED <<shared, m_hControlEvent, msg, part, queue, net, callFailed>>

(* A SOCKET value for socket() to return.  A value that was never closed and *)
(* that m_ConnSock no longer holds is leaked: it is lost for good, and       *)
(* reused here only when no other is left (the real table has thousands).    *)
Fresh(s) ==
  /\ s # m_ConnSock
  /\ sock[s] = "free" \/ \A r \in Sockets : sock[r] # "free"

Allocate(s) ==
  /\ sock' = [sock EXCEPT ![s] = "created"]
  /\ gone' = [gone EXCEPT ![s] = FALSE]
  /\ posted' = [posted EXCEPT ![s] = FALSE]
  /\ stream' = [stream EXCEPT ![s] = Boundary]
  /\ info' = info \ {s}

(* CreateConnection: socket(), unless m_ConnSock is still valid; then        *)
(* connect(), if the address of the server is one.                           *)
CreateSocket ==
  /\ At("conn", "create")
  /\ ~Current
  /\ \E s \in Sockets : Fresh(s) /\ Allocate(s) /\ m_ConnSock' = s
  /\ Goto("conn", IF ValidServerIP THEN "connect" ELSE "monitor")
  /\ UNCHANGED <<m_bConnect, m_SyncConn, m_hControlEvent, msg, part, queue, callFailed>>

SocketFails ==
  /\ At("conn", "create")
  /\ ~Current
  /\ Goto("conn", "monitor")
  /\ UNCHANGED <<shared, m_hControlEvent, msg, part, queue, net, callFailed>>

KeepSocket ==
  /\ At("conn", "create")
  /\ Current
  /\ Goto("conn", IF ValidServerIP THEN "connect" ELSE "monitor")
  /\ UNCHANGED <<shared, m_hControlEvent, msg, part, queue, net, callFailed>>

Connect ==
  /\ At("conn", "connect")
  /\ Current
  /\ sock[m_ConnSock] = "created"
  /\ sock' = [sock EXCEPT ![m_ConnSock] = "connected"]
  /\ Goto("conn", "select")
  /\ UNCHANGED <<shared, m_hControlEvent, msg, part, queue, gone, posted, stream,
                 info, callFailed>>

(* the server does not answer, or the socket is closed or already connected *)
ConnectFails ==
  /\ At("conn", "connect")
  /\ Goto("conn", "monitor")
  /\ UNCHANGED <<shared, m_hControlEvent, msg, part, queue, net, callFailed>>

(* WSAAsyncSelect *)
Select ==
  /\ At("conn", "select")
  /\ \/ /\ Current /\ sock[m_ConnSock] # "free"
        /\ Goto("conn", "connected")
        /\ UNCHANGED callFailed
     \/ /\ Goto("conn", "select_failed")
        /\ callFailed' = TRUE
  /\ UNCHANGED <<shared, m_hControlEvent, msg, part, queue, net>>

(* shutdown, closesocket, m_ConnSock = INVALID_SOCKET; m_bConnect stays *)
SelectFailed ==
  /\ At("conn", "select_failed")
  /\ m_ConnSock' = INVALID_SOCKET
  /\ IF Current THEN Free(m_ConnSock) ELSE UNCHANGED net
  /\ Goto("conn", "monitor")
  /\ UNCHANGED <<m_bConnect, m_SyncConn, m_hControlEvent, msg, part, queue, callFailed>>

Connected ==
  /\ At("conn", "connected")
  /\ m_bConnect' = TRUE
  /\ Goto("conn", "recheck")
  /\ UNCHANGED <<m_ConnSock, m_SyncConn, m_hControlEvent, msg, part, queue, net,
                 callFailed>>

(* the third test of m_bConnect, then SendMsgCLIENTINFO; GetComputerName may *)
(* fail, which closes the connection                                         *)
Recheck ==
  /\ At("conn", "recheck")
  /\ IF m_bConnect
     THEN /\ msg' = [msg EXCEPT !["conn"] = "VCM_CLIENTINFO"]
          /\ \/ Goto("conn", "lock") /\ UNCHANGED callFailed
             \/ Goto("conn", "shutdown") /\ callFailed' = TRUE
     ELSE Goto("conn", "monitor") /\ UNCHANGED <<msg, callFailed>>
  /\ UNCHANGED <<shared, m_hControlEvent, part, queue, net>>

-----------------------------------------------------------------------------
(* The UI thread's message loop *)

(* OnTimer -> UpdateURL.  WM_TIMER comes only when no posted message waits.  *)
HistoryTimer ==
  /\ At("ui", "idle")
  /\ queue = <<>>
  /\ Goto("ui", "visits")
  /\ msg' = [msg EXCEPT !["ui"] = "VCM_WEB_HISTORY"]
  /\ UNCHANGED <<shared, m_hControlEvent, part, queue, net, callFailed>>

(* the loop of UpdateURL: each new visit is sent, connected or not *)
SendVisit ==
  /\ At("ui", "visits")
  /\ Goto("ui", "lock")
  /\ UNCHANGED <<shared, m_hControlEvent, msg, part, queue, net, callFailed>>

HistoryDone ==
  /\ At("ui", "visits")
  /\ Goto("ui", "idle")
  /\ msg' = [msg EXCEPT !["ui"] = NoMsg]
  /\ UNCHANGED <<shared, m_hControlEvent, part, queue, net, callFailed>>

(* ProcessSocketMsg does not look which socket the message is about *)
OnClose ==
  /\ At("ui", "idle")
  /\ queue # <<>>
  /\ Head(queue) = "FD_CLOSE"
  /\ queue' = Tail(queue)
  /\ Goto("ui", "shutdown")
  /\ UNCHANGED <<shared, m_hControlEvent, msg, part, net, callFailed>>

(* ProcessRead: a message (ProcessCmd does nothing with any), no message, or *)
(* one that is ill-formed or incomplete and makes it close the connection;   *)
(* for an odd DataLen it closes and goes on.                                 *)
OnRead ==
  /\ At("ui", "idle")
  /\ queue # <<>>
  /\ Head(queue) = "FD_READ"
  /\ queue' = Tail(queue)
  /\ \/ UNCHANGED <<pc, msg>>
     \/ Current /\ Goto("ui", "shutdown") /\ UNCHANGED msg
     \/ Current /\ Goto("ui", "shutdown") /\ msg' = [msg EXCEPT !["ui"] = OddData]
  /\ UNCHANGED <<shared, m_hControlEvent, part, net, callFailed>>

(* RecvData after the close: it reads from the connection m_ConnSock is by   *)
(* now, if there is one, and an error closes that                            *)
RecvOdd ==
  /\ At("ui", "recv")
  /\ \/ Goto("ui", "idle")
     \/ Current /\ Goto("ui", "shutdown")
  /\ msg' = [msg EXCEPT !["ui"] = NoMsg]
  /\ UNCHANGED <<shared, m_hControlEvent, part, queue, net, callFailed>>

-----------------------------------------------------------------------------
(* The server and Winsock *)

ServerGone(s) ==
  /\ sock[s] = "connected"
  /\ ~gone[s]
  /\ gone' = [gone EXCEPT ![s] = TRUE]
  /\ UNCHANGED <<shared, m_hControlEvent, pc, msg, part, queue, sock, posted, stream,
                 info, callFailed>>

(* Until WSAAsyncSelect has been called nothing is posted *)
Selected(s) == ~(pc["conn"] = "select" /\ m_ConnSock = s)

PostRead(s) ==
  /\ ServerSends
  /\ sock[s] = "connected"
  /\ ~gone[s]
  /\ Selected(s)
  /\ Len(queue) < MaxQueue
  /\ queue' = Append(queue, "FD_READ")
  /\ UNCHANGED <<shared, m_hControlEvent, pc, msg, part, net, callFailed>>

PostClose(s) ==
  /\ sock[s] = "connected"
  /\ gone[s]
  /\ ~posted[s]
  /\ Selected(s)
  /\ Len(queue) < MaxQueue
  /\ posted' = [posted EXCEPT ![s] = TRUE]
  /\ queue' = Append(queue, "FD_CLOSE")
  /\ UNCHANGED <<shared, m_hControlEvent, pc, msg, part, sock, gone, stream, info,
                 callFailed>>

-----------------------------------------------------------------------------
Send(t)  == Lock(t) \/ SendPart(t) \/ SendFails(t) \/ Unlock(t)
Close(t) == Shutdown(t) \/ Closesocket(t) \/ Invalidate(t) \/ Disconnected(t)

CreateConnection ==
  \/ CreateSocket \/ SocketFails \/ KeepSocket
  \/ Connect \/ ConnectFails
  \/ Select \/ SelectFailed
  \/ Connected

MonitorConnection == Monitor \/ Check \/ CreateConnection \/ Recheck

ConnThread == ThreadInit \/ MonitorConnection \/ Send("conn") \/ Close("conn")

UpdateURL == SendVisit \/ HistoryDone

UIHandlers ==
  \/ Start \/ StartReturns \/ OnClose \/ OnRead \/ RecvOdd \/ UpdateURL
  \/ Send("ui") \/ Close("ui")

Winsock == \E s \in Sockets : ServerGone(s) \/ PostRead(s) \/ PostClose(s)

Next == ConnThread \/ UIHandlers \/ HistoryTimer \/ Winsock

(* Both threads run, the connection thread's timer never stops, and the UI   *)
(* thread takes messages in turn.  The threads want the critical section at  *)
(* most once in 3 s and in 15 s, so none is starved, and a history has       *)
(* finitely many visits.  Winsock reports a lost connection; a server that   *)
(* is asked to connect often enough accepts.                                 *)
Fairness ==
  /\ WF_vars(ConnThread)
  /\ WF_vars(UIHandlers)
  /\ \A t \in Threads : SF_vars(Lock(t))
  /\ SF_vars(\E s \in Sockets : PostClose(s))
  /\ SF_vars(HistoryDone)
  /\ SF_vars(CreateSocket)
  /\ SF_vars(Connect)

Spec == Init /\ [][Next]_vars /\ Fairness

-----------------------------------------------------------------------------
(* Properties *)

SendLabels  == {"lock", "send", "unlock", "unlock_failed"}
CloseLabels == {"shutdown", "closesocket", "invalidate", "disconnected"}

Labels == [ui   |-> {"start", "wait", "idle", "visits", "recv"}
                      \cup SendLabels \cup CloseLabels,
           conn |-> {"none", "init", "exited", "monitor", "check", "create", "connect",
                     "select", "select_failed", "connected", "recheck"}
                      \cup SendLabels \cup CloseLabels]

Msgs == [ui   |-> {NoMsg, OddData, "VCM_WEB_HISTORY"},
         conn |-> {"VCM_PING", "VCM_CLIENTINFO"}]

(* Every variable has its type. *)
TypeOK ==
  /\ m_ConnSock \in Sockets \cup {INVALID_SOCKET}
  /\ m_bConnect \in BOOLEAN
  /\ m_SyncConn \in Threads \cup {"none"}
  /\ m_hControlEvent \in BOOLEAN
  /\ pc \in [Threads -> Labels.ui \cup Labels.conn]
  /\ \A t \in Threads : pc[t] \in Labels[t] /\ msg[t] \in Msgs[t]
  /\ msg \in [Threads -> Commands \cup {NoMsg, OddData}]
  /\ part \in [Threads -> {"first", "rest"}]
  /\ queue \in Seq(Event)
  /\ sock \in [Sockets -> SockStates]
  /\ gone \in [Sockets -> BOOLEAN]
  /\ posted \in [Sockets -> BOOLEAN]
  /\ stream \in [Sockets -> Streams]
  /\ info \subseteq Sockets
  /\ callFailed \in BOOLEAN

(* A thread owns the critical section exactly while it is in SendData or     *)
(* about to leave it: no path out of SendMsgToServer keeps it, and the two   *)
(* threads are never in SendData together.                                   *)
LockOwner ==
  \A t \in Threads :
    m_SyncConn = t <=> pc[t] \in {"send", "unlock", "unlock_failed"}

(* As long as no call has failed, each connection carries whole messages,    *)
(* although two threads send on it and the UI thread may close it under the  *)
(* connection thread's hands: m_SyncConn keeps the parts of a message        *)
(* together, and only the connection thread replaces a closed socket.        *)
WholeUnlessFailed ==
  ~callFailed => \A s \in Sockets : stream[s] # "broken"

(* When the connection thread goes to sleep believing that it is connected,  *)
(* and the connection m_ConnSock holds is up, CLIENTINFO has been sent on    *)
(* it: no interleaving with a close by the UI thread leaves a connection     *)
(* that is pinged for good but was never registered.                         *)
BelievedIsRegistered ==
  (At("conn", "monitor") /\ m_bConnect /\ IsConnected) => m_ConnSock \in info

(* However connecting, closing and failing sends of the two threads          *)
(* interleave, the client comes to hold a connection to a living server      *)
(* again and again, once its connection thread runs.                         *)
Reconnects ==
  (ValidServerIP /\ At("conn", "monitor")) ~> (IsConnected /\ ~gone[m_ConnSock])

-----------------------------------------------------------------------------
(* What comments of Connect.cpp say, and the code does not keep *)

(* Connect.cpp:503 and 545, on the critical section: "lock socket:           *)
(* multi-thread call send" - so that a connection carries whole messages.    *)
WholeMessages ==
  \A s \in Sockets : stream[s] # "broken"

=============================================================================
