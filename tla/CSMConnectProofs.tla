-------------------------- MODULE CSMConnectProofs --------------------------
(***************************************************************************)
(* Proofs about CSMConnect, for every set of SOCKET values, every length   *)
(* of the message queue, and a server that sends or does not.              *)
(***************************************************************************)
EXTENDS CSMConnect, TLAPS

(* Every step that is not a thread's sending, closing or connecting. *)
LoopStep ==
  \/ Start \/ ThreadInit \/ StartReturns
  \/ OnClose \/ OnRead \/ RecvOdd \/ UpdateURL \/ HistoryTimer
  \/ Winsock

LEMMA Steps ==
  ASSUME Next
  PROVE  (\E t \in Threads : Send(t) \/ Close(t)) \/ MonitorConnection \/ LoopStep
BY DEF Next, ConnThread, UIHandlers, Threads, LoopStep

-----------------------------------------------------------------------------
(* Types *)

(* What the threads' places and messages may be. *)
LEMMA Goes ==
  ASSUME TypeOK, NEW t \in Threads, NEW label \in Labels[t], Goto(t, label)
  PROVE  /\ pc' \in [Threads -> Labels.ui \cup Labels.conn]
         /\ \A u \in Threads : pc'[u] \in Labels[u]
         /\ pc'[t] = label
         /\ \A u \in Threads : u # t => pc'[u] = pc[u]
BY DEF TypeOK, Goto, Threads, Labels, SendLabels, CloseLabels

LEMMA AfterSendType ==
  ASSUME TypeOK, NEW t \in Threads
  PROVE  AfterSend(t) \in Labels[t] \cap {"idle", "visits", "recv", "check", "monitor"}
<1>1. CASE t = "ui"
  <2>1. msg[t] \in {NoMsg, OddData, "VCM_WEB_HISTORY"}
    BY <1>1 DEF TypeOK, Msgs, Threads
  <2>2. AfterSend(t) \in {"idle", "visits", "recv"}
    BY <2>1 DEF AfterSend, NoMsg, OddData
  <2> QED
    BY <1>1, <2>2 DEF Labels
<1>2. CASE t = "conn"
  <2>1. msg[t] \in {"VCM_PING", "VCM_CLIENTINFO"}
    BY <1>2 DEF TypeOK, Msgs, Threads
  <2>2. AfterSend(t) \in {"check", "monitor"}
    BY <2>1 DEF AfterSend, NoMsg, OddData
  <2> QED
    BY <1>2, <2>2 DEF Labels
<1> QED
  BY <1>1, <1>2 DEF Threads

(* Every part a thread sends leaves the stream in one of its states. *)
LEMMA ContinueType ==
  ASSUME NEW s \in Streams, NEW t \in Threads, NEW p \in {"first", "rest"}
  PROVE  Continue(s, t, p) \in Streams
BY DEF Continue, Streams, Threads, Boundary

(* closesocket and socket keep Winsock's tables well typed. *)
LEMMA FreeType ==
  ASSUME TypeOK, NEW s \in Sockets, Free(s) \/ Allocate(s)
  PROVE  /\ sock' \in [Sockets -> SockStates]
         /\ gone' \in [Sockets -> BOOLEAN]
         /\ posted' \in [Sockets -> BOOLEAN]
         /\ stream' \in [Sockets -> Streams]
         /\ info' \subseteq Sockets
BY DEF TypeOK, Free, Allocate, SockStates, Streams

(* The steps of one thread that sends or closes. *)
LEMMA ThreadStepType ==
  ASSUME ConnectAssumption, TypeOK, NEW t \in Threads, Send(t) \/ Close(t)
  PROVE  TypeOK'
<1>1. CASE Lock(t)
  <2>1. "send" \in Labels[t]
    BY DEF Threads, Labels, SendLabels
  <2> QED
    BY <1>1, <2>1, Goes DEF Lock, TypeOK, shared, net
<1>2. CASE SendPart(t)
  <2>1. m_ConnSock \in Sockets /\ Continue(stream[m_ConnSock], t, part[t]) \in Streams
    BY <1>2, ContinueType DEF SendPart, IsConnected, Current, TypeOK
  <2>2. stream' \in [Sockets -> Streams]
    BY <1>2, <2>1 DEF SendPart, TypeOK
  <2>3. "unlock" \in Labels[t]
    BY DEF Threads, Labels, SendLabels
  <2>4. /\ pc' \in [Threads -> Labels.ui \cup Labels.conn]
        /\ \A u \in Threads : pc'[u] \in Labels[u]
    BY <1>2, <2>3, Goes DEF SendPart, TypeOK
  <2>5. part' \in [Threads -> {"first", "rest"}] /\ info' \subseteq Sockets
    BY <1>2, <2>1 DEF SendPart, TypeOK
  <2> QED
    BY <1>2, <2>2, <2>4, <2>5 DEF SendPart, TypeOK, shared
<1>3. CASE SendFails(t)
  <2>1. "unlock_failed" \in Labels[t]
    BY DEF Threads, Labels, SendLabels
  <2> QED
    BY <1>3, <2>1, Goes DEF SendFails, TypeOK, shared, net
<1>4. CASE Unlock(t)
  <2>1. "shutdown" \in Labels[t]
    BY DEF Threads, Labels, CloseLabels
  <2> QED
    BY <1>4, <2>1, Goes, AfterSendType DEF Unlock, TypeOK, shared, net
<1>5. CASE Shutdown(t)
  <2>1. "closesocket" \in Labels[t]
    BY DEF Threads, Labels, CloseLabels
  <2>2. sock' \in [Sockets -> SockStates]
    BY <1>5 DEF Shutdown, TypeOK, SockStates
  <2> QED
    BY <1>5, <2>1, <2>2, Goes DEF Shutdown, TypeOK, shared
<1>6. CASE Closesocket(t)
  <2>1. "invalidate" \in Labels[t]
    BY DEF Threads, Labels, CloseLabels
  <2>2. CASE Current
    <3>1. m_ConnSock \in Sockets
      BY <2>2 DEF Current, TypeOK
    <3> QED
      BY <1>6, <2>1, <2>2, <3>1, Goes, FreeType DEF Closesocket, TypeOK, shared
  <2>3. CASE ~Current
    BY <1>6, <2>1, <2>3, Goes DEF Closesocket, TypeOK, shared, net
  <2> QED
    BY <2>2, <2>3
<1>7. CASE Invalidate(t)
  <2>1. "disconnected" \in Labels[t]
    BY DEF Threads, Labels, CloseLabels
  <2> QED
    BY <1>7, <2>1, Goes DEF Invalidate, TypeOK, net
<1>8. CASE Disconnected(t)
  BY <1>8, AfterSendType, Goes DEF Disconnected, TypeOK, net
<1> QED
  BY <1>1, <1>2, <1>3, <1>4, <1>5, <1>6, <1>7, <1>8 DEF Send, Close

(* The steps of MonitorConnection and CreateConnection *)
LEMMA MonitorType ==
  ASSUME ConnectAssumption, TypeOK, MonitorConnection
  PROVE  TypeOK'
<1> DEFINE label == {"lock", "shutdown", "monitor", "check", "create", "connect",
"select",
                     "select_failed", "connected", "recheck"}
<1>1. /\ "conn" \in Threads
      /\ \A l \in label : l \in Labels["conn"]
  BY DEF Threads, Labels, SendLabels, CloseLabels
<1>2. ASSUME \E l \in label : Goto("conn", l)
      PROVE  /\ pc' \in [Threads -> Labels.ui \cup Labels.conn]
             /\ \A u \in Threads : pc'[u] \in Labels[u]
  BY <1>1, <1>2, Goes
<1>3. CASE Monitor
  <2>1. msg' \in [Threads -> Commands \cup {NoMsg, OddData}]
        /\ \A u \in Threads : msg'[u] \in Msgs[u]
    BY <1>3 DEF Monitor, TypeOK, Msgs, Commands, Threads
  <2> QED
    BY <1>2, <1>3, <2>1 DEF Monitor, TypeOK, shared, net
<1>4. CASE Check
  BY <1>2, <1>4 DEF Check, TypeOK, shared, net
<1>5. CASE CreateSocket
  <2>1. PICK s \in Sockets : Allocate(s) /\ m_ConnSock' = s
    BY <1>5 DEF CreateSocket
  <2> QED
    BY <1>2, <1>5, <2>1, FreeType DEF CreateSocket, TypeOK
<1>6. CASE SocketFails \/ KeepSocket \/ ConnectFails
  BY <1>2, <1>6 DEF SocketFails, KeepSocket, ConnectFails, TypeOK, shared, net
<1>7. CASE Connect
  <2>1. sock' \in [Sockets -> SockStates]
    BY <1>7 DEF Connect, TypeOK, SockStates
  <2> QED
    BY <1>2, <1>7, <2>1 DEF Connect, TypeOK, shared
<1>8. CASE Select
  BY <1>2, <1>8 DEF Select, TypeOK, shared, net
<1>9. CASE SelectFailed
  <2>1. CASE Current
    <3>1. m_ConnSock \in Sockets
      BY <2>1 DEF Current, TypeOK
    <3> QED
      BY <1>2, <1>9, <2>1, <3>1, FreeType DEF SelectFailed, TypeOK
  <2>2. CASE ~Current
    BY <1>2, <1>9, <2>2 DEF SelectFailed, TypeOK, net
  <2> QED
    BY <2>1, <2>2
<1>10. CASE Connected
  BY <1>2, <1>10 DEF Connected, TypeOK, net
<1>11. CASE Recheck
  <2>1. msg' \in [Threads -> Commands \cup {NoMsg, OddData}]
        /\ \A u \in Threads : msg'[u] \in Msgs[u]
    BY <1>11 DEF Recheck, TypeOK, Msgs, Commands, Threads
  <2> QED
    BY <1>2, <1>11, <2>1 DEF Recheck, TypeOK, shared, net
<1> QED
  BY <1>3, <1>4, <1>5, <1>6, <1>7, <1>8, <1>9, <1>10, <1>11 DEF MonitorConnection,
     CreateConnection

(* The message loop's own steps, the start of the threads, and Winsock *)
LEMMA LoopType ==
  ASSUME ConnectAssumption, TypeOK, LoopStep
  PROVE  TypeOK'
<1>1. /\ "ui" \in Threads /\ "conn" \in Threads
      /\ \A l \in {"wait", "idle", "visits", "recv", "lock", "shutdown"} :
            l \in Labels["ui"]
      /\ \A l \in {"init", "monitor", "exited"} : l \in Labels["conn"]
  BY DEF Threads, Labels, SendLabels, CloseLabels
<1>2. CASE Start
  <2>1. CASE Goto("ui", "idle")
    BY <1>1, <1>2, <2>1, Goes DEF Start, TypeOK, shared, net
  <2>2. CASE pc' = [pc EXCEPT !["ui"] = "wait", !["conn"] = "init"]
    <3>1. /\ pc' \in [Threads -> Labels.ui \cup Labels.conn]
          /\ \A u \in Threads : pc'[u] \in Labels[u]
      BY <2>2 DEF TypeOK, Threads, Labels
    <3> QED
      BY <1>2, <3>1 DEF Start, TypeOK, shared, net
  <2> QED
    BY <1>2, <2>1, <2>2 DEF Start
<1>3. CASE ThreadInit
  BY <1>1, <1>3, Goes DEF ThreadInit, TypeOK, shared, net
<1>4. CASE StartReturns
  BY <1>1, <1>4, Goes DEF StartReturns, TypeOK, shared, net
<1>5. CASE OnClose
  BY <1>1, <1>5, Goes DEF OnClose, TypeOK, shared, net
<1>6. CASE OnRead
  <2>1. /\ pc' \in [Threads -> Labels.ui \cup Labels.conn]
        /\ \A u \in Threads : pc'[u] \in Labels[u]
    BY <1>1, <1>6, Goes DEF OnRead, TypeOK
  <2>2. msg' \in [Threads -> Commands \cup {NoMsg, OddData}]
        /\ \A u \in Threads : msg'[u] \in Msgs[u]
    BY <1>6 DEF OnRead, TypeOK, Msgs, Commands, Threads
  <2> QED
    BY <1>6, <2>1, <2>2 DEF OnRead, TypeOK, shared, net
<1>7. CASE SendVisit
  BY <1>1, <1>7, Goes DEF SendVisit, TypeOK, shared, net
<1>8. CASE HistoryDone \/ HistoryTimer \/ RecvOdd
  <2>1. msg' \in [Threads -> Commands \cup {NoMsg, OddData}]
        /\ \A u \in Threads : msg'[u] \in Msgs[u]
    BY <1>8 DEF HistoryDone, HistoryTimer, RecvOdd, TypeOK, Msgs, Commands, Threads
  <2> QED
    BY <1>1, <1>8, <2>1, Goes DEF HistoryDone, HistoryTimer, RecvOdd, TypeOK, shared,
       net
<1>9. CASE Winsock
  <2>1. PICK s \in Sockets : ServerGone(s) \/ PostRead(s) \/ PostClose(s)
    BY <1>9 DEF Winsock
  <2>2. CASE ServerGone(s)
    BY <2>2 DEF ServerGone, TypeOK, shared
  <2>3. CASE PostRead(s)
    BY <2>3 DEF PostRead, TypeOK, shared, net, Event
  <2>4. CASE PostClose(s)
    BY <2>4 DEF PostClose, TypeOK, shared, Event
  <2> QED
    BY <2>1, <2>2, <2>3, <2>4
<1> QED
  BY <1>2, <1>3, <1>4, <1>5, <1>6, <1>7, <1>8, <1>9 DEF LoopStep, UpdateURL

-----------------------------------------------------------------------------
(* The critical section *)

Inside == {"send", "unlock", "unlock_failed"}

(* There is no connection thread until Start has created it. *)
StartFirst == At("ui", "start") => At("conn", "none")

(* A step of one thread that leaves m_SyncConn alone and goes neither into   *)
(* SendData nor out of it.                                                   *)
LEMMA StaysOutside ==
  ASSUME TypeOK, LockOwner, UNCHANGED m_SyncConn, NEW t \in Threads, pc[t] \notin Inside,
         \A u \in Threads : u # t => pc'[u] = pc[u],
         pc'[t] \notin Inside
  PROVE  LockOwner'
BY DEF LockOwner, Inside

LEMMA SendStep ==
  ASSUME TypeOK, LockOwner, NEW t \in Threads, Send(t)
  PROVE  LockOwner'
<1>0. t # "none"
  BY DEF Threads
<1>1. CASE Lock(t)
  <2>1. pc'[t] = "send" /\ \A u \in Threads : u # t => pc'[u] = pc[u]
    BY <1>1, Goes DEF Lock, Threads, Labels, SendLabels, Goto, TypeOK
  <2>2. \A u \in Threads : pc[u] \notin Inside
    BY <1>1 DEF Lock, LockOwner, Inside, Threads
  <2> QED
    BY <1>1, <2>1, <2>2 DEF Lock, LockOwner, Inside
<1>2. CASE SendPart(t)
  <2>1. pc'[t] \in {"send", "unlock"} /\ \A u \in Threads : u # t => pc'[u] = pc[u]
    BY <1>2 DEF SendPart, Goto, TypeOK, At
  <2> QED
    BY <1>2, <2>1 DEF SendPart, LockOwner, At, shared
<1>3. CASE SendFails(t)
  <2>1. pc'[t] = "unlock_failed" /\ \A u \in Threads : u # t => pc'[u] = pc[u]
    BY <1>3 DEF SendFails, Goto, TypeOK
  <2> QED
    BY <1>3, <2>1 DEF SendFails, LockOwner, At, shared
<1>4. CASE Unlock(t)
  <2>1. pc'[t] \notin Inside /\ \A u \in Threads : u # t => pc'[u] = pc[u]
    BY <1>4, AfterSendType DEF Unlock, Goto, TypeOK, Inside
  <2>2. m_SyncConn = t
    BY <1>4 DEF Unlock, LockOwner, At
  <2>3. \A u \in Threads : u # t => pc[u] \notin Inside
    BY <2>2 DEF LockOwner, Inside
  <2>4. m_SyncConn' = "none" /\ \A u \in Threads : u # "none"
    BY <1>4 DEF Unlock, Threads
  <2> QED
    BY <2>1, <2>3, <2>4 DEF LockOwner, Inside
<1> QED
  BY <1>1, <1>2, <1>3, <1>4 DEF Send

LEMMA OtherStep ==
  ASSUME TypeOK, LockOwner, StartFirst,
         (\E t \in Threads : Close(t)) \/ MonitorConnection \/ LoopStep
  PROVE  LockOwner'
<1>1. UNCHANGED m_SyncConn
  BY DEF Close, Shutdown, Closesocket, Invalidate, Disconnected, MonitorConnection,
     Monitor, Check, CreateConnection, CreateSocket, SocketFails, KeepSocket, Connect,
     ConnectFails, Select, SelectFailed, Connected, Recheck, Start, ThreadInit,
     StartReturns, OnClose, OnRead, RecvOdd, UpdateURL, SendVisit, HistoryDone,
     HistoryTimer, LoopStep, Winsock, ServerGone, PostRead, PostClose, shared
<1>2. ASSUME NEW t \in Threads, Close(t)
      PROVE  LockOwner'
  <2>1. /\ pc[t] \notin Inside
        /\ pc'[t] \notin Inside
        /\ \A u \in Threads : u # t => pc'[u] = pc[u]
    BY <1>2, AfterSendType DEF Close, Shutdown, Closesocket, Invalidate, Disconnected,
       At, Goto, Inside, TypeOK
  <2> QED
    BY <1>1, <2>1, StaysOutside
<1>3. CASE MonitorConnection
  <2>1. /\ pc["conn"] \notin Inside
        /\ pc'["conn"] \notin Inside
        /\ \A u \in Threads : u # "conn" => pc'[u] = pc[u]
    BY <1>3 DEF MonitorConnection, Monitor, Check, CreateConnection, CreateSocket,
       SocketFails, KeepSocket, Connect, ConnectFails, Select, SelectFailed, Connected,
       Recheck, At, Goto, Inside, TypeOK, Threads
  <2> QED
    BY <1>1, <2>1, StaysOutside DEF Threads
<1>4. CASE StartReturns \/ OnClose \/ OnRead \/ RecvOdd \/ UpdateURL \/ HistoryTimer
  <2>1. /\ pc["ui"] \notin Inside
        /\ pc'["ui"] \notin Inside
        /\ \A u \in Threads : u # "ui" => pc'[u] = pc[u]
    BY <1>4 DEF StartReturns, OnClose, OnRead, RecvOdd, UpdateURL, SendVisit,
       HistoryDone, HistoryTimer, At, Goto, Inside, TypeOK, Threads
  <2> QED
    BY <1>1, <2>1, StaysOutside DEF Threads
<1>5. CASE Start \/ ThreadInit
  <2>1. pc["conn"] \notin Inside \/ Start
    BY <1>5 DEF ThreadInit, At, Inside
  <2>2. CASE ThreadInit
    BY <1>1, <2>2, StaysOutside DEF ThreadInit, At, Goto, Inside, TypeOK, Threads
  <2>3. CASE Start /\ Goto("ui", "idle")
    BY <1>1, <2>3, StaysOutside DEF Start, At, Goto, Inside, TypeOK, Threads
  <2>4. CASE pc' = [pc EXCEPT !["ui"] = "wait", !["conn"] = "init"] /\ Start
    <3>1. \A u \in Threads : pc[u] \notin Inside /\ pc'[u] \notin Inside
      BY <2>4 DEF Start, StartFirst, At, Inside, TypeOK, Threads
    <3> QED
      BY <1>1, <3>1 DEF LockOwner, Inside
  <2> QED
    BY <1>5, <2>2, <2>3, <2>4 DEF Start
<1>6. CASE Winsock
  <2>1. UNCHANGED pc
    BY <1>6 DEF Winsock, ServerGone, PostRead, PostClose
  <2> QED
    BY <1>1, <2>1 DEF LockOwner
<1> QED
  BY <1>2, <1>3, <1>4, <1>5, <1>6 DEF LoopStep

LEMMA StartStep ==
  ASSUME TypeOK, StartFirst, Next
  PROVE  StartFirst'
<1> SUFFICES ASSUME At("ui", "start")'
             PROVE  At("conn", "none")'
  BY DEF StartFirst
<1>1. ASSUME NEW t \in Threads, Send(t) \/ Close(t)
      PROVE  At("conn", "none")'
  <2>1. /\ pc[t] \in SendLabels \cup CloseLabels
        /\ pc'[t] # "start"
        /\ \A u \in Threads : u # t => pc'[u] = pc[u]
    BY <1>1, AfterSendType DEF Send, Close, Lock, SendPart, SendFails, Unlock, Shutdown,
       Closesocket, Invalidate, Disconnected, At, Goto, TypeOK, SendLabels, CloseLabels
  <2>2. t = "conn" /\ pc["ui"] = "start"
    BY <2>1 DEF At, Threads
  <2> QED
    BY <2>1, <2>2 DEF StartFirst, At, SendLabels, CloseLabels
<1>2. CASE MonitorConnection
  BY <1>2 DEF MonitorConnection, Monitor, Check, CreateConnection, CreateSocket,
     SocketFails, KeepSocket, Connect, ConnectFails, Select, SelectFailed, Connected,
     Recheck, At, Goto, TypeOK, Threads, StartFirst
<1>3. CASE \/ Start \/ ThreadInit \/ StartReturns \/ OnClose \/ OnRead \/ RecvOdd \/ UpdateURL
           \/ HistoryTimer
  BY <1>3 DEF Start, ThreadInit, StartReturns, OnClose, OnRead, RecvOdd, UpdateURL,
     SendVisit, HistoryDone, HistoryTimer, At, Goto, TypeOK, Threads, StartFirst
<1>4. CASE Winsock
  BY <1>4 DEF Winsock, ServerGone, PostRead, PostClose, At, StartFirst
<1> QED
  BY <1>1, <1>2, <1>3, <1>4 DEF Next, ConnThread, UIHandlers, Threads

-----------------------------------------------------------------------------
LockInv == TypeOK /\ LockOwner /\ StartFirst

LEMMA LockInvInit ==
  ASSUME ConnectAssumption, Init
  PROVE  LockInv
<1>1. pc["ui"] = "start" /\ pc["conn"] = "none"
  BY DEF Init, Threads
<1>2. /\ pc \in [Threads -> Labels.ui \cup Labels.conn]
      /\ msg \in [Threads -> Commands \cup {NoMsg, OddData}]
      /\ part \in [Threads -> {"first", "rest"}]
  BY DEF Init, Threads, Labels, Commands
<1>3. \A t \in Threads : pc[t] \in Labels[t] /\ msg[t] \in Msgs[t]
  BY <1>1 DEF Init, Threads, Labels, Msgs
<1>4. queue \in Seq(Event)
  BY DEF Init
<1>5. /\ sock \in [Sockets -> SockStates]
      /\ gone \in [Sockets -> BOOLEAN]
      /\ posted \in [Sockets -> BOOLEAN]
      /\ stream \in [Sockets -> Streams]
      /\ info \subseteq Sockets
  BY DEF Init, SockStates, Streams
<1>6. TypeOK
  BY <1>2, <1>3, <1>4, <1>5 DEF Init, TypeOK
<1>7. LockOwner /\ StartFirst
  BY <1>1 DEF Init, LockOwner, StartFirst, At, Threads
<1> QED
  BY <1>6, <1>7 DEF LockInv

LEMMA LockInvStep ==
  ASSUME ConnectAssumption, LockInv, [Next]_vars
  PROVE  LockInv'
<1>1. CASE Next
  <2>1. (\E t \in Threads : Send(t) \/ Close(t)) \/ MonitorConnection \/ LoopStep
    BY <1>1, Steps
  <2>2. TypeOK'
    BY <2>1, ThreadStepType, MonitorType, LoopType DEF LockInv
  <2>3. LockOwner'
    BY <2>1, SendStep, OtherStep DEF LockInv
  <2>4. StartFirst'
    BY <1>1, StartStep DEF LockInv
  <2> QED
    BY <2>2, <2>3, <2>4 DEF LockInv
<1>2. CASE UNCHANGED vars
  BY <1>2 DEF LockInv, TypeOK, LockOwner, StartFirst, At, vars
<1> QED
  BY <1>1, <1>2

(* Every variable keeps its type, and m_SyncConn does its work: a thread     *)
(* owns it exactly while it is in SendData or about to unlock, so the two    *)
(* threads are never in SendData together and no failing path keeps it.      *)
THEOREM LockCorrect ==
  Spec => [](TypeOK /\ LockOwner)
<1>1. Init => LockInv
  BY LockInvInit, ConnectAssumption
<1>2. LockInv /\ [Next]_vars => LockInv'
  BY LockInvStep, ConnectAssumption
<1>3. LockInv => TypeOK /\ LockOwner
  BY DEF LockInv
<1> QED
  BY <1>1, <1>2, <1>3, PTL DEF Spec

(* Every variable keeps its type, whatever the two threads, the server and   *)
(* Winsock do.                                                               *)
THEOREM ConnectTypeCorrect == Spec => []TypeOK
BY LockCorrect, PTL

-----------------------------------------------------------------------------
(* Whole messages *)

(* While no call fails, the connection thread closes nothing, *)
NoFailurePath ==
  /\ pc["conn"] \notin {"unlock_failed", "select_failed"} \cup CloseLabels
  /\ pc["ui"] # "unlock_failed"

(* a thread with half a message sent is still in SendData, *)
RestIsSending == \A t \in Threads : part[t] = "rest" => pc[t] = "send"

(* the UI thread's connection stays up meanwhile, since only the connection  *)
(* thread, which closes nothing, could replace it,                           *)
UIStaysConnected == part["ui"] = "rest" => IsConnected

(* half a message is on the current connection, as long as that is up,       *)
HalfIsCurrent ==
  \A t \in Threads : (part[t] = "rest" /\ IsConnected) =>
    /\ stream[m_ConnSock] = t
    /\ \A s \in Sockets : s # m_ConnSock => stream[s] = Boundary

(* and no other connection was left with half a message.                     *)
NoHalfLeft ==
  (\A t \in Threads : part[t] = "first") => \A s \in Sockets : stream[s] = Boundary

Whole ==
  /\ NoFailurePath
  /\ RestIsSending
  /\ UIStaysConnected
  /\ HalfIsCurrent
  /\ NoHalfLeft
  /\ \A s \in Sockets : stream[s] # "broken"

WholeInv == ~callFailed => Whole

(* A step that touches neither the connection nor the stream of messages.    *)
LEMMA QuietStep ==
  ASSUME Whole, UNCHANGED <<m_ConnSock, sock, part, stream>>, NoFailurePath',
         \A t \in Threads : pc[t] = "send" => pc'[t] = "send"
  PROVE  Whole'
BY DEF Whole, RestIsSending, UIStaysConnected, HalfIsCurrent, NoHalfLeft, IsConnected,
   Current

(* A step after which m_ConnSock is not connected: closing and socket().     *)
LEMMA UnconnectedStep ==
  ASSUME Whole, UNCHANGED part, NoFailurePath', ~IsConnected', part["ui"] = "first",
         \A t \in Threads : pc[t] = "send" => pc'[t] = "send",
         \A s \in Sockets : stream'[s] \in {stream[s], Boundary}
  PROVE  Whole'
BY DEF Whole, RestIsSending, UIStaysConnected, HalfIsCurrent, NoHalfLeft, Boundary

LEMMA WholeSend ==
  ASSUME LockInv, Whole, NEW t \in Threads, Send(t), ~callFailed'
  PROVE  Whole'
<1>1. CASE Lock(t)
  <2>1. /\ \A u \in Threads : pc[u] = "send" => pc'[u] = "send"
        /\ NoFailurePath'
    BY <1>1 DEF Lock, At, Goto, LockInv, TypeOK, Whole, NoFailurePath, CloseLabels,
       Threads
  <2> QED
    BY <1>1, <2>1, QuietStep DEF Lock, net
<1>2. CASE SendPart(t)
  <2>1. m_ConnSock \in Sockets /\ IsConnected /\ IsConnected'
    BY <1>2 DEF SendPart, IsConnected, Current, LockInv, TypeOK, shared
  <2>2. pc[t] = "send" /\ \A u \in Threads : u # t => (pc[u] # "send" /\ part[u] = "first")
    BY <1>2 DEF SendPart, At, LockInv, LockOwner, TypeOK, Whole, RestIsSending
  <2>3. NoFailurePath'
    BY <1>2 DEF SendPart, Goto, LockInv, TypeOK, Whole, NoFailurePath, CloseLabels,
       Threads
  <2>4. CASE part[t] = "first"
    <3>1. \A s \in Sockets : stream[s] = Boundary
      BY <2>2, <2>4 DEF Whole, NoHalfLeft
    <3>2. Continue(Boundary, t, "first") = t
      BY DEF Continue
    <3>3. /\ part' = [part EXCEPT ![t] = "rest"]
          /\ pc' = pc
          /\ m_ConnSock' = m_ConnSock
          /\ stream' = [stream EXCEPT ![m_ConnSock] = t]
      BY <1>2, <2>4, <2>1, <3>1, <3>2 DEF SendPart, shared
    <3>4. /\ part'[t] = "rest"
          /\ \A u \in Threads : u # t => part'[u] = "first"
      BY <2>2, <3>3 DEF LockInv, TypeOK
    <3>5. /\ stream'[m_ConnSock] = t
          /\ \A s \in Sockets : s # m_ConnSock => stream'[s] = Boundary
      BY <2>1, <3>1, <3>3 DEF LockInv, TypeOK
    <3>6. RestIsSending' /\ UIStaysConnected' /\ NoHalfLeft'
      BY <2>1, <2>2, <3>3, <3>4 DEF RestIsSending, UIStaysConnected, NoHalfLeft
    <3>7. HalfIsCurrent'
      BY <3>3, <3>4, <3>5 DEF HalfIsCurrent
    <3>8. \A s \in Sockets : stream'[s] # "broken"
      BY <3>5 DEF Threads, Boundary
    <3> QED
      BY <2>3, <3>6, <3>7, <3>8 DEF Whole
  <2>5. CASE part[t] = "rest"
    <3>1. /\ stream[m_ConnSock] = t
          /\ \A s \in Sockets : s # m_ConnSock => stream[s] = Boundary
      BY <2>1, <2>5 DEF Whole, HalfIsCurrent
    <3>2. Continue(t, t, "rest") = Boundary
      BY DEF Continue
    <3>3. /\ part' = [part EXCEPT ![t] = "first"]
          /\ stream' = [stream EXCEPT ![m_ConnSock] = Boundary]
      BY <1>2, <2>5, <3>1, <3>2 DEF SendPart
    <3>4. \A u \in Threads : part'[u] = "first"
      BY <2>2, <3>3 DEF LockInv, TypeOK
    <3>5. \A s \in Sockets : stream'[s] = Boundary
      BY <3>1, <3>3 DEF LockInv, TypeOK
    <3> QED
      BY <2>3, <3>4, <3>5 DEF Whole, RestIsSending, UIStaysConnected, HalfIsCurrent,
         NoHalfLeft, Boundary, Threads
  <2> QED
    BY <2>4, <2>5 DEF LockInv, TypeOK
<1>3. CASE SendFails(t)
  BY <1>3 DEF SendFails
<1>4. CASE Unlock(t)
  <2>1. /\ \A u \in Threads : pc[u] = "send" => pc'[u] = "send"
        /\ NoFailurePath'
    BY <1>4, AfterSendType DEF Unlock, At, Goto, LockInv, TypeOK, Whole, NoFailurePath,
       CloseLabels, Threads
  <2> QED
    BY <1>4, <2>1, QuietStep DEF Unlock, net
<1> QED
  BY <1>1, <1>2, <1>3, <1>4 DEF Send

(* Only the UI thread closes, and it is then in no message of its own. *)
LEMMA WholeClose ==
  ASSUME LockInv, Whole, NEW t \in Threads, Close(t)
  PROVE  Whole'
<1>1. t = "ui" /\ part["ui"] = "first"
  BY DEF Close, Shutdown, Closesocket, Invalidate, Disconnected, At, Whole,
     NoFailurePath, CloseLabels, RestIsSending, Threads, LockInv, TypeOK
<1>2. /\ \A u \in Threads : pc[u] = "send" => pc'[u] = "send"
      /\ NoFailurePath'
  BY <1>1, AfterSendType DEF Close, Shutdown, Closesocket, Invalidate, Disconnected, At,
     Goto, LockInv, TypeOK, Whole, NoFailurePath, CloseLabels, Threads
<1>3. CASE Shutdown(t)
  <2>1. ~IsConnected'
    BY <1>3 DEF Shutdown, IsConnected, Current, LockInv, TypeOK, shared
  <2> QED
    BY <1>1, <1>2, <1>3, <2>1, UnconnectedStep DEF Shutdown
<1>4. CASE Closesocket(t)
  <2>1. ~IsConnected'
    BY <1>4 DEF Closesocket, Free, IsConnected, Current, LockInv, TypeOK, shared
  <2>2. \A s \in Sockets : stream'[s] \in {stream[s], Boundary}
    BY <1>4 DEF Closesocket, Free, LockInv, TypeOK, net
  <2> QED
    BY <1>1, <1>2, <1>4, <2>1, <2>2, UnconnectedStep DEF Closesocket
<1>5. CASE Invalidate(t)
  <2>1. ~IsConnected'
    BY <1>5 DEF Invalidate, IsConnected, Current
  <2> QED
    BY <1>1, <1>2, <1>5, <2>1, UnconnectedStep DEF Invalidate, net
<1>6. CASE Disconnected(t)
  BY <1>2, <1>6, QuietStep DEF Disconnected, net
<1> QED
  BY <1>3, <1>4, <1>5, <1>6 DEF Close

LEMMA WholeMonitor ==
  ASSUME LockInv, Whole, MonitorConnection, ~callFailed'
  PROVE  Whole'
<1>1. /\ pc["conn"] # "send"
      /\ \A t \in Threads : pc[t] = "send" => pc'[t] = "send"
      /\ NoFailurePath'
  BY DEF MonitorConnection, Monitor, Check, CreateConnection, CreateSocket, SocketFails,
     KeepSocket, Connect, ConnectFails, Select, SelectFailed, Connected, Recheck, At,
     Goto, LockInv, TypeOK, Threads, Whole, NoFailurePath, CloseLabels
<1>2. CASE Monitor \/ Check \/ SocketFails \/ KeepSocket \/ ConnectFails \/ Select
           \/ Connected \/ Recheck
  BY <1>1, <1>2, QuietStep DEF Monitor, Check, SocketFails, KeepSocket, ConnectFails,
     Select, Connected, Recheck, shared, net
<1>3. CASE CreateSocket
  <2>1. PICK s \in Sockets : Allocate(s) /\ m_ConnSock' = s
    BY <1>3 DEF CreateSocket
  <2>2. ~IsConnected'
    BY <2>1 DEF Allocate, IsConnected, LockInv, TypeOK
  <2>3. part["ui"] = "first"
    BY <1>3 DEF CreateSocket, Whole, UIStaysConnected, IsConnected, LockInv, TypeOK,
       Threads
  <2>4. \A r \in Sockets : stream'[r] \in {stream[r], Boundary}
    BY <2>1 DEF Allocate, LockInv, TypeOK
  <2> QED
    BY <1>1, <1>3, <2>2, <2>3, <2>4, UnconnectedStep DEF CreateSocket
<1>4. CASE Connect
  <2>1. \A t \in Threads : part[t] = "first"
    BY <1>1, <1>4 DEF Connect, Whole, UIStaysConnected, RestIsSending, IsConnected,
       LockInv, TypeOK, Threads
  <2> QED
    BY <1>1, <1>4, <2>1 DEF Connect, Whole, RestIsSending, UIStaysConnected,
       HalfIsCurrent, NoHalfLeft, Threads
<1>5. CASE SelectFailed
  BY <1>5 DEF SelectFailed, At, Whole, NoFailurePath
<1> QED
  BY <1>2, <1>3, <1>4, <1>5 DEF MonitorConnection, CreateConnection

LEMMA WholeLoop ==
  ASSUME LockInv, Whole, LoopStep
  PROVE  Whole'
<1>1. UNCHANGED <<m_ConnSock, sock, part, stream>>
  BY DEF Start, ThreadInit, StartReturns, OnClose, OnRead, RecvOdd, UpdateURL,
     SendVisit, HistoryDone, HistoryTimer, LoopStep, Winsock, ServerGone, PostRead,
     PostClose, shared, net
<1>2. /\ \A t \in Threads : pc[t] = "send" => pc'[t] = "send"
      /\ NoFailurePath'
  <2>1. CASE Start
    BY <2>1 DEF Start, Goto, At, LockInv, StartFirst, TypeOK, Threads, Whole,
       NoFailurePath, CloseLabels
  <2>2. CASE ThreadInit \/ StartReturns \/ OnClose \/ OnRead \/ RecvOdd \/ UpdateURL \/ HistoryTimer
    BY <2>2 DEF ThreadInit, StartReturns, OnClose, OnRead, RecvOdd, UpdateURL,
       SendVisit, HistoryDone, HistoryTimer, Goto, At, LockInv, TypeOK, Threads, Whole,
       NoFailurePath, CloseLabels
  <2>3. CASE Winsock
    BY <2>3 DEF Winsock, ServerGone, PostRead, PostClose, Whole, NoFailurePath
  <2> QED
    BY <2>1, <2>2, <2>3 DEF LoopStep
<1> QED
  BY <1>1, <1>2, QuietStep

LEMMA WholeStep ==
  ASSUME LockInv, WholeInv, [Next]_vars
  PROVE  WholeInv'
<1>1. CASE Next
  <2> SUFFICES ASSUME ~callFailed'
               PROVE  Whole'
    BY DEF WholeInv
  <2>1. (\E t \in Threads : Send(t) \/ Close(t)) \/ MonitorConnection \/ LoopStep
    BY <1>1, Steps
  <2>2. callFailed => callFailed'
    BY <2>1 DEF Send, Lock, SendPart, SendFails, Unlock, Close, Shutdown, Closesocket,
       Invalidate, Disconnected, MonitorConnection, Monitor, Check, CreateConnection,
       CreateSocket, SocketFails, KeepSocket, Connect, ConnectFails, Select,
       SelectFailed, Connected, Recheck, Start, ThreadInit, StartReturns, OnClose,
       OnRead, RecvOdd, UpdateURL, SendVisit, HistoryDone, HistoryTimer, LoopStep,
       Winsock, ServerGone, PostRead, PostClose
  <2>3. Whole
    BY <2>2 DEF WholeInv
  <2> QED
    BY <2>1, <2>3, WholeSend, WholeClose, WholeMonitor, WholeLoop
<1>2. CASE UNCHANGED vars
  BY <1>2 DEF WholeInv, Whole, NoFailurePath, RestIsSending, UIStaysConnected,
     HalfIsCurrent, NoHalfLeft, IsConnected, Current, vars
<1> QED
  BY <1>1, <1>2

(* As long as no call has failed, no connection carries a broken message,    *)
(* although two threads send on it, each part on whatever m_ConnSock is, and *)
(* the UI thread closes it under the other's hands.                          *)
THEOREM WholeUnlessFailedCorrect ==
  Spec => []WholeUnlessFailed
<1>1. Init => LockInv /\ WholeInv
  <2>1. Init => WholeInv
    BY DEF Init, WholeInv, Whole, NoFailurePath, RestIsSending, UIStaysConnected,
       HalfIsCurrent, NoHalfLeft, CloseLabels, Threads, Boundary
  <2> QED
    BY <2>1, LockInvInit, ConnectAssumption
<1>2. LockInv /\ WholeInv /\ [Next]_vars => (LockInv /\ WholeInv)'
  BY LockInvStep, WholeStep, ConnectAssumption
<1>3. WholeInv => WholeUnlessFailed
  BY DEF WholeInv, Whole, WholeUnlessFailed
<1> QED
  BY <1>1, <1>2, <1>3, PTL DEF Spec

-----------------------------------------------------------------------------
(* A connection the client believes in is registered *)

(* The connection thread connects only while m_bConnect is FALSE, *)
ConnectingIsNot ==
  pc["conn"] \in {"create", "connect", "select", "select_failed",
  "connected"} => ~m_bConnect

(* and what it has closed itself is not connected again until it does so.    *)
ClosedStaysClosed ==
  pc["conn"] \in {"invalidate", "disconnected"} => ~IsConnected

(* CLIENTINFO for the new connection is still to be sent, or has failed and  *)
(* the connection will be closed for it.                                     *)
Pending ==
  \/ pc["conn"] = "recheck"
  \/ /\ msg["conn"] = "VCM_CLIENTINFO"
     /\ pc["conn"] \in {"lock", "send", "unlock_failed", "shutdown", "closesocket"}

RegisteredUnlessPending ==
  (m_bConnect /\ IsConnected /\ ~Pending) => m_ConnSock \in info

RegInv == ConnectingIsNot /\ ClosedStaysClosed /\ RegisteredUnlessPending

(* A step that changes nothing but where the UI thread is. *)
LEMMA UIStep ==
  ASSUME RegInv, UNCHANGED <<m_ConnSock, sock, info>>, pc'["conn"] = pc["conn"],
         msg'["conn"] = msg["conn"], m_bConnect' => m_bConnect
  PROVE  RegInv'
BY DEF RegInv, ConnectingIsNot, ClosedStaysClosed, RegisteredUnlessPending, Pending,
   IsConnected, Current

LEMMA RegSend ==
  ASSUME LockInv, RegInv, NEW t \in Threads, Send(t)
  PROVE  RegInv'
<1>1. UNCHANGED <<m_ConnSock, m_bConnect, sock, msg>>
  BY DEF Send, Lock, SendPart, SendFails, Unlock, shared, net
<1>2. CASE t = "ui"
  <2>1. pc'["conn"] = pc["conn"]
    BY <1>2 DEF Send, Lock, SendPart, SendFails, Unlock, Goto, LockInv, TypeOK, Threads
  <2>2. info' = info
    BY <1>2 DEF Send, Lock, SendPart, SendFails, Unlock, LockInv, TypeOK, Msgs, NoMsg,
       OddData, net, Threads
  <2> QED
    BY <1>1, <2>1, <2>2, UIStep
<1>3. CASE t = "conn"
  <2>1. CASE Lock("conn")
    <3>1. pc["conn"] = "lock" /\ pc'["conn"] = "send" /\ info' = info
      BY <2>1 DEF Lock, At, Goto, LockInv, TypeOK, Threads, net
    <3> QED
      BY <1>1, <3>1 DEF RegInv, ConnectingIsNot, ClosedStaysClosed,
         RegisteredUnlessPending, Pending, IsConnected, Current
  <2>2. CASE SendPart("conn")
    <3>1. /\ pc["conn"] = "send"
          /\ \/ pc'["conn"] = "send" /\ info' = info
             \/ pc'["conn"] = "unlock" /\ msg["conn"] = "VCM_CLIENTINFO"
                  /\ info' = info \cup {m_ConnSock}
             \/ pc'["conn"] = "unlock" /\ msg["conn"] # "VCM_CLIENTINFO" /\ info' = info
      BY <2>2 DEF SendPart, At, Goto, LockInv, TypeOK, Threads
    <3> QED
      BY <1>1, <3>1 DEF RegInv, ConnectingIsNot, ClosedStaysClosed,
         RegisteredUnlessPending, Pending, IsConnected, Current
  <2>3. CASE SendFails("conn")
    <3>1. pc["conn"] = "send" /\ pc'["conn"] = "unlock_failed" /\ info' = info
      BY <2>3 DEF SendFails, At, Goto, LockInv, TypeOK, Threads, net
    <3> QED
      BY <1>1, <3>1 DEF RegInv, ConnectingIsNot, ClosedStaysClosed,
         RegisteredUnlessPending, Pending, IsConnected, Current
  <2>4. CASE Unlock("conn")
    <3>1. AfterSend("conn") \in {"check", "monitor"}
      BY AfterSendType DEF LockInv, Labels, Threads, SendLabels, CloseLabels
    <3>2. /\ \/ pc["conn"] = "unlock" /\ pc'["conn"] \in {"check", "monitor"}
             \/ pc["conn"] = "unlock_failed" /\ pc'["conn"] = "shutdown"
          /\ info' = info
      BY <2>4, <3>1 DEF Unlock, At, Goto, LockInv, TypeOK, Threads, net
    <3> QED
      BY <1>1, <3>2 DEF RegInv, ConnectingIsNot, ClosedStaysClosed,
         RegisteredUnlessPending, Pending, IsConnected, Current
  <2> QED
    BY <1>3, <2>1, <2>2, <2>3, <2>4 DEF Send
<1> QED
  BY <1>2, <1>3 DEF Threads

(* Closing by either thread: a connection that is up afterwards was up, and  *)
(* is as registered as it was.                                               *)
LEMMA RegClose ==
  ASSUME LockInv, RegInv, NEW t \in Threads, Close(t)
  PROVE  RegInv'
<1>1. /\ IsConnected' => /\ IsConnected
                         /\ m_ConnSock' = m_ConnSock
                         /\ (m_ConnSock \in info => m_ConnSock' \in info')
      /\ (m_bConnect' => m_bConnect) /\ msg' = msg
  <2>1. CASE Shutdown(t)
    BY <2>1 DEF Shutdown, IsConnected, Current, LockInv, TypeOK, shared
  <2>2. CASE Closesocket(t)
    BY <2>2 DEF Closesocket, Free, IsConnected, Current, LockInv, TypeOK, shared, net
  <2>3. CASE Invalidate(t)
    BY <2>3 DEF Invalidate, IsConnected, Current
  <2>4. CASE Disconnected(t)
    BY <2>4 DEF Disconnected, IsConnected, Current, net
  <2> QED
    BY <2>1, <2>2, <2>3, <2>4 DEF Close
<1>2. CASE t = "ui"
  <2>1. pc'["conn"] = pc["conn"]
    BY <1>2 DEF Close, Shutdown, Closesocket, Invalidate, Disconnected, Goto, LockInv,
       TypeOK, Threads
  <2> QED
    BY <1>1, <2>1 DEF RegInv, ConnectingIsNot, ClosedStaysClosed,
       RegisteredUnlessPending, Pending
<1>3. CASE t = "conn"
  <2>1. CASE Shutdown("conn")
    <3>1. pc["conn"] = "shutdown" /\ pc'["conn"] = "closesocket"
      BY <2>1 DEF Shutdown, At, Goto, LockInv, TypeOK, Threads
    <3> QED
      BY <1>1, <3>1 DEF RegInv, ConnectingIsNot, ClosedStaysClosed,
         RegisteredUnlessPending, Pending
  <2>2. CASE Closesocket("conn")
    <3>1. pc'["conn"] = "invalidate"
      BY <2>2 DEF Closesocket, At, Goto, LockInv, TypeOK, Threads
    <3>2. ~IsConnected'
      BY <2>2 DEF Closesocket, Free, IsConnected, Current, LockInv, TypeOK, shared
    <3> QED
      BY <3>1, <3>2 DEF RegInv, ConnectingIsNot, ClosedStaysClosed,
         RegisteredUnlessPending
  <2>3. CASE Invalidate("conn")
    <3>1. pc'["conn"] = "disconnected"
      BY <2>3 DEF Invalidate, At, Goto, LockInv, TypeOK, Threads
    <3>2. ~IsConnected'
      BY <2>3 DEF Invalidate, IsConnected, Current
    <3> QED
      BY <3>1, <3>2 DEF RegInv, ConnectingIsNot, ClosedStaysClosed,
         RegisteredUnlessPending
  <2>4. CASE Disconnected("conn")
    <3>1. AfterSend("conn") \in {"check", "monitor"}
      BY AfterSendType DEF LockInv, Labels, Threads, SendLabels, CloseLabels
    <3>2. pc'["conn"] \in {"check", "monitor"} /\ ~m_bConnect'
      BY <2>4, <3>1 DEF Disconnected, At, Goto, LockInv, TypeOK, Threads
    <3> QED
      BY <3>2 DEF RegInv, ConnectingIsNot, ClosedStaysClosed, RegisteredUnlessPending
  <2> QED
    BY <1>3, <2>1, <2>2, <2>3, <2>4 DEF Close
<1> QED
  BY <1>2, <1>3 DEF Threads

LEMMA RegMonitor ==
  ASSUME LockInv, RegInv, MonitorConnection
  PROVE  RegInv'
<1> DEFINE connecting == {"create", "connect", "select", "select_failed", "connected"}
<1>1. CASE Monitor
  <2>1. /\ pc["conn"] = "monitor" /\ pc'["conn"] \in {"lock", "check"}
        /\ msg'["conn"] = "VCM_PING"
        /\ UNCHANGED <<m_ConnSock, m_bConnect, sock, info>>
    BY <1>1 DEF Monitor, At, Goto, LockInv, TypeOK, Threads, shared, net
  <2> QED
    BY <2>1 DEF RegInv, ConnectingIsNot, ClosedStaysClosed, RegisteredUnlessPending,
       Pending, IsConnected, Current
<1>2. CASE Check
  <2>1. /\ pc["conn"] = "check"
        /\ pc'["conn"] = IF m_bConnect THEN "monitor" ELSE "create"
        /\ UNCHANGED <<m_ConnSock, m_bConnect, sock, info>>
    BY <1>2 DEF Check, At, Goto, LockInv, TypeOK, Threads, shared, net
  <2> QED
    BY <2>1 DEF RegInv, ConnectingIsNot, ClosedStaysClosed, RegisteredUnlessPending,
       Pending, IsConnected, Current
<1>3. CASE \/ CreateSocket \/ SocketFails \/ KeepSocket \/ Connect \/ ConnectFails
           \/ Select \/ SelectFailed
  <2>1. /\ pc["conn"] \in connecting /\ pc'["conn"] \in connecting \cup {"monitor"}
        /\ m_bConnect' = m_bConnect
    BY <1>3 DEF CreateSocket, SocketFails, KeepSocket, Connect, ConnectFails, Select,
       SelectFailed, At, Goto, LockInv, TypeOK, Threads, shared
  <2>2. ~m_bConnect'
    BY <2>1 DEF RegInv, ConnectingIsNot
  <2> QED
    BY <2>1, <2>2 DEF RegInv, ConnectingIsNot, ClosedStaysClosed,
       RegisteredUnlessPending
<1>4. CASE Connected
  <2>1. pc'["conn"] = "recheck"
    BY <1>4 DEF Connected, Goto, LockInv, TypeOK, Threads
  <2> QED
    BY <2>1 DEF RegInv, ConnectingIsNot, ClosedStaysClosed, RegisteredUnlessPending,
       Pending
<1>5. CASE Recheck
  <2>1. /\ \/ pc'["conn"] \in {"lock", "shutdown"} /\ msg'["conn"] = "VCM_CLIENTINFO"
           \/ pc'["conn"] = "monitor" /\ ~m_bConnect'
    BY <1>5 DEF Recheck, Goto, LockInv, TypeOK, Threads, shared
  <2> QED
    BY <2>1 DEF RegInv, ConnectingIsNot, ClosedStaysClosed, RegisteredUnlessPending,
       Pending
<1> QED
  BY <1>1, <1>2, <1>3, <1>4, <1>5 DEF MonitorConnection, CreateConnection

LEMMA RegLoop ==
  ASSUME LockInv, RegInv, LoopStep
  PROVE  RegInv'
<1>1. UNCHANGED <<m_ConnSock, m_bConnect, sock, info>> /\ msg'["conn"] = msg["conn"]
  BY DEF Start, ThreadInit, StartReturns, OnClose, OnRead, RecvOdd, UpdateURL,
     SendVisit, HistoryDone, HistoryTimer, LoopStep, Winsock, ServerGone, PostRead,
     PostClose, shared, net, LockInv, TypeOK, Threads
<1>2. CASE Start \/ ThreadInit
  <2>1. \/ pc'["conn"] = pc["conn"]
        \/ /\ pc["conn"] \in {"none", "init"}
           /\ pc'["conn"] \in {"init", "monitor", "exited"}
    BY <1>2 DEF Start, ThreadInit, Goto, At, LockInv, StartFirst, TypeOK, Threads
  <2> QED
    BY <1>1, <2>1 DEF RegInv, ConnectingIsNot, ClosedStaysClosed,
       RegisteredUnlessPending, Pending, IsConnected, Current
<1>3. CASE StartReturns \/ OnClose \/ OnRead \/ RecvOdd \/ UpdateURL \/ HistoryTimer \/ Winsock
  <2>1. pc'["conn"] = pc["conn"]
    BY <1>3 DEF StartReturns, OnClose, OnRead, RecvOdd, UpdateURL, SendVisit,
       HistoryDone, HistoryTimer, LoopStep, Winsock, ServerGone, PostRead, PostClose,
       Goto, LockInv, TypeOK, Threads
  <2> QED
    BY <1>1, <2>1, UIStep
<1> QED
  BY <1>2, <1>3 DEF LoopStep

LEMMA RegStep ==
  ASSUME LockInv, RegInv, [Next]_vars
  PROVE  RegInv'
<1>1. CASE Next
  <2>1. (\E t \in Threads : Send(t) \/ Close(t)) \/ MonitorConnection \/ LoopStep
    BY <1>1, Steps
  <2> QED
    BY <2>1, RegSend, RegClose, RegMonitor, RegLoop
<1>2. CASE UNCHANGED vars
  BY <1>2, UIStep DEF vars
<1> QED
  BY <1>1, <1>2

(* However the two threads' closing and connecting interleave, a connection  *)
(* the client rests on has had CLIENTINFO sent on it.                        *)
THEOREM BelievedIsRegisteredCorrect ==
  Spec => []BelievedIsRegistered
<1>1. Init => LockInv /\ RegInv
  <2>1. Init => RegInv
    BY DEF Init, RegInv, ConnectingIsNot, ClosedStaysClosed, RegisteredUnlessPending,
       Threads
  <2> QED
    BY <2>1, LockInvInit, ConnectAssumption
<1>2. LockInv /\ RegInv /\ [Next]_vars => (LockInv /\ RegInv)'
  BY LockInvStep, RegStep, ConnectAssumption
<1>3. RegInv => BelievedIsRegistered
  BY DEF RegInv, RegisteredUnlessPending, Pending, BelievedIsRegistered, At
<1> QED
  BY <1>1, <1>2, <1>3, PTL DEF Spec

=============================================================================
