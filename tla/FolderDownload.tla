--------------------------- MODULE FolderDownload ---------------------------
(***************************************************************************)
(* The folder downloader: how the files of a folder get from the server to *)
(* the client (src/DownLoadFolder/Client/Client/ClientDlg.cpp,             *)
(* DuyetFile.cpp, DownloadFileSocket.cpp, ConnectSocket.cpp and            *)
(* src/DownLoadFolder/Server/Server/ServerDlg.cpp, ConnectSocket.cpp).     *)
(*                                                                         *)
(* Every click on Download starts a round: a thread reads the server's     *)
(* list of the folder, compares it with the files on the disk by time and  *)
(* size, and starts a thread for each file that differs.  That thread      *)
(* fetches the file over a connection of its own, overwrites the old one,  *)
(* and last of all sets the file's time to the one in the list.  Nothing   *)
(* stops the user from clicking again while threads are at work, and       *)
(* nothing is remembered between rounds but the files themselves.          *)
(*                                                                         *)
(* How a list is made and what happens to the temporary files is in        *)
(* FileListRequest.                                                        *)
(***************************************************************************)
EXTENDS Naturals, FiniteSets

CONSTANTS
  Files,      \* the files of the folder
  Rounds,     \* the folder threads there can be at a time
  Threads,    \* the file threads there can be at a time
  MaxVersion, \* bound: versions of a file at the server
  Size,       \* Size[f][v]: the chunks a version has
  NoFile      \* the file of a thread that is not running

Versions == 1 .. MaxVersion

ASSUME DownloadAssumption ==
  /\ MaxVersion \in Nat \ {0}
  /\ Size \in [Files -> [Versions -> Nat]]
  /\ NoFile \notin Files

VARIABLES
  ver,     \* at the server: the version of each file, which is also its time
  held,    \* files the server has leaked a handle of
  local,   \* on the client's disk: time, what is in it, how much of that
  list,    \* of each round: the version listed
  todo,    \* files of its list a round has still to compare
  pending, \* lstInfoFile: files it has still to fetch
  thread,  \* the file threads of the client
  conn,    \* their connections: what the server sends on them
  calm     \* history: from now on nothing fails and no file changes

client == <<local, list, todo, pending, thread>>
vars == <<ver, held, client, conn, calm>>

(* Times that no version has: that at which the client wrote the file *)
Unset == 0
Cut == MaxVersion + 1  \* what is left of a time when its list was cut
Times == Versions \cup {Cut}
Absent == [time |-> Unset, of |-> Unset, got |-> 0]
Idle == [pc |-> "idle", file |-> NoFile, time |-> Unset]
Closed == [of |-> Unset, sent |-> 0, open |-> FALSE]

SizeOf(f, v) == IF v \in Versions THEN Size[f][v] ELSE 0

(* The threads that have a file of the disk open; the share mode is 0 *)
Writing(t, f) == thread[t].file = f /\ thread[t].pc \in {"data", "stamp", "spin"}
Locked(f) == \E t \in Threads : Writing(t, f)

(* The server has a file open with FILE_SHARE_READ: nobody can change it *)
InUse(f) == f \in held \/ \E t \in Threads : conn[t].open /\ thread[t].file = f

(* A thread that ends only with the program, or with the server's *)
Stuck(t) == thread[t].pc \in {"spin", "hang"}

End(t) == thread' = [thread EXCEPT ![t] = Idle]
Goto(t, label) == thread' = [thread EXCEPT ![t].pc = label]

(* The client closes its connection: what the server still sends fails. *)
Hang(t) == conn' = [conn EXCEPT ![t] = Closed]

Init ==
  /\ ver = [f \in Files |-> 1]
  /\ held = {}
  /\ local = [f \in Files |-> Absent]
  /\ list = [r \in Rounds |-> [f \in Files |-> Unset]]
  /\ todo = [r \in Rounds |-> {}]
  /\ pending = [r \in Rounds |-> {}]
  /\ thread = [t \in Threads |-> Idle]
  /\ conn = [t \in Threads |-> Closed]
  /\ calm = FALSE

-----------------------------------------------------------------------------
(* The folder thread of a round *)

(* The list arrives.  It may be cut short, at the worst within the time of   *)
(* its last file: the server sends what it has encrypted of a list, and a    *)
(* part of a list that one round has left is read by another.                *)
ReadList(r) ==
  /\ todo[r] = {} /\ pending[r] = {}
  /\ \E listed \in SUBSET Files : \E whole \in SUBSET listed :
       /\ Cardinality(listed \ whole) <= 1
       /\ calm => whole = Files
       /\ list' = [list EXCEPT ![r] = [f \in Files |->
                     IF f \in whole THEN ver[f] ELSE IF f \in listed THEN Cut ELSE Unset]]
       /\ todo' = [todo EXCEPT ![r] = listed]
  /\ UNCHANGED <<ver, held, local, pending, thread, conn, calm>>

(* CompareTwoInfoFIle.  Two times that were cut may be the same. *)
Same(f, v) == local[f].time = v /\ local[f].got = SizeOf(f, v)
MaySkip(f, v) == IF v = Cut /\ local[f].time = Cut THEN BOOLEAN ELSE {Same(f, v)}

Compare(r, f) ==
  /\ f \in todo[r]
  /\ todo' = [todo EXCEPT ![r] = @ \ {f}]
  /\ \E skip \in MaySkip(f, list[r][f]) :
       pending' = [pending EXCEPT ![r] = IF skip THEN @ ELSE @ \cup {f}]
  /\ UNCHANGED <<ver, held, local, list, thread, conn, calm>>

(* Plausible bug: SetLastWriteModified is not called *)
StartThread_NoTime(r, f, t) ==
  /\ todo[r] = {} /\ f \in pending[r]
  /\ thread[t] = Idle
  /\ thread' = [thread EXCEPT ![t] = [pc |-> "request", file |-> f, time |-> Unset]]
  /\ pending' = [pending EXCEPT ![r] = @ \ {f}]
  /\ UNCHANGED <<ver, held, local, list, todo, conn, calm>>

StartThread(r, f, t) ==
  /\ todo[r] = {} /\ f \in pending[r]
  /\ thread[t] = Idle
  /\ thread' = [thread EXCEPT ![t] = [pc |-> "request", file |-> f, time |-> list[r][f]]]
  /\ pending' = [pending EXCEPT ![r] = @ \ {f}]
  /\ UNCHANGED <<ver, held, local, list, todo, conn, calm>>

(* CreateThread fails, always when no thread there can be will ever end: the *)
(* file is left out of this round.                                           *)
NoThread(r, f) ==
  /\ ~calm \/ \A t \in Threads : Stuck(t)
  /\ todo[r] = {} /\ f \in pending[r]
  /\ pending' = [pending EXCEPT ![r] = @ \ {f}]
  /\ UNCHANGED <<ver, held, local, list, todo, thread, conn, calm>>

-----------------------------------------------------------------------------
(* The server's thread for a file *)

(* ProcessDownloadFile opens the file, and SendFile sends its size. *)
ServerOpens(t) ==
  /\ thread[t].pc = "request"
  /\ LET f == thread[t].file IN
     /\ SizeOf(f, ver[f]) > 0
     /\ conn' = [conn EXCEPT ![t] = [of |-> ver[f], sent |-> 0, open |-> TRUE]]
  /\ Goto(t, "size")
  /\ UNCHANGED <<ver, held, local, list, todo, pending, calm>>

(* A file of size 0 is answered like one that does not exist, and its handle *)
(* is not closed.                                                            *)
ServerOpensEmpty(t) ==
  /\ thread[t].pc = "request"
  /\ LET f == thread[t].file IN
     /\ SizeOf(f, ver[f]) = 0
     /\ held' = held \cup {f}
  /\ End(t)
  /\ UNCHANGED <<ver, local, list, todo, pending, conn, calm>>

(* The request or its answer is lost, or arrives in pieces, or the file      *)
(* cannot be opened; when the size cannot be sent the handle is not closed.  *)
RequestFails(t) ==
  /\ ~calm
  /\ thread[t].pc = "request"
  /\ held' \in {held, held \cup {thread[t].file}}
  /\ End(t)
  /\ UNCHANGED <<ver, local, list, todo, pending, conn, calm>>

(* The listening thread cannot create a thread for an accepted connection and *)
(* forgets it without closing it: the client waits for as long as the server  *)
(* runs.                                                                      *)
NotServed(t) ==
  /\ ~calm
  /\ thread[t].pc = "request"
  /\ Goto(t, "hang")
  /\ UNCHANGED <<ver, held, local, list, todo, pending, conn, calm>>

(* SendFileData; at the end of the file the handle is closed. *)
ServerSends(t) ==
  /\ conn[t].open
  /\ LET total == SizeOf(thread[t].file, conn[t].of) IN
     conn' = [conn EXCEPT ![t] =
                [of |-> @.of, sent |-> @.sent + 1, open |-> @.sent + 1 < total]]
  /\ UNCHANGED <<ver, held, client, calm>>

(* A ReadFile or a send fails: handle and connection are closed. *)
ServerStops(t) ==
  /\ ~calm
  /\ conn[t].open
  /\ conn' = [conn EXCEPT ![t].open = FALSE]
  /\ UNCHANGED <<ver, held, client, calm>>

(* The server is started again: every handle and connection is gone. *)
ServerRestarts ==
  /\ ~calm
  /\ held' = {}
  /\ conn' = [t \in Threads |-> [conn[t] EXCEPT !.open = FALSE]]
  /\ thread' = [t \in Threads |-> IF thread[t].pc = "hang" THEN Idle ELSE thread[t]]
  /\ UNCHANGED <<ver, local, list, todo, pending, calm>>

(* Somebody gives a file of the server a new version. *)
Modify(f) ==
  /\ ~calm
  /\ ver[f] < MaxVersion
  /\ ~InUse(f)
  /\ ver' = [ver EXCEPT ![f] = @ + 1]
  /\ UNCHANGED <<held, client, conn, calm>>

-----------------------------------------------------------------------------
(* The client's thread for a file *)

(* Plausible bug: the file is opened with FILE_SHARE_WRITE *)
CreateFile_Shared(t) ==
  /\ thread[t].pc = "size"
  /\ local' = [local EXCEPT ![thread[t].file] = [time |-> Unset, of |-> conn[t].of, got |-> 0]]
  /\ Goto(t, "data")
  /\ UNCHANGED <<ver, held, list, todo, pending, conn, calm>>

(* ReceiveFile creates the file with CREATE_ALWAYS: the old one is gone. *)
CreateFile(t) ==
  /\ thread[t].pc = "size"
  /\ ~Locked(thread[t].file)
  /\ local' = [local EXCEPT ![thread[t].file] = [time |-> Unset, of |-> conn[t].of, got |-> 0]]
  /\ Goto(t, "data")
  /\ UNCHANGED <<ver, held, list, todo, pending, conn, calm>>

(* Another thread has the file open. *)
CreateFileFails(t) ==
  /\ thread[t].pc = "size"
  /\ Locked(thread[t].file)
  /\ End(t)
  /\ Hang(t)
  /\ UNCHANGED <<ver, held, local, list, todo, pending, calm>>

(* ReceiveFileData: one recv and one WriteFile, until everything is there *)
Receive(t) ==
  LET f == thread[t].file IN
  /\ thread[t].pc = "data"
  /\ local[f].got < conn[t].sent
  /\ local' = [local EXCEPT ![f].got = @ + 1]
  /\ IF local[f].got + 1 = SizeOf(f, conn[t].of)
     THEN Goto(t, "stamp")
     ELSE UNCHANGED thread
  /\ UNCHANGED <<ver, held, list, todo, pending, conn, calm>>

(* The server has closed the connection before the end: recv returns 0, which *)
(* is no error, and the loop goes on for good.                                *)
ConnectionEnds(t) ==
  /\ thread[t].pc = "data"
  /\ ~conn[t].open
  /\ local[thread[t].file].got = conn[t].sent
  /\ Goto(t, "spin")
  /\ UNCHANGED <<ver, held, local, list, todo, pending, conn, calm>>

(* A recv or a WriteFile fails: the file stays as it is. *)
ReceiveFails(t) ==
  /\ ~calm
  /\ thread[t].pc = "data"
  /\ End(t)
  /\ Hang(t)
  /\ UNCHANGED <<ver, held, local, list, todo, pending, calm>>

(* Plausible bug: the file keeps the time at which it was written *)
SetFileTime_Not(t) ==
  /\ thread[t].pc = "stamp"
  /\ End(t)
  /\ Hang(t)
  /\ UNCHANGED <<ver, held, local, list, todo, pending, calm>>

(* The file gets the time in the list, and is closed. *)
SetFileTime(t) ==
  /\ thread[t].pc = "stamp"
  /\ local' = [local EXCEPT ![thread[t].file].time = thread[t].time]
  /\ End(t)
  /\ Hang(t)
  /\ UNCHANGED <<ver, held, list, todo, pending, calm>>

(* The client ends: its user closes it, it is killed, or an exception of     *)
(* CreateConnectSocket, which the folder thread does not catch, ends it.     *)
(* Started again, it knows nothing but the files.                            *)
ClientRestarts ==
  /\ ~calm
  /\ todo' = [r \in Rounds |-> {}]
  /\ pending' = [r \in Rounds |-> {}]
  /\ list' = [r \in Rounds |-> [f \in Files |-> Unset]]
  /\ thread' = [t \in Threads |-> Idle]
  /\ conn' = [t \in Threads |-> Closed]
  /\ UNCHANGED <<ver, held, local, calm>>

Calm ==
  /\ ~calm
  /\ calm' = TRUE
  /\ UNCHANGED <<ver, held, client, conn>>

-----------------------------------------------------------------------------
FolderDownloading(r) ==
  \/ ReadList(r)
  \/ \E f \in Files : Compare(r, f) \/ NoThread(r, f)
  \/ \E f \in Files, t \in Threads : StartThread(r, f, t)

FileDownloading(t) ==
  \/ CreateFile(t) \/ CreateFileFails(t)
  \/ Receive(t) \/ ConnectionEnds(t) \/ ReceiveFails(t) \/ SetFileTime(t)

ProcessDownloadFile(t) ==
  \/ ServerOpens(t) \/ ServerOpensEmpty(t) \/ RequestFails(t) \/ NotServed(t)
  \/ ServerSends(t) \/ ServerStops(t)

Next ==
  \/ \E r \in Rounds : FolderDownloading(r)
  \/ \E t \in Threads : FileDownloading(t) \/ ProcessDownloadFile(t)
  \/ \E f \in Files : Modify(f)
  \/ ServerRestarts \/ ClientRestarts \/ Calm

Spec == Init /\ [][Next]_vars

(* Threads run, a connection is served, and the user asks again and again.   *)
(* A thread of the client is started sooner or later, whatever other rounds  *)
(* do meanwhile.                                                             *)
Fairness ==
  /\ \A r \in Rounds :
       /\ WF_vars(ReadList(r))
       /\ \A f \in Files :
            /\ WF_vars(Compare(r, f))
            /\ SF_vars(\E t \in Threads : StartThread(r, f, t))
  /\ \A t \in Threads :
       /\ WF_vars(FileDownloading(t))
       /\ WF_vars(ProcessDownloadFile(t))

FairSpec == Spec /\ Fairness

-----------------------------------------------------------------------------
(* Properties *)

LocalFile == [time : {Unset} \cup Times, of : {Unset} \cup Versions, got : Nat]

(* Every variable has its type. *)
TypeOK ==
  /\ ver \in [Files -> Versions]
  /\ held \subseteq Files
  /\ local \in [Files -> LocalFile]
  /\ list \in [Rounds -> [Files -> {Unset} \cup Times]]
  /\ todo \in [Rounds -> SUBSET Files]
  /\ pending \in [Rounds -> SUBSET Files]
  /\ thread \in [Threads -> {Idle} \cup
                   [pc : {"request", "hang", "size", "data", "stamp", "spin"},
                    file : Files, time : Times]]
  /\ conn \in [Threads -> [of : {Unset} \cup Versions, sent : Nat, open : BOOLEAN]]
  /\ calm \in BOOLEAN

(* The client's copy is what the server has now. *)
Current(f) == local[f].of = ver[f] /\ local[f].got = SizeOf(f, ver[f])

(* A file that the next comparison with the server would skip is what the    *)
(* server has, although only time and size are compared, lists grow old      *)
(* while files change, several threads may fetch one file, and client and    *)
(* server may end at any point.                                              *)
SkippedIsCurrent == \A f \in Files : Same(f, ver[f]) => Current(f)

(* As soon as nothing fails and nothing changes any more, a file that is not *)
(* empty arrives if the user asks often enough, however many rounds run at   *)
(* once - unless a thread spins on a connection that ended too early, or all *)
(* of them wait for a server that has forgotten them.                        *)
Arrives ==
  \A f \in Files :
    [](calm /\ SizeOf(f, ver[f]) > 0 =>
         <>(\/ Same(f, ver[f])
            \/ \E t \in Threads : thread[t].pc = "spin"
            \/ \A t \in Threads : Stuck(t)))

=============================================================================
