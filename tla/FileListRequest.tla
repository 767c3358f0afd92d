-------------------------- MODULE FileListRequest --------------------------
(***************************************************************************)
(* CServerDlg::ProcessFileListRequest, the folder download server's answer *)
(* to a request for the list of a folder                                   *)
(* (src/DownLoadFolder/Server/Server/ServerDlg.cpp, ConnectSocket.cpp,     *)
(* DuyetFile.cpp, FileServices.cpp and the encryption library under        *)
(* MaHoa).                                                                 *)
(*                                                                         *)
(* Every connection has its own thread.  A thread writes the list to a     *)
(* temporary file, encrypts that into a second one, sends the second and   *)
(* deletes both.  The files lie in the shared root folder and are named    *)
(* after the date and time in milliseconds, so two threads may use the same *)
(* two files; nothing but the share modes of CreateFile keeps them apart,  *)
(* and most results of the calls on the way are ignored.                   *)
(***************************************************************************)
EXTENDS Naturals, FiniteSets

CONSTANTS
  Requests,    \* the connections that ask for a list, one thread each
  Folders,     \* the names they may ask for
  Directories, \* those that are directories on the server
  MaxTime,     \* bound: milliseconds that pass
  NoOne        \* no request, and the name of a request that has none yet

ASSUME RequestAssumption ==
  /\ Directories \subseteq Folders
  /\ MaxTime \in Nat
  /\ NoOne \notin Requests \cup (0 .. MaxTime)

VARIABLES
  pc,       \* where the thread of each request is
  asked,    \* the folder it asks for
  name,     \* the time its files are named after
  now,      \* the local time
  exists,   \* the temporary files there are
  content,  \* of each file: the folder it lists, how far it was written
  writer,   \* the thread that has the file open for writing (share mode 0)
  readers,  \* the threads that have it open for reading (FILE_SHARE_READ)
  sent,     \* what the peer of a request has received
  failed    \* history: a read or write of the encryption has failed

vars == <<pc, asked, name, now, exists, content, writer, readers, sent, failed>>
files == <<exists, content, writer, readers>>

Times == 0 .. MaxTime
Paths == Times \X {"list", "encrypted"}

(* strFilesListFilePath and strEncryptedFilesListFilePath of a thread *)
ListPath(r) == <<name[r], "list">>

(* Plausible bug: the second path is formed from the time again *)
EncryptedPath_Again(r) == <<now, "encrypted">>
EncryptedPath(r) == <<name[r], "encrypted">>

Content == [of : Folders, len : {"empty", "part", "whole"}]

(* what a peer has received: nothing, size 0, or a list *)
Nothing == [answer |-> "nothing"]
Answers == {Nothing, [answer |-> "not_found"]} \cup [answer : {"list"}, list : Content]
HasList(a) == a.answer = "list"

Goto(r, label) == pc' = [pc EXCEPT ![r] = label]

-----------------------------------------------------------------------------
(* Files *)

(* Plausible bug: share mode FILE_SHARE_WRITE for the file that is read *)
Writable_Shared(p) == writer[p] = NoOne

(* CreateFile(.., GENERIC_WRITE, 0, .., CREATE_ALWAYS, ..) succeeds *)
Writable(p) == writer[p] = NoOne /\ readers[p] = {}

(* CreateFile(.., GENERIC_READ, FILE_SHARE_READ, .., OPEN_EXISTING, ..) *)
Readable(p) == p \in exists /\ writer[p] = NoOne

CreateAlways(r, p) ==
  /\ exists' = exists \cup {p}
  /\ writer' = [writer EXCEPT ![p] = r]
  /\ content' = [content EXCEPT ![p] = [of |-> asked[r], len |-> "empty"]]

OpenRead(r, p)  == readers' = [readers EXCEPT ![p] = @ \cup {r}]
CloseRead(r, p) == readers' = [readers EXCEPT ![p] = @ \ {r}]

(* DeleteFile: a file that is open stays, and the failure is ignored *)
Delete(p) == exists' = IF Writable(p) THEN exists \ {p} ELSE exists

-----------------------------------------------------------------------------
Init ==
  /\ pc = [r \in Requests |-> "header"]
  /\ asked \in [Requests -> Folders]
  /\ name = [r \in Requests |-> NoOne]
  /\ now = 0
  /\ exists = {}
  /\ content \in {[p \in Paths |-> [of |-> f, len |-> "empty"]] : f \in Folders}
  /\ writer = [p \in Paths |-> NoOne]
  /\ readers = [p \in Paths |-> {}]
  /\ sent = [r \in Requests |-> Nothing]
  /\ failed = FALSE

Tick ==
  /\ now < MaxTime
  /\ now' = now + 1
  /\ UNCHANGED <<pc, asked, name, files, sent, failed>>

(* GetMessageHeader and RecevieFileName: one recv each, and whatever brings  *)
(* less than was asked for ends the request.                                 *)
ReceiveRequest(r) ==
  /\ pc[r] = "header"
  /\ Goto(r, "name") \/ Goto(r, "done")
  /\ UNCHANGED <<asked, name, now, files, sent, failed>>

(* Plausible bug: the milliseconds are rounded up *)
CreateFilesListFilePath_Rounded(r) ==
  /\ pc[r] = "name"
  /\ name' = [name EXCEPT ![r] = now + 1]
  /\ Goto(r, "list")
  /\ UNCHANGED <<asked, now, files, sent, failed>>

(* CreateFilesListFilePath *)
CreateFilesListFilePath(r) ==
  /\ pc[r] = "name"
  /\ name' = [name EXCEPT ![r] = now]
  /\ Goto(r, "list")
  /\ UNCHANGED <<asked, now, files, sent, failed>>

(* ApproveFolderToList: not a directory, or the file cannot be created.      *)
(* ProcessFileListRequest ignores the result and goes on.                    *)
ListRefused(r) ==
  /\ pc[r] = "list"
  /\ asked[r] \notin Directories \/ ~Writable(ListPath(r))
  /\ Goto(r, "encrypt")
  /\ UNCHANGED <<asked, name, now, files, sent, failed>>

StartList(r) ==
  /\ pc[r] = "list"
  /\ asked[r] \in Directories
  /\ Writable(ListPath(r))
  /\ CreateAlways(r, ListPath(r))
  /\ Goto(r, "listing")
  /\ UNCHANGED <<asked, name, now, readers, sent, failed>>

(* ApproveFolder has walked the folder, as far as it could *)
FinishList(r) ==
  /\ pc[r] = "listing"
  /\ content' = [content EXCEPT ![ListPath(r)] = [of |-> asked[r], len |-> "whole"]]
  /\ writer' = [writer EXCEPT ![ListPath(r)] = NoOne]
  /\ Goto(r, "encrypt")
  /\ UNCHANGED <<asked, name, now, exists, readers, sent, failed>>

(* CEncryption::ExecuteFile opens its input, then its output; without either *)
(* it returns false, which is ignored.                                       *)
OpenInput(r) ==
  /\ pc[r] = "encrypt"
  /\ Readable(ListPath(r))
  /\ OpenRead(r, ListPath(r))
  /\ Goto(r, "output")
  /\ UNCHANGED <<asked, name, now, exists, content, writer, sent, failed>>

NoInput(r) ==
  /\ pc[r] = "encrypt"
  /\ ~Readable(ListPath(r))
  /\ Goto(r, "open")
  /\ UNCHANGED <<asked, name, now, files, sent, failed>>

OpenOutput(r) ==
  /\ pc[r] = "output"
  /\ Writable(EncryptedPath(r))
  /\ CreateAlways(r, EncryptedPath(r))
  /\ Goto(r, "encrypting")
  /\ UNCHANGED <<asked, name, now, readers, sent, failed>>

NoOutput(r) ==
  /\ pc[r] = "output"
  /\ ~Writable(EncryptedPath(r))
  /\ CloseRead(r, ListPath(r))
  /\ Goto(r, "open")
  /\ UNCHANGED <<asked, name, now, exists, content, writer, sent, failed>>

(* TransferPlainToCipher reads the list and closes both files *)
Encrypt(r) ==
  /\ pc[r] = "encrypting"
  /\ content' = [content EXCEPT ![EncryptedPath(r)] = content[ListPath(r)]]
  /\ writer' = [writer EXCEPT ![EncryptedPath(r)] = NoOne]
  /\ CloseRead(r, ListPath(r))
  /\ Goto(r, "open")
  /\ UNCHANGED <<asked, name, now, exists, sent, failed>>

(* A ReadFile or WriteFile fails, before or after the first bytes: both are  *)
(* closed, what is there stays, and the false that is returned is ignored.   *)
EncryptFails(r) ==
  /\ pc[r] = "encrypting"
  /\ \E len \in {"empty", "part"} :
       content' = [content EXCEPT ![EncryptedPath(r)] =
                     [of |-> content[ListPath(r)].of, len |-> len]]
  /\ writer' = [writer EXCEPT ![EncryptedPath(r)] = NoOne]
  /\ CloseRead(r, ListPath(r))
  /\ failed' = TRUE
  /\ Goto(r, "open")
  /\ UNCHANGED <<asked, name, now, exists, sent>>

(* The encrypted file is opened for reading; SendFile is called either way,  *)
(* and takes a file it did not get for one of size 0.                        *)
OpenEncrypted(r) ==
  /\ pc[r] = "open"
  /\ Readable(EncryptedPath(r))
  /\ OpenRead(r, EncryptedPath(r))
  /\ Goto(r, "size")
  /\ UNCHANGED <<asked, name, now, exists, content, writer, sent, failed>>

NoEncrypted(r) ==
  /\ pc[r] = "open"
  /\ ~Readable(EncryptedPath(r))
  /\ Goto(r, "no_file")
  /\ UNCHANGED <<asked, name, now, files, sent, failed>>

(* Size 0 is sent and the request is over: the handle, if there is one, is   *)
(* not closed, and the temporary files are not deleted.                      *)
SendZero(r) ==
  /\ \/ pc[r] = "no_file"
     \/ pc[r] = "size" /\ content[EncryptedPath(r)].len = "empty"
  /\ sent' \in {sent, [sent EXCEPT ![r] = [answer |-> "not_found"]]}
  /\ Goto(r, "done")
  /\ UNCHANGED <<asked, name, now, files, failed>>

(* SendFileSize.  If it fails the handle is not closed. *)
SendFileSize(r) ==
  /\ pc[r] = "size"
  /\ content[EncryptedPath(r)].len # "empty"
  /\ Goto(r, "data") \/ Goto(r, "done")
  /\ UNCHANGED <<asked, name, now, files, sent, failed>>

(* SendFileData sends what the file holds and closes it *)
SendFileData(r) ==
  /\ pc[r] = "data"
  /\ sent' = [sent EXCEPT ![r] = [answer |-> "list",
                                     list |-> content[EncryptedPath(r)]]]
  /\ CloseRead(r, EncryptedPath(r))
  /\ Goto(r, "delete_list")
  /\ UNCHANGED <<asked, name, now, exists, content, writer, failed>>

(* a ReadFile or a send fails: the files are not deleted *)
SendFails(r) ==
  /\ pc[r] = "data"
  /\ CloseRead(r, EncryptedPath(r))
  /\ Goto(r, "done")
  /\ UNCHANGED <<asked, name, now, exists, content, writer, sent, failed>>

DeleteList(r) ==
  /\ pc[r] = "delete_list"
  /\ Delete(ListPath(r))
  /\ Goto(r, "delete_encrypted")
  /\ UNCHANGED <<asked, name, now, content, writer, readers, sent, failed>>

(* Plausible bug: only the list is deleted *)
DeleteEncrypted_Not(r) ==
  /\ pc[r] = "delete_encrypted"
  /\ Goto(r, "done")
  /\ UNCHANGED <<asked, name, now, files, sent, failed>>

DeleteEncrypted(r) ==
  /\ pc[r] = "delete_encrypted"
  /\ Delete(EncryptedPath(r))
  /\ Goto(r, "done")
  /\ UNCHANGED <<asked, name, now, content, writer, readers, sent, failed>>

ProcessFileListRequest(r) ==
  \/ ReceiveRequest(r) \/ CreateFilesListFilePath(r)
  \/ ListRefused(r) \/ StartList(r) \/ FinishList(r)
  \/ OpenInput(r) \/ NoInput(r) \/ OpenOutput(r) \/ NoOutput(r)
  \/ Encrypt(r) \/ EncryptFails(r)
  \/ OpenEncrypted(r) \/ NoEncrypted(r)
  \/ SendZero(r) \/ SendFileSize(r) \/ SendFileData(r) \/ SendFails(r)
  \/ DeleteList(r) \/ DeleteEncrypted(r)

Next == Tick \/ \E r \in Requests : ProcessFileListRequest(r)

Spec == Init /\ [][Next]_vars

-----------------------------------------------------------------------------
(* Properties *)

Labels == {"header", "name", "list", "listing", "encrypt", "output", "encrypting",
           "open", "no_file", "size", "data", "delete_list", "delete_encrypted",
           "done"}

(* Every variable has its type. *)
TypeOK ==
  /\ pc \in [Requests -> Labels]
  /\ asked \in [Requests -> Folders]
  /\ name \in [Requests -> Times \cup {NoOne}]
  /\ now \in Times
  /\ exists \subseteq Paths
  /\ content \in [Paths -> Content]
  /\ writer \in [Paths -> Requests \cup {NoOne}]
  /\ readers \in [Paths -> SUBSET Requests]
  /\ sent \in [Requests -> Answers]
  /\ failed \in BOOLEAN

(* However the threads of one millisecond get in each other's way, and       *)
(* although the results of listing and encrypting are ignored: a list that   *)
(* is sent was written to its end before it was encrypted, and encrypted to  *)
(* its end before it was sent, unless the disk failed.                       *)
WholeListSent ==
  ~failed => \A r \in Requests : HasList(sent[r]) => sent[r].list.len = "whole"

(* The list that is sent is of the folder asked for, or of one that another  *)
(* request of the same millisecond asked for, and of no other: what earlier  *)
(* requests have left on the disk is never sent.                             *)
SentIsAskedFor ==
  \A r \in Requests : HasList(sent[r]) =>
    \E q \in Requests : name[q] = name[r] /\ asked[q] = sent[r].list.of

(* When all requests of a millisecond have been answered, none of their      *)
(* files is left, although DeleteFile fails on a file that another thread    *)
(* still has open and is not called again.                                   *)
Answered(r) == pc[r] = "done" /\ HasList(sent[r])

NothingLeft ==
  \A p \in exists : \E r \in Requests : name[r] = p[1] /\ ~Answered(r)

=============================================================================
