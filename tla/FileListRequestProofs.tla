---------------------- MODULE FileListRequestProofs ----------------------
(***************************************************************************)
(* Proofs about FileListRequest, for every number of requests, folders and *)
(* milliseconds.                                                           *)
(*                                                                         *)
(* The inductive invariant adds to the properties who has which file open  *)
(* and where those threads are (Handles), what the files on the disk hold  *)
(* (Disk), and who is still to delete them (Responsible).                  *)
(***************************************************************************)
EXTENDS FileListRequest, TLAPS

(* A request has a name from the moment it forms its paths, and no list is  *)
(* sent before the temporary files are to be deleted.                       *)
Progress ==
  \A r \in Requests :
    /\ pc[r] \in {"header", "name"} => name[r] = NoOne
    /\ pc[r] \notin {"header", "name", "done"} => name[r] \in Times
    /\ HasList(sent[r]) => /\ pc[r] \in {"delete_list", "delete_encrypted", "done"}
                           /\ name[r] \in Times

TypeInv == TypeOK /\ Progress

(* A file that is open for writing is open nowhere else, and its writer is   *)
(* at work on it.                                                            *)
Writers ==
  /\ \A p \in Paths : writer[p] # NoOne =>
       /\ p \in exists
       /\ readers[p] = {}
       /\ \/ pc[writer[p]] = "listing" /\ p = ListPath(writer[p])
          \/ pc[writer[p]] = "encrypting" /\ p = EncryptedPath(writer[p])
  /\ \A r \in Requests :
       /\ pc[r] = "listing" => writer[ListPath(r)] = r
       /\ pc[r] = "encrypting" => writer[EncryptedPath(r)] = r

(* A reader is at work on the file, or has leaked its handle and failed. *)
Readers ==
  /\ \A p \in Paths : \A r \in readers[p] :
       /\ p \in exists
       /\ \/ pc[r] \in {"output", "encrypting"} /\ p = ListPath(r)
          \/ pc[r] \in {"size", "data"} /\ p = EncryptedPath(r)
          \/ pc[r] = "done" /\ p = EncryptedPath(r) /\ ~HasList(sent[r])
  /\ \A r \in Requests :
       /\ pc[r] \in {"output", "encrypting"} => r \in readers[ListPath(r)]
       /\ pc[r] \in {"size", "data"} => r \in readers[EncryptedPath(r)]

(* A file that nobody writes is complete, and lists a folder that a request  *)
(* of its millisecond asked for.                                             *)
Disk ==
  \A p \in exists :
    /\ (~failed /\ writer[p] = NoOne) => content[p].len = "whole"
    /\ \E q \in Requests : name[q] = p[1] /\ asked[q] = content[p].of

(* The file p is still to be deleted by r, or r has failed. *)
Before(kind) ==
  IF kind = "list"
  THEN Labels \ {"header", "name", "delete_encrypted", "done"}
  ELSE Labels \ {"header", "name", "done"}

Responsible ==
  \A p \in exists : \E r \in Requests :
    /\ name[r] = p[1]
    /\ \/ pc[r] \in Before(p[2])
       \/ pc[r] = "done" /\ ~HasList(sent[r])

-----------------------------------------------------------------------------
LEMMA PathFacts ==
  ASSUME NEW r \in Requests, NEW q \in Requests
  PROVE  /\ ListPath(r) # EncryptedPath(q)
         /\ ListPath(r)[1] = name[r] /\ EncryptedPath(r)[1] = name[r]
         /\ ListPath(r)[2] = "list" /\ EncryptedPath(r)[2] = "encrypted"
         /\ name[r] \in Times => ListPath(r) \in Paths /\ EncryptedPath(r) \in Paths
         /\ name[r] = name[q] <=> ListPath(r) = ListPath(q)
         /\ name[r] = name[q] <=> EncryptedPath(r) = EncryptedPath(q)
BY DEF ListPath, EncryptedPath, Paths

LEMMA ContentType ==
  ASSUME NEW f \in Folders, NEW len \in {"empty", "part", "whole"}
  PROVE  [of |-> f, len |-> len] \in Content
BY DEF Content

LEMMA TypeInit == Init => TypeInv
<1> SUFFICES ASSUME Init PROVE TypeInv
  OBVIOUS
<1>1. ASSUME NEW f \in Folders
      PROVE  [of |-> f, len |-> "empty"] \in Content
  BY ContentType
<1>2. content \in [Paths -> Content]
  BY <1>1 DEF Init
<1>3. 0 \in Times
  BY RequestAssumption DEF Times
<1>4. ~HasList(Nothing) /\ Nothing \in Answers
  BY DEF HasList, Nothing, Answers
<1> QED
  BY <1>2, <1>3, <1>4 DEF Init, TypeInv, TypeOK, Progress, Labels

LEMMA TypeStep == TypeInv /\ [Next]_vars => TypeInv'
<1> SUFFICES ASSUME TypeInv, [Next]_vars PROVE TypeInv'
  OBVIOUS
<1> USE DEF TypeInv, files
<1>1. CASE Tick \/ UNCHANGED vars
  BY <1>1, RequestAssumption DEF Tick, vars, TypeOK, Progress, Times
<1>2. ASSUME NEW r \in Requests, ProcessFileListRequest(r)
      PROVE  TypeInv'
  <2>0. /\ \A l \in Labels : Goto(r, l) => pc' \in [Requests -> Labels]
        /\ \A f \in Folders : \A len \in {"empty", "part", "whole"} :
             [of |-> f, len |-> len] \in Content
        /\ name[r] \in Times => ListPath(r) \in Paths /\ EncryptedPath(r) \in Paths
    BY ContentType, PathFacts DEF Goto, TypeOK
  <2>1. CASE ReceiveRequest(r)
    BY <2>0, <2>1 DEF ReceiveRequest, TypeOK, Progress, Labels, Goto
  <2>2. CASE CreateFilesListFilePath(r)
    BY <2>0, <2>2 DEF CreateFilesListFilePath, TypeOK, Progress, Labels, Goto
  <2>3. CASE ListRefused(r) \/ NoInput(r) \/ NoEncrypted(r)
    BY <2>0, <2>3 DEF ListRefused, NoInput, NoEncrypted, TypeOK, Progress, Labels, Goto
  <2>4. CASE StartList(r)
    BY <2>0, <2>4 DEF StartList, CreateAlways, TypeOK, Progress, Labels, Goto
  <2>5. CASE FinishList(r)
    BY <2>0, <2>5 DEF FinishList, TypeOK, Progress, Labels, Goto
  <2>6. CASE OpenInput(r) \/ NoOutput(r)
    BY <2>0, <2>6 DEF OpenInput, NoOutput, OpenRead, CloseRead, TypeOK, Progress, Labels,
       Goto
  <2>7. CASE OpenOutput(r)
    BY <2>0, <2>7 DEF OpenOutput, CreateAlways, TypeOK, Progress, Labels, Goto
  <2>8. CASE Encrypt(r)
    BY <2>0, <2>8 DEF Encrypt, CloseRead, TypeOK, Progress, Labels, Goto
  <2>9. CASE EncryptFails(r)
    <3>1. PICK len \in {"empty", "part"} :
            content' = [content EXCEPT ![EncryptedPath(r)] =
                          [of |-> content[ListPath(r)].of, len |-> len]]
      BY <2>9 DEF EncryptFails
    <3>2. content[ListPath(r)].of \in Folders
      BY <2>0, <2>9 DEF EncryptFails, TypeOK, Progress, Content
    <3> QED
      BY <2>0, <2>9, <3>1, <3>2 DEF EncryptFails, CloseRead, TypeOK, Progress, Labels, Goto
  <2>10. CASE OpenEncrypted(r) \/ SendFails(r)
    BY <2>0, <2>10 DEF OpenEncrypted, SendFails, OpenRead, CloseRead, TypeOK, Progress,
       Labels, Goto
  <2>11. CASE SendZero(r)
    BY <2>0, <2>11 DEF SendZero, TypeOK, Progress, Labels, Goto, HasList, Answers
  <2>12. CASE SendFileSize(r)
    BY <2>0, <2>12 DEF SendFileSize, TypeOK, Progress, Labels, Goto
  <2>13. CASE SendFileData(r)
    <3> DEFINE a == [answer |-> "list", list |-> content[EncryptedPath(r)]]
    <3>1. a \in Answers
      BY <2>0, <2>13 DEF SendFileData, TypeOK, Progress, Answers
    <3> HIDE DEF a
    <3>2. sent' = [sent EXCEPT ![r] = a]
      BY <2>13 DEF SendFileData, a
    <3> QED
      BY <2>0, <2>13, <3>1, <3>2 DEF SendFileData, CloseRead, TypeOK, Progress, Labels, Goto
  <2>14. CASE DeleteList(r) \/ DeleteEncrypted(r)
    BY <2>0, <2>14 DEF DeleteList, DeleteEncrypted, Delete, TypeOK, Progress, Labels, Goto
  <2> QED
    BY <1>2, <2>1, <2>2, <2>3, <2>4, <2>5, <2>6, <2>7, <2>8, <2>9, <2>10, <2>11, <2>12,
       <2>13, <2>14 DEF ProcessFileListRequest
<1> QED
  BY <1>1, <1>2 DEF Next

-----------------------------------------------------------------------------
(* Who has which file open *)

Handles == Writers /\ Readers

(* The paths of a request change only when it takes its name. *)
LEMMA SamePaths ==
  ASSUME NEW r \in Requests, name' = name
  PROVE  ListPath(r)' = ListPath(r) /\ EncryptedPath(r)' = EncryptedPath(r)
BY DEF ListPath, EncryptedPath

(* A step of r that opens and closes nothing *)
LEMMA HandlesKept ==
  ASSUME TypeInv, Handles, NEW r \in Requests, NEW l \in Labels, Goto(r, l),
         pc[r] \notin {"listing", "output", "encrypting"},
         l \notin {"listing", "output", "encrypting", "size"},
         pc[r] \in {"size", "data"} =>
           l = "data" \/ (l = "done" /\ ~HasList(sent'[r])),
         pc[r] \notin {"size", "data"} => l # "data",
         pc[r] # "done",
         \A q \in Requests : q # r => sent'[q] = sent[q],
         \A p \in Paths : (writer[p] # NoOne \/ readers[p] # {}) => p \in exists',
         \A q \in Requests : q # r \/ pc[r] # "name" => name'[q] = name[q],
         UNCHANGED <<writer, readers>>
  PROVE  Handles'
<1>1. \A q \in Requests : q # r \/ pc[r] # "name" =>
        ListPath(q)' = ListPath(q) /\ EncryptedPath(q)' = EncryptedPath(q)
  BY DEF ListPath, EncryptedPath
<1>2. /\ writer \in [Paths -> Requests \cup {NoOne}]
      /\ readers \in [Paths -> SUBSET Requests]
      /\ pc'[r] = l /\ \A q \in Requests : q # r => pc'[q] = pc[q]
  BY DEF TypeInv, TypeOK, Goto
<1>3. Writers'
  BY <1>1, <1>2 DEF Handles, Writers
<1>4. Readers'
  BY <1>1, <1>2 DEF Handles, Readers
<1> QED
  BY <1>3, <1>4 DEF Handles

LEMMA HandlesInit == Init => Handles
BY DEF Init, Handles, Writers, Readers

LEMMA HandlesStep == TypeInv /\ Handles /\ [Next]_vars => Handles'
<1> SUFFICES ASSUME TypeInv, Handles, [Next]_vars PROVE Handles'
  OBVIOUS
<1> USE DEF files
<1>1. CASE Tick \/ UNCHANGED vars
  BY <1>1 DEF Tick, vars, Handles, Writers, Readers, ListPath, EncryptedPath
<1>2. ASSUME NEW r \in Requests, ProcessFileListRequest(r)
      PROVE  Handles'
  <2>0. /\ writer \in [Paths -> Requests \cup {NoOne}]
        /\ readers \in [Paths -> SUBSET Requests]
        /\ NoOne \notin Requests
        /\ \A l \in Labels : Goto(r, l) =>
             pc'[r] = l /\ \A q \in Requests : q # r => pc'[q] = pc[q]
        /\ pc[r] \notin {"header", "name", "done"} =>
             ListPath(r) \in Paths /\ EncryptedPath(r) \in Paths
        /\ \A q \in Requests : ListPath(q) # EncryptedPath(r) /\ ListPath(r) # EncryptedPath(q)
        /\ HasList(sent[r]) => pc[r] \in {"delete_list", "delete_encrypted", "done"}
    BY RequestAssumption, PathFacts DEF TypeInv, TypeOK, Progress, Goto
  <2>1. name' = name =>
          \A q \in Requests : ListPath(q)' = ListPath(q) /\ EncryptedPath(q)' = EncryptedPath(q)
    BY SamePaths
  <2>2. \A p \in Paths : (writer[p] # NoOne \/ readers[p] # {}) => p \in exists
    BY <2>0 DEF Handles, Writers, Readers
  <2>3. CASE ReceiveRequest(r)
    BY <2>2, <2>3, HandlesKept DEF ReceiveRequest, Labels
  <2>4. CASE CreateFilesListFilePath(r)
    <3>1. \A q \in Requests : q # r => name'[q] = name[q]
      BY <2>4 DEF CreateFilesListFilePath, TypeInv, TypeOK
    <3> QED
      BY <2>2, <2>4, <3>1, HandlesKept DEF CreateFilesListFilePath, Labels
  <2>5. CASE ListRefused(r) \/ NoInput(r) \/ NoEncrypted(r)
    BY <2>2, <2>5, HandlesKept DEF ListRefused, NoInput, NoEncrypted, Labels
  <2>6. CASE StartList(r)
    BY <2>0, <2>1, <2>6 DEF StartList, CreateAlways, Writable, Handles, Writers, Readers,
       Labels
  <2>7. CASE FinishList(r)
    BY <2>0, <2>1, <2>7 DEF FinishList, Handles, Writers, Readers, Labels
  <2>8. CASE OpenInput(r)
    BY <2>0, <2>1, <2>8 DEF OpenInput, OpenRead, Readable, Handles, Writers, Readers, Labels
  <2>9. CASE OpenOutput(r)
    BY <2>0, <2>1, <2>9 DEF OpenOutput, CreateAlways, Writable, Handles, Writers, Readers,
       Labels
  <2>10. CASE NoOutput(r)
    BY <2>0, <2>1, <2>10 DEF NoOutput, CloseRead, Handles, Writers, Readers, Labels
  <2>11. CASE Encrypt(r) \/ EncryptFails(r)
    <3>1. /\ pc[r] = "encrypting" /\ Goto(r, "open")
          /\ writer' = [writer EXCEPT ![EncryptedPath(r)] = NoOne]
          /\ readers' = [readers EXCEPT ![ListPath(r)] = @ \ {r}]
          /\ UNCHANGED <<name, exists, sent>>
      BY <2>11 DEF Encrypt, EncryptFails, CloseRead
    <3>2. Writers'
      BY <2>0, <2>1, <3>1 DEF Handles, Writers, Labels
    <3>3. Readers'
      BY <2>0, <2>1, <3>1 DEF Handles, Writers, Readers, Labels
    <3> QED
      BY <3>2, <3>3 DEF Handles
  <2>12. CASE OpenEncrypted(r)
    BY <2>0, <2>1, <2>12 DEF OpenEncrypted, OpenRead, Readable, Handles, Writers, Readers,
       Labels
  <2>13. CASE SendZero(r)
    <3>1. ~HasList(sent'[r]) /\ \A q \in Requests : q # r => sent'[q] = sent[q]
      BY <2>0, <2>13 DEF SendZero, HasList, TypeInv, TypeOK
    <3> QED
      BY <2>2, <2>13, <3>1, HandlesKept DEF SendZero, Labels
  <2>14. CASE SendFileSize(r)
    <3>1. ~HasList(sent'[r]) /\ \A q \in Requests : sent'[q] = sent[q]
      BY <2>0, <2>14 DEF SendFileSize
    <3>2. CASE Goto(r, "data")
      BY <2>2, <2>14, <3>1, <3>2, HandlesKept DEF SendFileSize, Labels
    <3>3. CASE Goto(r, "done")
      BY <2>2, <2>14, <3>1, <3>3, HandlesKept DEF SendFileSize, Labels
    <3> QED
      BY <2>14, <3>2, <3>3 DEF SendFileSize
  <2>15. CASE SendFileData(r)
    BY <2>0, <2>1, <2>15 DEF SendFileData, CloseRead, Handles, Writers, Readers, Labels,
       TypeInv, TypeOK
  <2>16. CASE SendFails(r)
    BY <2>0, <2>1, <2>16 DEF SendFails, CloseRead, Handles, Writers, Readers, Labels
  <2>17. CASE DeleteList(r) \/ DeleteEncrypted(r)
    <3>1. \A p \in Paths : (writer[p] # NoOne \/ readers[p] # {}) => p \in exists'
      BY <2>2, <2>17 DEF DeleteList, DeleteEncrypted, Delete, Writable
    <3> QED
      BY <2>17, <3>1, HandlesKept DEF DeleteList, DeleteEncrypted, Labels
  <2> QED
    BY <1>2, <2>3, <2>4, <2>5, <2>6, <2>7, <2>8, <2>9, <2>10, <2>11, <2>12, <2>13, <2>14,
       <2>15, <2>16, <2>17 DEF ProcessFileListRequest
<1> QED
  BY <1>1, <1>2 DEF Next

-----------------------------------------------------------------------------
(* What the files on the disk hold, and what has been sent of them *)

Sent == WholeListSent /\ SentIsAskedFor
Held == Disk /\ Sent

(* A step that changes neither a file nor what was sent *)
LEMMA HeldKept ==
  ASSUME Held, TypeInv,
         \A q \in Requests : name[q] \in Times => name'[q] = name[q],
         exists' \subseteq exists,
         UNCHANGED <<asked, content, writer, failed>>,
         \A q \in Requests : HasList(sent'[q]) => sent'[q] = sent[q]
  PROVE  Held'
<1>1. /\ exists \subseteq Paths
      /\ \A p \in Paths : p[1] \in Times
      /\ \A q \in Requests : HasList(sent[q]) => name[q] \in Times
  BY DEF TypeInv, TypeOK, Progress, Paths
<1>2. Disk'
  BY <1>1 DEF Held, Disk
<1>3. \A q \in Requests : HasList(sent'[q]) => HasList(sent[q])
  BY DEF HasList
<1>4. WholeListSent'
  BY <1>3 DEF Held, Sent, WholeListSent
<1>5. SentIsAskedFor'
  BY <1>1, <1>3 DEF Held, Sent, SentIsAskedFor
<1> QED
  BY <1>2, <1>4, <1>5 DEF Held, Sent

LEMMA HeldInit == Init => Held
<1>1. ~HasList(Nothing)
  BY DEF HasList, Nothing
<1> QED
  BY <1>1 DEF Init, Held, Disk, Sent, WholeListSent, SentIsAskedFor

(* A step of r that writes the file p and sends nothing *)
LEMMA HeldWritten ==
  ASSUME Held, TypeInv, NEW p \in Paths, NEW c \in Content,
         content' = [content EXCEPT ![p] = c],
         exists' \subseteq exists \cup {p},
         failed => failed',
         \A o \in Paths : o # p => writer'[o] = writer[o],
         (~failed' /\ writer'[p] = NoOne) => c.len = "whole",
         \E q \in Requests : name[q] = p[1] /\ asked[q] = c.of,
         UNCHANGED <<asked, name, sent>>
  PROVE  Held'
<1>0. exists \subseteq Paths /\ failed \in BOOLEAN /\ content \in [Paths -> Content]
  BY DEF TypeInv, TypeOK
<1>1. content'[p] = c /\ \A o \in Paths : o # p => content'[o] = content[o]
  BY <1>0
<1>2. Disk'
  BY <1>0, <1>1 DEF Held, Disk
<1>3. Sent'
  BY <1>0 DEF Held, Sent, WholeListSent, SentIsAskedFor
<1> QED
  BY <1>2, <1>3 DEF Held

LEMMA HeldStep == TypeInv /\ Handles /\ Held /\ [Next]_vars => Held'
<1> SUFFICES ASSUME TypeInv, Handles, Held, [Next]_vars PROVE Held'
  OBVIOUS
<1> USE DEF files
<1>1. CASE Tick \/ UNCHANGED vars
  BY <1>1, HeldKept DEF Tick, vars
<1>2. ASSUME NEW r \in Requests, ProcessFileListRequest(r)
      PROVE  Held'
  <2>0. /\ writer \in [Paths -> Requests \cup {NoOne}]
        /\ readers \in [Paths -> SUBSET Requests]
        /\ content \in [Paths -> Content]
        /\ asked \in [Requests -> Folders]
        /\ sent \in [Requests -> Answers]
        /\ NoOne \notin Requests
        /\ NoOne \notin Times
        /\ pc[r] \notin {"header", "name", "done"} =>
             /\ ListPath(r) \in Paths /\ EncryptedPath(r) \in Paths
             /\ ~HasList(sent[r]) \/ pc[r] \in {"delete_list", "delete_encrypted"}
    BY RequestAssumption, PathFacts DEF TypeInv, TypeOK, Progress, Times
  <2>1. /\ ListPath(r)[1] = name[r] /\ EncryptedPath(r)[1] = name[r]
        /\ ListPath(r) # EncryptedPath(r)
    BY PathFacts
  <2>2. \A len \in {"empty", "part", "whole"} : [of |-> asked[r], len |-> len] \in Content
    BY <2>0, ContentType
  \* a file that is being read is on the disk and has no writer
  <2>3. \A p \in Paths : r \in readers[p] => p \in exists /\ writer[p] = NoOne
    BY <2>0 DEF Handles, Writers, Readers
  <2>4. CASE CreateFilesListFilePath(r)
    <3>1. \A q \in Requests : name[q] \in Times => name'[q] = name[q]
      BY <2>0, <2>4 DEF CreateFilesListFilePath, TypeInv, TypeOK, Progress
    <3> QED
      BY <2>4, <3>1, HeldKept DEF CreateFilesListFilePath
  <2>5. CASE \/ ReceiveRequest(r) \/ ListRefused(r) \/ NoInput(r) \/ NoEncrypted(r)
             \/ OpenInput(r) \/ NoOutput(r) \/ OpenEncrypted(r)
             \/ SendFileSize(r) \/ SendFails(r)
    BY <2>5, HeldKept DEF ReceiveRequest, ListRefused, NoInput, NoEncrypted, OpenInput,
       NoOutput, OpenEncrypted, SendFileSize, SendFails
  <2>6. CASE StartList(r)
    BY <2>0, <2>1, <2>2, <2>6, HeldWritten DEF StartList, CreateAlways
  <2>7. CASE FinishList(r)
    BY <2>0, <2>1, <2>2, <2>7, HeldWritten DEF FinishList
  <2>8. CASE OpenOutput(r)
    BY <2>0, <2>1, <2>2, <2>8, HeldWritten DEF OpenOutput, CreateAlways
  <2>9. CASE Encrypt(r)
    <3>1. /\ r \in readers[ListPath(r)] /\ writer[EncryptedPath(r)] = r
      BY <2>9 DEF Encrypt, Handles, Writers, Readers
    <3>2. /\ ListPath(r) \in Paths /\ EncryptedPath(r) \in Paths
          /\ ListPath(r) \in exists /\ writer[ListPath(r)] = NoOne
          /\ content[ListPath(r)] \in Content
      BY <2>0, <2>3, <2>9, <3>1 DEF Encrypt
    <3>3. /\ ~failed => content[ListPath(r)].len = "whole"
          /\ \E q \in Requests : name[q] = name[r] /\ asked[q] = content[ListPath(r)].of
      BY <2>1, <3>2 DEF Held, Disk
    <3> DEFINE c == content[ListPath(r)]
    <3>4. /\ c.len = "whole" \/ failed
          /\ \E q \in Requests : name[q] = name[r] /\ asked[q] = c.of
          /\ c \in Content
      BY <3>2, <3>3
    <3>5. content' = [content EXCEPT ![EncryptedPath(r)] = c]
      BY <2>9 DEF Encrypt
    <3> HIDE DEF c
    <3>6. /\ \A o \in Paths : o # EncryptedPath(r) => writer'[o] = writer[o]
          /\ UNCHANGED <<asked, name, sent, failed, exists>>
      BY <2>0, <2>9 DEF Encrypt
    <3> QED
      BY <2>1, <3>2, <3>4, <3>5, <3>6, HeldWritten
  <2>10. CASE EncryptFails(r)
    <3>1. PICK len \in {"empty", "part"} :
            content' = [content EXCEPT ![EncryptedPath(r)] =
                          [of |-> content[ListPath(r)].of, len |-> len]]
      BY <2>10 DEF EncryptFails
    <3> DEFINE c == [of |-> content[ListPath(r)].of, len |-> len]
    <3>2. r \in readers[ListPath(r)]
      BY <2>10 DEF EncryptFails, Handles, Readers
    <3>3. /\ ListPath(r) \in Paths /\ EncryptedPath(r) \in Paths
          /\ ListPath(r) \in exists
      BY <2>0, <2>3, <2>10, <3>2 DEF EncryptFails
    <3>4. \E q \in Requests : name[q] = name[r] /\ asked[q] = c.of
      BY <2>1, <3>3 DEF Held, Disk
    <3>5. c \in Content
      BY <2>0, <3>3, ContentType DEF Content
    <3> HIDE DEF c
    <3>6. content' = [content EXCEPT ![EncryptedPath(r)] = c]
      BY <3>1 DEF c
    <3>7. /\ \A o \in Paths : o # EncryptedPath(r) => writer'[o] = writer[o]
          /\ failed'
          /\ UNCHANGED <<asked, name, sent, exists>>
      BY <2>0, <2>10 DEF EncryptFails
    <3> QED
      BY <2>1, <3>3, <3>4, <3>5, <3>6, <3>7, HeldWritten
  <2>11. CASE SendZero(r)
    <3>1. \A q \in Requests : HasList(sent'[q]) => sent'[q] = sent[q]
      BY <2>0, <2>11 DEF SendZero, HasList
    <3> QED
      BY <2>11, <3>1, HeldKept DEF SendZero
  <2>12. CASE SendFileData(r)
    <3> DEFINE c == content[EncryptedPath(r)]
    <3>1. r \in readers[EncryptedPath(r)]
      BY <2>12 DEF SendFileData, Handles, Readers
    <3>2. EncryptedPath(r) \in exists /\ writer[EncryptedPath(r)] = NoOne
      BY <2>0, <2>3, <2>12, <3>1 DEF SendFileData
    <3>3. /\ ~failed => c.len = "whole"
          /\ \E q \in Requests : name[q] = name[r] /\ asked[q] = c.of
      BY <2>1, <3>2 DEF Held, Disk
    <3> HIDE DEF c
    <3>4. /\ sent'[r].list = c
          /\ \A q \in Requests : q # r => sent'[q] = sent[q]
      BY <2>0, <2>12 DEF SendFileData, c
    <3>5. UNCHANGED <<asked, name, exists, content, writer, failed>>
      BY <2>12 DEF SendFileData
    <3>6. Disk'
      BY <3>5 DEF Held, Disk
    <3>7. WholeListSent'
      BY <3>3, <3>4, <3>5 DEF Held, Sent, WholeListSent
    <3>8. SentIsAskedFor'
      BY <3>3, <3>4, <3>5 DEF Held, Sent, SentIsAskedFor
    <3> QED
      BY <3>6, <3>7, <3>8 DEF Held, Sent
  <2>13. CASE DeleteList(r) \/ DeleteEncrypted(r)
    BY <2>13, HeldKept DEF DeleteList, DeleteEncrypted, Delete
  <2> QED
    BY <1>2, <2>4, <2>5, <2>6, <2>7, <2>8, <2>9, <2>10, <2>11, <2>12, <2>13
       DEF ProcessFileListRequest
<1> QED
  BY <1>1, <1>2 DEF Next

-----------------------------------------------------------------------------
(* Who is still to delete the files *)

LEMMA ResponsibleInit == Init => Responsible
BY DEF Init, Responsible

(* A step of r that makes no file: whoever was responsible still is, unless  *)
(* it is r that has done what made it so.                                    *)
LEMMA ResponsibleKept ==
  ASSUME Responsible, TypeInv, NEW r \in Requests,
         exists' \subseteq exists,
         \A q \in Requests : name[q] \in Times => name'[q] = name[q],
         \A q \in Requests : q # r => pc'[q] = pc[q] /\ sent'[q] = sent[q],
         pc[r] # "done",
         \A kind \in {"list", "encrypted"} : pc[r] \in Before(kind) =>
           pc'[r] \in Before(kind) \/ (pc'[r] = "done" /\ ~HasList(sent'[r]))
  PROVE  Responsible'
<1>1. \A p \in exists : p[1] \in Times /\ p[2] \in {"list", "encrypted"}
  BY DEF TypeInv, TypeOK, Paths
<1>2. SUFFICES ASSUME NEW p \in exists'
               PROVE  \E q \in Requests :
                        /\ name'[q] = p[1]
                        /\ \/ pc'[q] \in Before(p[2])
                           \/ pc'[q] = "done" /\ ~HasList(sent'[q])
  BY DEF Responsible, Before, Labels
<1>3. PICK q \in Requests :
        /\ name[q] = p[1]
        /\ \/ pc[q] \in Before(p[2])
           \/ pc[q] = "done" /\ ~HasList(sent[q])
  BY DEF Responsible
<1>4. name'[q] = p[1]
  BY <1>1, <1>3
<1>5. CASE q # r
  BY <1>3, <1>4, <1>5
<1>6. CASE q = r
  BY <1>1, <1>3, <1>4, <1>6
<1> QED
  BY <1>5, <1>6

(* A step of r that tries to delete the file o: if it fails, the thread that *)
(* has o open is still to delete it, or has failed.                          *)
LEMMA ResponsibleDelete ==
  ASSUME Responsible, Handles, TypeInv, NEW r \in Requests, NEW o \in Paths,
         Delete(o), o[1] = name[r],
         pc[r] \in {"delete_list", "delete_encrypted"},
         UNCHANGED <<name, sent>>,
         \A q \in Requests : q # r => pc'[q] = pc[q],
         \A kind \in {"list", "encrypted"} \ {o[2]} :
           pc[r] \in Before(kind) => pc'[r] \in Before(kind)
  PROVE  Responsible'
<1>0. /\ exists \subseteq Paths /\ exists' \subseteq exists
      /\ writer \in [Paths -> Requests \cup {NoOne}]
      /\ readers \in [Paths -> SUBSET Requests]
  BY DEF TypeInv, TypeOK, Delete
<1>1. \A p \in Paths : p = <<p[1], p[2]>> /\ p[2] \in {"list", "encrypted"}
  BY DEF Paths
<1>2. SUFFICES ASSUME NEW p \in exists'
               PROVE  \E q \in Requests :
                        /\ name[q] = p[1]
                        /\ \/ pc'[q] \in Before(p[2])
                           \/ pc'[q] = "done" /\ ~HasList(sent[q])
  BY DEF Responsible, Before, Labels
<1>3. CASE p # o
  <2>1. PICK q \in Requests :
          /\ name[q] = p[1]
          /\ \/ pc[q] \in Before(p[2])
             \/ pc[q] = "done" /\ ~HasList(sent[q])
    BY <1>0 DEF Responsible
  <2>2. CASE q = r
    BY <1>0, <1>1, <1>3, <2>1, <2>2
  <2>3. CASE q # r
    BY <2>1, <2>3
  <2> QED
    BY <2>2, <2>3
<1>4. CASE p = o
  <2>1. writer[o] # NoOne \/ readers[o] # {}
    BY <1>4 DEF Delete, Writable
  <2>2. CASE writer[o] # NoOne
    <3> DEFINE q == writer[o]
    <3>1. /\ q \in Requests
          /\ \/ pc[q] = "listing" /\ o = ListPath(q)
             \/ pc[q] = "encrypting" /\ o = EncryptedPath(q)
      BY <1>0, <2>2 DEF Handles, Writers
    <3> HIDE DEF q
    <3>2. name[q] = o[1] /\ q # r
      BY <3>1 DEF ListPath, EncryptedPath
    <3>3. pc[q] \in Before(o[2])
      BY <3>1 DEF Before, Labels
    <3> QED
      BY <1>4, <3>1, <3>2, <3>3
  <2>3. CASE readers[o] # {}
    <3>1. PICK q \in Requests :
            \/ pc[q] \in {"output", "encrypting"} /\ o = ListPath(q)
            \/ pc[q] \in {"size", "data"} /\ o = EncryptedPath(q)
            \/ pc[q] = "done" /\ o = EncryptedPath(q) /\ ~HasList(sent[q])
      BY <1>0, <2>3 DEF Handles, Readers
    <3>2. name[q] = o[1] /\ q # r
      BY <3>1 DEF ListPath, EncryptedPath
    <3>3. pc[q] \in Before(o[2]) \/ (pc[q] = "done" /\ ~HasList(sent[q]))
      BY <3>1 DEF Before, Labels
    <3> QED
      BY <1>4, <3>1, <3>2, <3>3
  <2> QED
    BY <2>1, <2>2, <2>3
<1> QED
  BY <1>3, <1>4

LEMMA ResponsibleStep == TypeInv /\ Handles /\ Responsible /\ [Next]_vars => Responsible'
<1> SUFFICES ASSUME TypeInv, Handles, Responsible, [Next]_vars PROVE Responsible'
  OBVIOUS
<1> USE DEF files
<1>1. CASE Tick \/ UNCHANGED vars
  BY <1>1 DEF Tick, vars, Responsible, Before
<1>2. ASSUME NEW r \in Requests, ProcessFileListRequest(r)
      PROVE  Responsible'
  <2>0. /\ pc \in [Requests -> Labels]
        /\ sent \in [Requests -> Answers]
        /\ NoOne \notin Times
        /\ \A p \in exists : p \in Paths /\ p[2] \in {"list", "encrypted"}
        /\ \A l : Goto(r, l) =>
             pc'[r] = l /\ \A q \in Requests : q # r => pc'[q] = pc[q]
        /\ pc[r] \notin {"header", "name", "done"} =>
             ListPath(r) \in Paths /\ EncryptedPath(r) \in Paths
        /\ HasList(sent[r]) => pc[r] \in {"delete_list", "delete_encrypted", "done"}
    BY RequestAssumption, PathFacts DEF TypeInv, TypeOK, Progress, Goto, Paths, Times
  <2>1. CASE ReceiveRequest(r)
    BY <2>0, <2>1, ResponsibleKept DEF ReceiveRequest, Before
  <2>2. CASE CreateFilesListFilePath(r)
    <3>1. \A q \in Requests : name[q] \in Times => name'[q] = name[q]
      BY <2>0, <2>2 DEF CreateFilesListFilePath, TypeInv, TypeOK, Progress
    <3> QED
      BY <2>0, <2>2, <3>1, ResponsibleKept DEF CreateFilesListFilePath, Before
  <2>3. CASE \/ ListRefused(r) \/ FinishList(r) \/ NoInput(r) \/ OpenInput(r)
             \/ NoOutput(r) \/ Encrypt(r) \/ EncryptFails(r)
             \/ OpenEncrypted(r) \/ NoEncrypted(r)
    <3>1. \E l \in {"encrypt", "open", "output", "size", "no_file"} : Goto(r, l)
      BY <2>3 DEF ListRefused, FinishList, NoInput, OpenInput, NoOutput, Encrypt,
         EncryptFails, OpenEncrypted, NoEncrypted
    <3>2. UNCHANGED <<exists, name, sent>> /\ pc[r] # "done"
      BY <2>3 DEF ListRefused, FinishList, NoInput, OpenInput, NoOutput, Encrypt,
         EncryptFails, OpenEncrypted, NoEncrypted
    <3>3. pc'[r] \in Before("list") \cap Before("encrypted")
      BY <2>0, <3>1 DEF Before, Labels
    <3> QED
      BY <2>0, <3>1, <3>2, <3>3, ResponsibleKept
  <2>4. CASE StartList(r) \/ OpenOutput(r)
    <3>1. /\ UNCHANGED <<name, sent>>
          /\ Goto(r, "listing") \/ Goto(r, "encrypting")
          /\ exists' = exists \cup {ListPath(r)} \/ exists' = exists \cup {EncryptedPath(r)}
      BY <2>4 DEF StartList, OpenOutput, CreateAlways
    <3>2. pc'[r] \in Before("list") \cap Before("encrypted")
      BY <2>0, <3>1 DEF Before, Labels
    <3>3. name[r] = ListPath(r)[1] /\ name[r] = EncryptedPath(r)[1]
          /\ ListPath(r)[2] = "list" /\ EncryptedPath(r)[2] = "encrypted"
      BY PathFacts
    <3>4. SUFFICES ASSUME NEW p \in exists'
                   PROVE  \E q \in Requests :
                            /\ name'[q] = p[1]
                            /\ \/ pc'[q] \in Before(p[2])
                               \/ pc'[q] = "done" /\ ~HasList(sent'[q])
      BY DEF Responsible, Before, Labels
    <3>5. CASE p \in exists
      <4>1. PICK q \in Requests :
              /\ name[q] = p[1]
              /\ \/ pc[q] \in Before(p[2])
                 \/ pc[q] = "done" /\ ~HasList(sent[q])
        BY <3>5 DEF Responsible
      <4>2. CASE q = r
        BY <2>0, <3>1, <3>2, <3>5, <4>1, <4>2
      <4>3. CASE q # r
        BY <2>0, <3>1, <4>1, <4>3
      <4> QED
        BY <4>2, <4>3
    <3>6. CASE p \notin exists
      <4>1. p \in {ListPath(r), EncryptedPath(r)}
        BY <3>1, <3>6
      <4>2. pc'[r] \in Before(p[2]) /\ name'[r] = p[1]
        BY <3>1, <3>2, <3>3, <4>1
      <4> QED
        BY <4>2
    <3> QED
      BY <3>5, <3>6
  <2>5. CASE SendZero(r)
    <3>1. ~HasList(sent'[r]) /\ \A q \in Requests : q # r => sent'[q] = sent[q]
      BY <2>0, <2>5 DEF SendZero, HasList
    <3> QED
      BY <2>0, <2>5, <3>1, ResponsibleKept DEF SendZero
  <2>6. CASE SendFileSize(r)
    <3>1. CASE Goto(r, "data")
      BY <2>0, <2>6, <3>1, ResponsibleKept DEF SendFileSize, Before, Labels
    <3>2. CASE Goto(r, "done")
      BY <2>0, <2>6, <3>2, ResponsibleKept DEF SendFileSize
    <3> QED
      BY <2>6, <3>1, <3>2 DEF SendFileSize
  <2>7. CASE SendFails(r)
    BY <2>0, <2>7, ResponsibleKept DEF SendFails
  <2>8. CASE SendFileData(r)
    <3>1. \A q \in Requests : q # r => sent'[q] = sent[q]
      BY <2>0, <2>8 DEF SendFileData
    <3>2. pc'[r] \in Before("list") \cap Before("encrypted")
      BY <2>0, <2>8 DEF SendFileData, Before, Labels
    <3> QED
      BY <2>0, <2>8, <3>1, <3>2, ResponsibleKept DEF SendFileData
  <2>9. CASE DeleteList(r)
    <3>1. ListPath(r)[1] = name[r] /\ ListPath(r)[2] = "list"
      BY PathFacts
    <3>2. pc'[r] \in Before("encrypted")
      BY <2>0, <2>9 DEF DeleteList, Before, Labels
    <3> QED
      BY <2>0, <2>9, <3>1, <3>2, ResponsibleDelete DEF DeleteList
  <2>10. CASE DeleteEncrypted(r)
    <3>1. EncryptedPath(r)[1] = name[r] /\ EncryptedPath(r)[2] = "encrypted"
      BY PathFacts
    <3>2. pc[r] \notin Before("list")
      BY <2>10 DEF DeleteEncrypted, Before
    <3> QED
      BY <2>0, <2>10, <3>1, <3>2, ResponsibleDelete DEF DeleteEncrypted
  <2> QED
    BY <1>2, <2>1, <2>2, <2>3, <2>4, <2>5, <2>6, <2>7, <2>8, <2>9, <2>10
       DEF ProcessFileListRequest
<1> QED
  BY <1>1, <1>2 DEF Next

-----------------------------------------------------------------------------
(* The theorems *)

IInv == TypeInv /\ Handles /\ Held /\ Responsible

LEMMA Invariance == Spec => []IInv
<1>1. Init => IInv
  BY TypeInit, HandlesInit, HeldInit, ResponsibleInit DEF IInv
<1>2. IInv /\ [Next]_vars => IInv'
  BY TypeStep, HandlesStep, HeldStep, ResponsibleStep DEF IInv
<1> QED
  BY <1>1, <1>2, PTL DEF Spec

(* Every variable keeps its type, for every number of requests, folders and  *)
(* milliseconds.                                                             *)
THEOREM RequestTypeCorrect == Spec => []TypeOK
<1>1. IInv => TypeOK
  BY DEF IInv, TypeInv
<1> QED
  BY <1>1, Invariance, PTL

(* Every list that SendFileData sends is a whole one, unless the disk failed, *)
(* however many requests share the temporary files of a millisecond.         *)
THEOREM WholeListCorrect == Spec => []WholeListSent
<1>1. IInv => WholeListSent
  BY DEF IInv, Held, Sent
<1> QED
  BY <1>1, Invariance, PTL

(* Every list that is sent is of a folder that a request of its millisecond  *)
(* asked for.                                                                *)
THEOREM AskedForCorrect == Spec => []SentIsAskedFor
<1>1. IInv => SentIsAskedFor
  BY DEF IInv, Held, Sent
<1> QED
  BY <1>1, Invariance, PTL

(* The temporary files of a millisecond whose requests have all been         *)
(* answered are deleted, although each DeleteFile may fail.                  *)
THEOREM NothingLeftCorrect == Spec => []NothingLeft
<1>1. IInv => NothingLeft
  BY DEF IInv, Responsible, NothingLeft, Answered, Before
<1> QED
  BY <1>1, Invariance, PTL

=============================================================================
