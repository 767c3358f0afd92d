------------------------ MODULE FolderDownloadProofs ------------------------
(***************************************************************************)
(* Proofs about FolderDownload, for any files, rounds and threads.         *)
(*                                                                         *)
(* A file that looks current is current because a file gets a time only    *)
(* when it is complete, from a list that is older than its content; a file *)
(* that was modified between the two has a time no version has any more.   *)
(* What makes that an invariant is that one thread at a time writes a file *)
(* (WriteInv): it alone decides what is in it until it sets the time.      *)
(***************************************************************************)
EXTENDS FolderDownload, TLAPS

(* A list is never newer than the files. *)
ListInv ==
  \A r \in Rounds, f \in Files :
    /\ f \in todo[r] \/ f \in pending[r] => list[r][f] \in Times
    /\ list[r][f] \in Versions => list[r][f] <= ver[f]

(* Nor is the time a thread has been given, or what the server sends. *)
ThreadInv ==
  \A t \in Threads :
    LET f == thread[t].file IN
    /\ thread[t] # Idle /\ thread[t].time \in Versions => thread[t].time <= ver[f]
    /\ thread[t].pc \in {"size", "data", "stamp", "spin"} =>
         /\ conn[t].of \in Versions /\ conn[t].of <= ver[f]
         /\ thread[t].time \in Versions => thread[t].time <= conn[t].of

(* One thread at a time writes a file, and what is in the file is from its   *)
(* connection.                                                               *)
WriteInv ==
  \A t \in Threads, f \in Files : Writing(t, f) =>
    /\ \A u \in Threads : Writing(u, f) => u = t
    /\ local[f].time = Unset
    /\ local[f].of = conn[t].of
    /\ thread[t].pc = "stamp" => local[f].got = SizeOf(f, conn[t].of)

(* A file with the time of a version is complete, and at least as new. *)
FileInv ==
  \A f \in Files : local[f].time \in Versions =>
    /\ local[f].time <= local[f].of /\ local[f].of <= ver[f]
    /\ local[f].got = SizeOf(f, local[f].of)

IInv == TypeOK /\ ListInv /\ ThreadInv /\ WriteInv /\ FileInv

-----------------------------------------------------------------------------
LEMMA InvImplies == IInv => SkippedIsCurrent
  <1> SUFFICES ASSUME IInv, NEW f \in Files, Same(f, ver[f]) PROVE Current(f)
    BY DEF SkippedIsCurrent
  <1> USE DEF IInv, TypeOK
  <1>1. ver[f] \in Versions /\ local[f] \in LocalFile
    OBVIOUS
  <1>2. local[f].time = ver[f] /\ local[f].got = SizeOf(f, ver[f])
    BY DEF Same
  <1>3. local[f].time <= local[f].of /\ local[f].of <= ver[f]
    BY <1>1, <1>2 DEF FileInv
  <1>4. local[f].of = ver[f]
    BY <1>1, <1>2, <1>3, DownloadAssumption DEF LocalFile, Versions, Unset
  <1> QED BY <1>2, <1>4 DEF Current

LEMMA InitInv == Init => IInv
  <1> SUFFICES ASSUME Init PROVE IInv
    OBVIOUS
  <1> USE DownloadAssumption DEF Init, Unset, Versions
  <1>1. TypeOK
    <2>1. local \in [Files -> LocalFile]
      BY DEF LocalFile, Absent
    <2>2. thread \in [Threads -> {Idle} \cup
                       [pc : {"request", "hang", "size", "data", "stamp", "spin"},
                        file : Files, time : Times]]
      OBVIOUS
    <2>3. conn \in [Threads -> [of : {Unset} \cup Versions, sent : Nat, open : BOOLEAN]]
      BY DEF Closed
    <2>4. ver \in [Files -> Versions]
      OBVIOUS
    <2>5. list \in [Rounds -> [Files -> {Unset} \cup Times]]
      OBVIOUS
    <2> QED BY <2>1, <2>2, <2>3, <2>4, <2>5 DEF TypeOK
  <1>2. ListInv
    BY DEF ListInv
  <1>3. ThreadInv
    BY DEF ThreadInv, Idle
  <1>4. WriteInv
    BY DEF WriteInv, Writing, Idle
  <1>5. FileInv
    BY DEF FileInv, Absent
  <1> QED BY <1>1, <1>2, <1>3, <1>4, <1>5 DEF IInv

-----------------------------------------------------------------------------
(* What the steps of a thread do to it and to its connection *)

Labels == {"request", "hang", "size", "data", "stamp", "spin"}
Working == [pc : Labels, file : Files, time : Times]

LEMMA ThreadType ==
  ASSUME TypeOK, NEW t \in Threads, thread[t].pc # "idle"
  PROVE  /\ thread[t] \in Working
         /\ thread[t] # Idle
  BY DEF TypeOK, Working, Labels, Idle

LEMMA WorkingNotIdle == ASSUME NEW w \in Working PROVE w # Idle
  BY DEF Working, Labels, Idle

(* Everything about a thread but its label stays. *)
Labelled(t, label) ==
  /\ thread' \in [Threads -> {Idle} \cup Working]
  /\ \A u \in Threads \ {t} : thread'[u] = thread[u]
  /\ thread'[t] \in Working
  /\ thread'[t].pc = label
  /\ thread'[t].file = thread[t].file
  /\ thread'[t].time = thread[t].time

LEMMA GotoLabels ==
  ASSUME TypeOK, NEW t \in Threads, thread[t].pc # "idle", NEW label \in Labels,
         Goto(t, label)
  PROVE  Labelled(t, label)
  <1>1. thread[t] \in Working
    BY ThreadType
  <1>2. [thread[t] EXCEPT !.pc = label] \in Working
    BY <1>1 DEF Working
  <1>3. thread' = [thread EXCEPT ![t] = [thread[t] EXCEPT !.pc = label]]
    BY DEF Goto
  <1>4. thread \in [Threads -> {Idle} \cup Working]
    BY DEF TypeOK, Working, Labels
  <1>5. thread'[t] = [thread[t] EXCEPT !.pc = label]
    BY <1>3, <1>4
  <1>6. /\ thread'[t].pc = label /\ thread'[t].file = thread[t].file
        /\ thread'[t].time = thread[t].time
    BY <1>1, <1>5 DEF Working
  <1> QED BY <1>2, <1>3, <1>4, <1>5, <1>6 DEF Labelled

Ended(t) ==
  /\ thread' \in [Threads -> {Idle} \cup Working]
  /\ \A u \in Threads \ {t} : thread'[u] = thread[u]
  /\ thread'[t] = Idle

LEMMA EndEnds == ASSUME TypeOK, NEW t \in Threads, End(t) PROVE Ended(t)
  BY DEF TypeOK, End, Ended, Working, Labels

(* The type of the threads, for both lemmas *)
LEMMA ThreadsTyped ==
  ASSUME thread' \in [Threads -> {Idle} \cup Working]
  PROVE  (thread \in [Threads -> {Idle} \cup
            [pc : {"request", "hang", "size", "data", "stamp", "spin"},
             file : Files, time : Times]])'
  BY DEF Working, Labels

-----------------------------------------------------------------------------
(* Type correctness *)

LEMMA GotMore == ASSUME NEW l \in LocalFile PROVE [l EXCEPT !.got = @ + 1] \in LocalFile
  BY DEF LocalFile

LEMMA TypeStep == ASSUME TypeOK, ListInv, [Next]_vars PROVE TypeOK'
  <1> USE DownloadAssumption DEF TypeOK, ListInv, LocalFile, Unset, Times, Cut, Versions
  <1>1. ASSUME NEW r \in Rounds, ReadList(r) PROVE TypeOK'
    BY SMTT(30), <1>1 DEF ReadList
  <1>2. ASSUME NEW r \in Rounds, NEW f \in Files, Compare(r, f) PROVE TypeOK'
    <2>1. PICK skip \in MaySkip(f, list[r][f]) :
            pending' = [pending EXCEPT ![r] = IF skip THEN @ ELSE @ \cup {f}]
      BY <1>2 DEF Compare
    <2> QED BY <1>2, <2>1 DEF Compare
  <1>3. ASSUME NEW r \in Rounds, NEW f \in Files, NEW t \in Threads, StartThread(r, f, t) PROVE TypeOK'
    BY <1>3 DEF StartThread
  <1>4. ASSUME NEW r \in Rounds, NEW f \in Files, NoThread(r, f) PROVE TypeOK'
    BY <1>4 DEF NoThread
  <1>5. ASSUME NEW t \in Threads, ServerOpens(t) PROVE TypeOK'
    <2>1. thread' \in [Threads -> {Idle} \cup Working]
      BY <1>5, GotoLabels DEF ServerOpens, Labels, Labelled
    <2>2. thread[t].file \in Files
      BY <1>5, ThreadType DEF ServerOpens, Working
    <2> QED BY <1>5, <2>1, <2>2, ThreadsTyped DEF ServerOpens
  <1>6. ASSUME NEW t \in Threads, ServerOpensEmpty(t) PROVE TypeOK'
    <2>1. thread' \in [Threads -> {Idle} \cup Working]
      BY <1>6, EndEnds DEF ServerOpensEmpty, Ended
    <2>2. thread[t].file \in Files
      BY <1>6, ThreadType DEF ServerOpensEmpty, Working
    <2> QED BY <1>6, <2>1, <2>2, ThreadsTyped DEF ServerOpensEmpty
  <1>7. ASSUME NEW t \in Threads, RequestFails(t) PROVE TypeOK'
    <2>1. thread' \in [Threads -> {Idle} \cup Working]
      BY <1>7, EndEnds DEF RequestFails, Ended
    <2>2. thread[t].file \in Files
      BY <1>7, ThreadType DEF RequestFails, Working
    <2> QED BY <1>7, <2>1, <2>2, ThreadsTyped DEF RequestFails
  <1>8. ASSUME NEW t \in Threads, NotServed(t) PROVE TypeOK'
    <2>1. thread' \in [Threads -> {Idle} \cup Working]
      BY <1>8, GotoLabels DEF NotServed, Labels, Labelled
    <2> QED BY <1>8, <2>1, ThreadsTyped DEF NotServed
  <1>9. ASSUME NEW t \in Threads, ServerSends(t) PROVE TypeOK'
    <2>1. conn' \in [Threads -> [of : {Unset} \cup Versions, sent : Nat, open : BOOLEAN]]
      BY <1>9 DEF ServerSends
    <2>2. UNCHANGED <<ver, held, local, list, todo, pending, thread, calm>>
      BY <1>9 DEF ServerSends, client
    <2> QED BY <2>1, <2>2
  <1>10. ASSUME NEW t \in Threads, ServerStops(t) PROVE TypeOK'
    <2>1. conn' \in [Threads -> [of : {Unset} \cup Versions, sent : Nat, open : BOOLEAN]]
      <3>1. conn' = [conn EXCEPT ![t].open = FALSE]
        BY <1>10 DEF ServerStops
      <3> QED BY <3>1
    <2>2. UNCHANGED <<ver, held, local, list, todo, pending, thread, calm>>
      BY <1>10 DEF ServerStops, client
    <2> QED BY <2>1, <2>2
  <1>11. CASE ServerRestarts
    <2>1. conn' \in [Threads -> [of : {Unset} \cup Versions, sent : Nat, open : BOOLEAN]]
      <3>1. conn' = [t \in Threads |-> [conn[t] EXCEPT !.open = FALSE]]
        BY <1>11 DEF ServerRestarts
      <3> QED BY <3>1
    <2>2. thread' \in [Threads -> {Idle} \cup Working]
      <3>1. thread' = [t \in Threads |-> IF thread[t].pc = "hang" THEN Idle ELSE thread[t]]
        BY <1>11 DEF ServerRestarts
      <3> QED BY <3>1 DEF Working, Labels
    <2>3. held' = {} /\ UNCHANGED <<ver, local, list, todo, pending, calm>>
      BY <1>11 DEF ServerRestarts
    <2> QED BY <2>1, <2>2, <2>3, ThreadsTyped
  <1>12. ASSUME NEW f \in Files, Modify(f) PROVE TypeOK'
    <2>1. ver' \in [Files -> Versions]
      BY <1>12 DEF Modify
    <2> QED BY <1>12, <2>1 DEF Modify, client
  <1>13. ASSUME NEW t \in Threads, CreateFile(t) PROVE TypeOK'
    <2>1. thread' \in [Threads -> {Idle} \cup Working]
      BY <1>13, GotoLabels DEF CreateFile, Labels, Labelled
    <2>2. local' \in [Files -> LocalFile]
      BY <1>13 DEF CreateFile
    <2> QED BY <1>13, <2>1, <2>2, ThreadsTyped DEF CreateFile
  <1>14. ASSUME NEW t \in Threads, CreateFileFails(t) PROVE TypeOK'
    <2>1. thread' \in [Threads -> {Idle} \cup Working]
      BY <1>14, EndEnds DEF CreateFileFails, Ended
    <2> QED BY <1>14, <2>1, ThreadsTyped DEF CreateFileFails, Hang, Closed
  <1>15. ASSUME NEW t \in Threads, Receive(t) PROVE TypeOK'
    <2>1. thread' \in [Threads -> {Idle} \cup Working]
      <3>1. CASE UNCHANGED thread
        BY <3>1 DEF Working, Labels
      <3>2. CASE Goto(t, "stamp")
        BY <1>15, <3>2, GotoLabels DEF Receive, Labels, Labelled
      <3> QED BY <1>15, <3>1, <3>2 DEF Receive
    <2>2. thread[t].file \in Files
      BY <1>15, ThreadType DEF Receive, Working
    <2>3. local' \in [Files -> LocalFile]
      <3> DEFINE f == thread[t].file
      <3>1. local' = [local EXCEPT ![f] = [local[f] EXCEPT !.got = @ + 1]]
        BY <1>15 DEF Receive
      <3>2. ASSUME NEW l \in LocalFile PROVE [l EXCEPT !.got = @ + 1] \in LocalFile
        BY GotMore
      <3>3. f \in Files
        BY <2>2
      <3> HIDE DEF LocalFile, f
      <3> QED BY <3>1, <3>2, <3>3
    <2> QED BY <1>15, <2>1, <2>3, ThreadsTyped DEF Receive
  <1>16. ASSUME NEW t \in Threads, ConnectionEnds(t) PROVE TypeOK'
    <2>1. thread' \in [Threads -> {Idle} \cup Working]
      BY <1>16, GotoLabels DEF ConnectionEnds, Labels, Labelled
    <2> QED BY <1>16, <2>1, ThreadsTyped DEF ConnectionEnds
  <1>17. ASSUME NEW t \in Threads, ReceiveFails(t) PROVE TypeOK'
    <2>1. thread' \in [Threads -> {Idle} \cup Working]
      BY <1>17, EndEnds DEF ReceiveFails, Ended
    <2> QED BY <1>17, <2>1, ThreadsTyped DEF ReceiveFails, Hang, Closed
  <1>18. ASSUME NEW t \in Threads, SetFileTime(t) PROVE TypeOK'
    <2>1. thread' \in [Threads -> {Idle} \cup Working]
      BY <1>18, EndEnds DEF SetFileTime, Ended
    <2>2. thread[t].file \in Files /\ thread[t].time \in Times
      BY <1>18, ThreadType DEF SetFileTime, Working
    <2>3. local' \in [Files -> LocalFile]
      <3> DEFINE f == thread[t].file
      <3>1. local' = [local EXCEPT ![f] = [local[f] EXCEPT !.time = thread[t].time]]
        BY <1>18 DEF SetFileTime
      <3>2. ASSUME NEW l \in LocalFile
            PROVE  [l EXCEPT !.time = thread[t].time] \in LocalFile
        BY <2>2
      <3>3. f \in Files
        BY <2>2
      <3> HIDE DEF LocalFile, f
      <3> QED BY <3>1, <3>2, <3>3
    <2> QED BY <1>18, <2>1, <2>3, ThreadsTyped DEF SetFileTime, Hang, Closed
  <1>19. CASE ClientRestarts
    BY <1>19 DEF ClientRestarts, Idle, Closed
  <1>20. CASE Calm
    BY <1>20 DEF Calm, client
  <1>21. CASE UNCHANGED vars
    BY <1>21 DEF vars, client
  <1> QED
    BY <1>1, <1>2, <1>3, <1>4, <1>5, <1>6, <1>7, <1>8, <1>9, <1>10, <1>11,
       <1>12, <1>13, <1>14, <1>15, <1>16, <1>17, <1>18, <1>19, <1>20, <1>21
       DEF Next, FolderDownloading, FileDownloading, ProcessDownloadFile

-----------------------------------------------------------------------------
(* The other conjuncts of the invariant *)

Rest == ListInv /\ ThreadInv /\ WriteInv /\ FileInv

(* A thread that ends without touching a file *)
LEMMA EndedRest ==
  ASSUME TypeOK, Rest, NEW t \in Threads, Ended(t),
         UNCHANGED <<ver, local, list, todo, pending>>,
         \A u \in Threads \ {t} : conn'[u] = conn[u]
  PROVE  Rest'
  <1>1. \A u \in Threads : thread'[u].pc # "idle" => u # t /\ thread'[u] = thread[u]
    BY DEF Ended, Idle
  <1>2. \A u \in Threads : thread'[u] # Idle => u # t
    BY DEF Ended
  <1>3. \A u \in Threads, f \in Files : Writing(u, f)' => u # t /\ Writing(u, f)
    BY <1>1 DEF Writing
  <1>4. ListInv'
    BY DEF Rest, ListInv
  <1>5. ThreadInv'
    BY <1>1, <1>2 DEF Rest, ThreadInv, Ended
  <1>6. WriteInv'
    BY <1>1, <1>3 DEF Rest, WriteInv, Writing
  <1>7. FileInv'
    BY DEF Rest, FileInv
  <1> QED BY <1>4, <1>5, <1>6, <1>7 DEF Rest

(* A thread that goes on to another label, writing a file as before or not   *)
LEMMA LabelledRest ==
  ASSUME TypeOK, Rest, NEW t \in Threads, thread[t] # Idle,
         NEW label \in Labels, Labelled(t, label),
         UNCHANGED <<ver, local, list, todo, pending, conn>>,
         label = "hang" \/ (label = "spin" /\ thread[t].pc = "data")
  PROVE  Rest'
  <1>1. ListInv'
    BY DEF Rest, ListInv
  <1>2. ThreadInv'
    BY DEF Rest, ThreadInv, Labelled
  <1>3. \A u \in Threads, f \in Files : Writing(u, f)' => Writing(u, f)
    BY DEF Labelled, Writing
  <1>4. \A u \in Threads : thread'[u].pc = "stamp" => thread[u].pc = "stamp"
    BY DEF Labelled
  <1>5. WriteInv'
    BY <1>3, <1>4 DEF Rest, WriteInv
  <1>6. FileInv'
    BY DEF Rest, FileInv
  <1> QED BY <1>1, <1>2, <1>5, <1>6 DEF Rest

LEMMA RestStep == ASSUME TypeOK, Rest, [Next]_vars, TypeOK' PROVE Rest'
  <1>1. ASSUME NEW r \in Rounds, ReadList(r) PROVE Rest'
    <2>1. ListInv'
      BY <1>1, DownloadAssumption
         DEF ReadList, TypeOK, Rest, ListInv, Unset, Cut, Times, Versions
    <2>2. ThreadInv' /\ WriteInv' /\ FileInv'
      BY <1>1 DEF ReadList, Rest, ThreadInv, WriteInv, Writing, FileInv
    <2> QED BY <2>1, <2>2 DEF Rest
  <1>2. ASSUME NEW r \in Rounds, NEW f \in Files, Compare(r, f) PROVE Rest'
    <2>1. \A q \in Rounds, g \in Files :
            g \in todo'[q] \/ g \in pending'[q] => g \in todo[q] \/ g \in pending[q]
      BY <1>2 DEF Compare, TypeOK
    <2>2. UNCHANGED <<ver, local, list, thread, conn>>
      BY <1>2 DEF Compare
    <2>3. ListInv'
      BY <2>1, <2>2 DEF Rest, ListInv
    <2> QED BY <2>2, <2>3 DEF Rest, ThreadInv, WriteInv, Writing, FileInv
  <1>3. ASSUME NEW r \in Rounds, NEW f \in Files, NEW t \in Threads, StartThread(r, f, t)
        PROVE  Rest'
    <2>1. list[r][f] \in Versions => list[r][f] <= ver[f]
      BY DEF Rest, ListInv
    <2>2. /\ thread'[t] = [pc |-> "request", file |-> f, time |-> list[r][f]]
          /\ \A u \in Threads \ {t} : thread'[u] = thread[u]
      BY <1>3 DEF StartThread, TypeOK
    <2>3. UNCHANGED <<ver, local, list, todo, conn>>
      BY <1>3 DEF StartThread
    <2>4. ListInv'
      BY <1>3, <2>3 DEF StartThread, TypeOK, Rest, ListInv
    <2>5. ThreadInv'
      BY <2>1, <2>2, <2>3 DEF Rest, ThreadInv
    <2>6. \A u \in Threads, g \in Files : Writing(u, g)' => u # t /\ Writing(u, g)
      BY <2>2 DEF Writing
    <2>7. WriteInv'
      BY <2>2, <2>3, <2>6 DEF Rest, WriteInv
    <2> QED BY <2>3, <2>4, <2>5, <2>7 DEF Rest, FileInv
  <1>4. ASSUME NEW r \in Rounds, NEW f \in Files, NoThread(r, f) PROVE Rest'
    <2>1. \A q \in Rounds, g \in Files : g \in pending'[q] => g \in pending[q]
      BY <1>4 DEF NoThread, TypeOK
    <2>2. UNCHANGED <<ver, local, list, todo, thread, conn>>
      BY <1>4 DEF NoThread
    <2>3. ListInv'
      BY <2>1, <2>2 DEF Rest, ListInv
    <2> QED BY <2>2, <2>3 DEF Rest, ThreadInv, WriteInv, Writing, FileInv
  <1>5. ASSUME NEW t \in Threads, ServerOpens(t) PROVE Rest'
    <2>1. Labelled(t, "size")
      BY <1>5, GotoLabels DEF ServerOpens, Labels
    <2>2. /\ conn'[t].of = ver[thread[t].file]
          /\ \A u \in Threads \ {t} : conn'[u] = conn[u]
      BY <1>5 DEF ServerOpens, TypeOK
    <2>3. UNCHANGED <<ver, local, list, todo, pending>>
      BY <1>5 DEF ServerOpens
    <2>4. thread[t] \in Working /\ thread[t] # Idle
      BY <1>5, ThreadType DEF ServerOpens
    <2>5. ver[thread[t].file] \in Versions /\ ver[thread[t].file] <= ver[thread[t].file]
      BY <2>4 DEF Working, TypeOK, Versions
    <2>6. ThreadInv'
      BY <2>1, <2>2, <2>3, <2>4, <2>5 DEF Labelled, Rest, ThreadInv
    <2>7. \A u \in Threads, g \in Files : Writing(u, g)' => u # t /\ Writing(u, g)
      BY <2>1 DEF Labelled, Writing
    <2>8. WriteInv'
      BY <2>1, <2>2, <2>3, <2>7 DEF Labelled, Rest, WriteInv
    <2> QED BY <2>3, <2>6, <2>8 DEF Rest, ListInv, FileInv
  <1>6. ASSUME NEW t \in Threads, ServerOpensEmpty(t) PROVE Rest'
    BY <1>6, EndEnds, EndedRest DEF ServerOpensEmpty
  <1>7. ASSUME NEW t \in Threads, RequestFails(t) PROVE Rest'
    BY <1>7, EndEnds, EndedRest DEF RequestFails
  <1>8. ASSUME NEW t \in Threads, NotServed(t) PROVE Rest'
    <2>1. thread[t] # Idle /\ Labelled(t, "hang")
      BY <1>8, ThreadType, GotoLabels DEF NotServed, Labels
    <2> QED BY <1>8, <2>1, LabelledRest DEF NotServed, Labels
  <1>9. ASSUME NEW t \in Threads, ServerSends(t) PROVE Rest'
    <2>1. \A u \in Threads : conn'[u].of = conn[u].of
      BY <1>9 DEF ServerSends, TypeOK
    <2> QED BY <1>9, <2>1 DEF ServerSends, client, Rest, ListInv, ThreadInv, WriteInv,
                              Writing, FileInv
  <1>10. ASSUME NEW t \in Threads, ServerStops(t) PROVE Rest'
    <2>1. \A u \in Threads : conn'[u].of = conn[u].of
      BY <1>10 DEF ServerStops, TypeOK
    <2> QED BY <1>10, <2>1 DEF ServerStops, client, Rest, ListInv, ThreadInv, WriteInv,
                               Writing, FileInv
  <1>11. CASE ServerRestarts
    <2>1. \A u \in Threads : /\ conn'[u].of = conn[u].of
                             /\ thread'[u] = thread[u] \/ thread'[u] = Idle
      BY <1>11 DEF ServerRestarts, TypeOK
    <2>2. \A u \in Threads : thread'[u].pc # "idle" => thread'[u] = thread[u]
      BY <2>1 DEF Idle
    <2>3. UNCHANGED <<ver, local, list, todo, pending>>
      BY <1>11 DEF ServerRestarts
    <2>4. ThreadInv'
      BY <2>1, <2>2, <2>3 DEF Rest, ThreadInv
    <2>5. \A u \in Threads, g \in Files : Writing(u, g)' => Writing(u, g)
      BY <2>2 DEF Writing
    <2>6. WriteInv'
      BY <2>1, <2>2, <2>3, <2>5 DEF Rest, WriteInv
    <2> QED BY <2>3, <2>4, <2>6 DEF Rest, ListInv, FileInv
  <1>12. ASSUME NEW f \in Files, Modify(f) PROVE Rest'
    <2>1. ver \in [Files -> Versions] /\ ver' \in [Files -> Versions]
      BY DEF TypeOK
    <2>2. \A g \in Files : ver[g] <= ver'[g]
      BY <1>12, <2>1 DEF Modify, Versions
    <2>3. \A g \in Files, v \in Versions : v <= ver[g] => v <= ver'[g]
      BY <2>1, <2>2 DEF Versions
    <2>4. UNCHANGED <<local, list, todo, pending, thread, conn>>
      BY <1>12 DEF Modify, client
    <2>5. ListInv'
      BY <2>3, <2>4 DEF Rest, ListInv
    <2>6. \A u \in Threads : thread[u] # Idle => thread[u].file \in Files
      BY DEF TypeOK
    <2>7. \A u \in Threads : thread[u].pc # "idle" => thread[u] # Idle
      BY DEF Idle
    <2>8. ThreadInv'
      BY <2>3, <2>4, <2>6, <2>7 DEF Rest, ThreadInv
    <2>9. WriteInv'
      BY <2>4 DEF Rest, WriteInv, Writing
    <2>10. FileInv'
      <3>1. \A g \in Files : local[g].time \in Versions => local[g].of \in Versions
        <4> SUFFICES ASSUME NEW g \in Files, local[g].time \in Versions
                     PROVE  local[g].of \in Versions
          OBVIOUS
        <4>1. local[g].time <= local[g].of
          BY DEF Rest, FileInv
        <4>2. local[g].of \in {Unset} \cup Versions
          BY DEF TypeOK, LocalFile
        <4> QED BY <4>1, <4>2, DownloadAssumption DEF Versions, Unset
      <3> QED BY <2>3, <2>4, <3>1 DEF Rest, FileInv
    <2> QED BY <2>5, <2>8, <2>9, <2>10 DEF Rest
  <1>13. ASSUME NEW t \in Threads, CreateFile(t) PROVE Rest'
    <2> DEFINE f == thread[t].file
    <2>1. thread[t] \in Working /\ thread[t] # Idle /\ f \in Files
      BY <1>13, ThreadType DEF CreateFile, Working
    <2>2. /\ local'[f] = [time |-> Unset, of |-> conn[t].of, got |-> 0]
          /\ \A g \in Files \ {f} : local'[g] = local[g]
      BY <1>13, <2>1 DEF CreateFile, TypeOK
    <2>3. UNCHANGED <<ver, list, todo, pending, conn>>
      BY <1>13 DEF CreateFile
    <2>4. Labelled(t, "data")
      BY <1>13, GotoLabels DEF CreateFile, Labels
    <2>5. \A u \in Threads : ~Writing(u, f)
      BY <1>13 DEF CreateFile, Locked
    <2>6. \A u \in Threads, g \in Files :
            Writing(u, g)' => (u = t /\ g = f) \/ (u # t /\ g # f /\ Writing(u, g))
      BY <2>4, <2>5 DEF Labelled, Writing
    <2>7. ThreadInv'
      BY <1>13, <2>1, <2>3, <2>4 DEF Labelled, CreateFile, Rest, ThreadInv
    <2> HIDE DEF f
    <2>8. WriteInv'
      BY <2>2, <2>3, <2>4, <2>6 DEF Labelled, Rest, WriteInv
    <2>9. FileInv'
      BY <2>2, <2>3 DEF Rest, FileInv, Unset, Versions
    <2> QED BY <2>3, <2>7, <2>8, <2>9 DEF Rest, ListInv
  <1>14. ASSUME NEW t \in Threads, CreateFileFails(t) PROVE Rest'
    <2>1. \A u \in Threads \ {t} : conn'[u] = conn[u]
      BY <1>14 DEF CreateFileFails, Hang, TypeOK
    <2> QED BY <1>14, <2>1, EndEnds, EndedRest DEF CreateFileFails
  <1>15. ASSUME NEW t \in Threads, Receive(t) PROVE Rest'
    <2> DEFINE f == thread[t].file
    <2>1. thread[t] \in Working /\ thread[t] # Idle /\ f \in Files /\ Writing(t, f)
      BY <1>15, ThreadType DEF Receive, Working, Writing
    <2>2. local[f].time = Unset /\ local[f].of = conn[t].of
      BY <2>1 DEF Rest, WriteInv
    <2>3. /\ local'[f] = [local[f] EXCEPT !.got = @ + 1]
          /\ \A g \in Files \ {f} : local'[g] = local[g]
      BY <1>15, <2>1 DEF Receive, TypeOK
    <2>4. /\ local'[f].time = Unset /\ local'[f].of = conn[t].of
          /\ local'[f].got = local[f].got + 1
      BY <2>1, <2>2, <2>3 DEF TypeOK, LocalFile
    <2>5. UNCHANGED <<ver, list, todo, pending, conn>>
      BY <1>15 DEF Receive
    <2>6. \/ UNCHANGED thread
          \/ Labelled(t, "stamp") /\ local'[f].got = SizeOf(f, conn[t].of)
      BY <1>15, <2>4, GotoLabels DEF Receive, Labels
    <2>7. \A u \in Threads : thread'[u].file = thread[u].file /\ thread'[u].time = thread[u].time
      BY <2>6 DEF Labelled
    <2>8. \A u \in Threads \ {t} : thread'[u] = thread[u]
      BY <2>6 DEF Labelled
    <2>9. thread'[t].pc \in {"data", "stamp"} /\ thread[t].pc = "data"
      BY <1>15, <2>6 DEF Labelled, Receive
    <2>10. thread'[t].pc = "stamp" => local'[f].got = SizeOf(f, conn[t].of)
      BY <2>6, <2>9
    <2>11. \A u \in Threads, g \in Files : Writing(u, g)' => Writing(u, g)
      BY <2>7, <2>8, <2>9 DEF Writing
    <2>12. \A u \in Threads : Writing(u, f) => u = t
      BY <2>1 DEF Rest, WriteInv
    <2>13. \A g \in Files : Writing(t, g) => g = f
      BY DEF Writing
    <2>14. ThreadInv'
      <3>1. thread'[t] # Idle => thread[t] # Idle
        BY <2>1
      <3> QED BY <2>5, <2>7, <2>8, <2>9, <3>1 DEF Rest, ThreadInv
    <2> HIDE DEF f
    <2>15. WriteInv'
      <3> SUFFICES ASSUME NEW u \in Threads, NEW g \in Files, Writing(u, g)'
                   PROVE  /\ \A w \in Threads : Writing(w, g)' => w = u
                          /\ local'[g].time = Unset
                          /\ local'[g].of = conn'[u].of
                          /\ thread'[u].pc = "stamp" =>
                               local'[g].got = SizeOf(g, conn'[u].of)
        BY DEF WriteInv
      <3>1. Writing(u, g)
        BY <2>11
      <3>2. CASE g = f
        BY <2>4, <2>5, <2>10, <2>11, <2>12, <3>1, <3>2
      <3>3. CASE g # f
        <4>1. u # t
          BY <2>13, <3>1, <3>3
        <4> QED BY <2>3, <2>5, <2>8, <2>11, <3>1, <3>3, <4>1 DEF Rest, WriteInv
      <3> QED BY <3>2, <3>3
    <2>16. FileInv'
      <3>1. local'[f].time \notin Versions
        BY <2>4 DEF Unset, Versions
      <3> QED BY <2>3, <2>5, <3>1 DEF Rest, FileInv
    <2> QED BY <2>5, <2>14, <2>15, <2>16 DEF Rest, ListInv
  <1>16. ASSUME NEW t \in Threads, ConnectionEnds(t) PROVE Rest'
    <2>1. thread[t] # Idle /\ Labelled(t, "spin")
      BY <1>16, ThreadType, GotoLabels DEF ConnectionEnds, Labels
    <2> QED BY <1>16, <2>1, LabelledRest DEF ConnectionEnds, Labels
  <1>17. ASSUME NEW t \in Threads, ReceiveFails(t) PROVE Rest'
    <2>1. \A u \in Threads \ {t} : conn'[u] = conn[u]
      BY <1>17 DEF ReceiveFails, Hang, TypeOK
    <2> QED BY <1>17, <2>1, EndEnds, EndedRest DEF ReceiveFails
  <1>18. ASSUME NEW t \in Threads, SetFileTime(t) PROVE Rest'
    <2> DEFINE f == thread[t].file
    <2>1. thread[t] \in Working /\ f \in Files /\ Writing(t, f) /\ thread[t].pc = "stamp"
      BY <1>18, ThreadType DEF SetFileTime, Working, Writing
    <2>2. /\ local[f].of = conn[t].of /\ local[f].got = SizeOf(f, conn[t].of)
          /\ \A u \in Threads : Writing(u, f) => u = t
      BY <2>1 DEF Rest, WriteInv
    <2>3. /\ local'[f] = [local[f] EXCEPT !.time = thread[t].time]
          /\ \A g \in Files \ {f} : local'[g] = local[g]
      BY <1>18, <2>1 DEF SetFileTime, TypeOK
    <2>4. /\ local'[f].time = thread[t].time
          /\ local'[f].of = local[f].of /\ local'[f].got = local[f].got
      BY <2>1, <2>3 DEF TypeOK, LocalFile
    <2>5. UNCHANGED <<ver, list, todo, pending>>
      BY <1>18 DEF SetFileTime
    <2>6. \A u \in Threads \ {t} : conn'[u] = conn[u]
      BY <1>18 DEF SetFileTime, Hang, TypeOK
    <2>7. Ended(t)
      BY <1>18, EndEnds DEF SetFileTime
    <2>8. \A u \in Threads : thread'[u].pc # "idle" => u # t /\ thread'[u] = thread[u]
      BY <2>7 DEF Ended, Idle
    <2>9. \A u \in Threads : thread'[u] # Idle => u # t
      BY <2>7 DEF Ended
    <2>10. ThreadInv'
      BY <2>5, <2>6, <2>7, <2>8, <2>9 DEF Ended, Rest, ThreadInv
    <2>11. /\ conn[t].of <= ver[f]
           /\ thread[t].time \in Versions => thread[t].time <= conn[t].of
      BY <2>1 DEF Rest, ThreadInv
    <2> HIDE DEF f
    <2>12. \A u \in Threads, g \in Files : Writing(u, g)' => u # t /\ g # f /\ Writing(u, g)
      BY <2>2, <2>8 DEF Writing
    <2>13. WriteInv'
      BY <2>3, <2>6, <2>8, <2>12 DEF Rest, WriteInv, Writing
    <2>14. FileInv'
      BY <2>2, <2>3, <2>4, <2>5, <2>11 DEF Rest, FileInv
    <2> QED BY <2>5, <2>10, <2>13, <2>14 DEF Rest, ListInv
  <1>19. CASE ClientRestarts
    <2>1. \A u \in Threads : thread'[u] = Idle
      BY <1>19 DEF ClientRestarts
    <2>2. \A r \in Rounds, f \in Files :
            list'[r][f] \notin Versions /\ f \notin todo'[r] /\ f \notin pending'[r]
      BY <1>19 DEF ClientRestarts, Unset, Versions
    <2>3. ListInv'
      BY <2>2 DEF ListInv
    <2>4. ThreadInv'
      BY <2>1 DEF ThreadInv, Idle
    <2>5. WriteInv'
      BY <2>1 DEF WriteInv, Writing, Idle
    <2> QED BY <1>19, <2>3, <2>4, <2>5 DEF ClientRestarts, Rest, FileInv
  <1>20. CASE Calm
    BY <1>20 DEF Calm, client, Rest, ListInv, ThreadInv, WriteInv, Writing, FileInv
  <1>21. CASE UNCHANGED vars
    BY <1>21 DEF vars, client, Rest, ListInv, ThreadInv, WriteInv, Writing, FileInv
  <1> QED
    BY <1>1, <1>2, <1>3, <1>4, <1>5, <1>6, <1>7, <1>8, <1>9, <1>10, <1>11,
       <1>12, <1>13, <1>14, <1>15, <1>16, <1>17, <1>18, <1>19, <1>20, <1>21
       DEF Next, FolderDownloading, FileDownloading, ProcessDownloadFile

-----------------------------------------------------------------------------
(* The theorems *)

THEOREM Invariance == Spec => []IInv
  <1>1. IInv /\ [Next]_vars => IInv'
    BY TypeStep, RestStep DEF IInv, Rest
  <1> QED BY <1>1, InitInv, PTL DEF Spec

(* Every variable has its type. *)
THEOREM DownloadTypes == Spec => []TypeOK
  <1>1. IInv => TypeOK
    BY DEF IInv
  <1> QED BY <1>1, Invariance, PTL

(* A file that the client would skip, by time and size, is the server's file, *)
(* however lists, downloads, modifications, failures and restarts interleave. *)
THEOREM SkippedCorrect == Spec => []SkippedIsCurrent
  BY InvImplies, Invariance, PTL

=============================================================================
