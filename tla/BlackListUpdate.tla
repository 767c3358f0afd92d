--------------------------- MODULE BlackListUpdate ---------------------------
(***************************************************************************)
(* The black list of Dummy.  A timer asks the master for a newer list      *)
(* than the one of m_stLastModifyBlackList, downloads it, decodes it and   *)
(* imports it line by line into blacklisttb, a table it shares with the    *)
(* administrator, whose rows it must leave alone.                          *)
(*                                                                         *)
(* The program has one thread.  But a query that fails shows a message     *)
(* box, and while it is open the timer goes on: a second update then runs  *)
(* to its end in the middle of the first.  stack holds the updates under   *)
(* way, the innermost last.                                                *)
(***************************************************************************)
EXTENDS Integers, Sequences

CONSTANTS
  URL,          \* addresses
  Matches,      \* <<p, u>>: SQL's LIKE with the pattern p holds for u ('_', '%')
  Lists,        \* the lists the master may publish, sequences of URL
  MaxVersion,   \* bound: lists published
  MaxNested,    \* bound: updates under way at once
  NoFile, None  \* wblistex.vcs does not exist; no import has succeeded since

ASSUME BlackListAssumption ==
  /\ Matches \subseteq URL \X URL
  /\ \A u \in URL : <<u, u>> \in Matches
  /\ Lists \subseteq Seq(URL)
  /\ MaxVersion \in Nat /\ MaxNested \in Nat
  /\ NoFile \notin [lines : Seq(URL), time : Nat]
  /\ None \notin Seq(URL)

VARIABLES
  list,       \* the master: the lists published so far; a list's time is its place
  m_stLastModifyBlackList,  \* 0: never set in this process
  file,       \* wblistex.vcs, its decoded lines and its time of modification
  info,       \* blacklisttb: the rows with AddedBy = 3
  own,        \* blacklisttb: the addresses of the administrator's active rows
  stack,      \* the calls of UpdateBlackList, the innermost last
  imported,   \* history: the lines of the last import that succeeded, nothing changed since
  ownOnce,    \* history: addresses that have been in own
  calm        \* from here on nothing fails

vars == <<list, m_stLastModifyBlackList, file, info, own, stack, imported, ownOnce, calm>>

Row == [url : URL, active : BOOLEAN]
Call == [pc : {"download", "decode", "mark", "line", "box", "stamp"},
         lines : Seq(URL),   \* what the temporary file holds
         at : Nat,           \* the line that is next
         asked : BOOLEAN]    \* history: its user was shown a message box

TypeOK ==
  /\ list \in Seq(Lists)
  /\ m_stLastModifyBlackList \in 0 .. Len(list)
  /\ file = NoFile \/ file \in [lines : Seq(URL), time : 0 .. Len(list)]
  /\ info \subseteq Row
  /\ own \subseteq ownOnce /\ ownOnce \subseteq URL
  /\ stack \in Seq(Call)
  /\ \A i \in 1 .. Len(stack) - 1 : stack[i].pc = "box"
  /\ \A i \in 1 .. Len(stack) : stack[i].pc # "download" => file # NoFile
  /\ imported = None \/ imported \in Seq(URL)
  /\ calm \in BOOLEAN

Init ==
  /\ list = <<>> /\ m_stLastModifyBlackList = 0 /\ file = NoFile
  /\ info = {} /\ own = {} /\ stack = <<>>
  /\ imported = None /\ ownOnce = {} /\ calm = FALSE

Top == stack[Len(stack)]
At(pc) == stack # <<>> /\ Top.pc = pc
Return == stack' = SubSeq(stack, 1, Len(stack) - 1)
GoTo(call) == stack' = [stack EXCEPT ![Len(stack)] = call]
Lines(s) == {s[i] : i \in 1 .. Len(s)}
Prefix(s, n) == SubSeq(s, 1, n)
Database == <<info, own, ownOnce, imported>>

-----------------------------------------------------------------------------
(* IsNeedDownloadBlackList.  The master answers with the newest list if it is
   newer than the time it is told; that time is stored before anything has been
   downloaded.  An answer that fails or is empty changes nothing. *)
LastModified ==
  IF file = NoFile THEN 0
  ELSE IF m_stLastModifyBlackList = 0 THEN file.time ELSE m_stLastModifyBlackList

IsNeedDownloadBlackList ==
  /\ stack # <<>> => Top.pc = "box"
  /\ Len(stack) < MaxNested
  /\ LastModified < Len(list)
  /\ m_stLastModifyBlackList' = Len(list)
  /\ stack' = Append(stack, [pc |-> "download", lines |-> <<>>, at |-> 1, asked |-> FALSE])
  /\ UNCHANGED <<list, file, Database, calm>>

(* Download.  The address may already name a newer list.  The file is emptied
   first and gets the time it is written at; a read error ends the loop like the
   end of the list does, and the result is TRUE. *)
SaveFile ==
  \E v \in m_stLastModifyBlackList .. Len(list) : \E n \in 0 .. Len(list[v]) :
    /\ calm => n = Len(list[v])
    /\ file' = [lines |-> Prefix(list[v], n), time |-> Len(list)]

Download ==
  /\ At("download")
  /\ SaveFile
  /\ GoTo([Top EXCEPT !.pc = "decode"])
  /\ UNCHANGED <<list, m_stLastModifyBlackList, Database, calm>>

(* Mutant: The result of Download is ignored. *)
DownloadFails_Ignored ==
  /\ ~calm /\ At("download")
  /\ SaveFile \/ UNCHANGED file
  /\ GoTo([Top EXCEPT !.pc = "decode"])
  /\ UNCHANGED <<list, m_stLastModifyBlackList, Database, calm>>

DownloadFails ==
  /\ ~calm /\ At("download")
  /\ SaveFile \/ UNCHANGED file
  /\ Return
  /\ UNCHANGED <<list, m_stLastModifyBlackList, Database, calm>>

(* Decode has no result: when it fails the temporary file is short or empty. *)
Decode ==
  /\ At("decode")
  /\ \E n \in 0 .. Len(file.lines) :
       /\ calm => n = Len(file.lines)
       /\ GoTo([Top EXCEPT !.pc = "mark", !.lines = Prefix(file.lines, n)])
  /\ UNCHANGED <<list, m_stLastModifyBlackList, file, Database, calm>>

CreateTempFilePathFails ==
  /\ ~calm /\ At("decode")
  /\ Return
  /\ UNCHANGED <<list, m_stLastModifyBlackList, file, Database, calm>>

-----------------------------------------------------------------------------
(* Read.  Every statement is its own transaction. *)
UpdateActive(urls, new) ==
  info' = {IF r.url \in urls THEN [r EXCEPT !.active = new] ELSE r : r \in info}
Matched(p) == {u \in URL : <<p, u>> \in Matches}
(* Mutant: The two sides of LIKE swapped. *)
CheckURLExist_Swapped(u) ==
  \E w \in own \cup {r.url : r \in info} : <<w, u>> \in Matches

CheckURLExist(u) == Matched(u) \cap (own \cup {r.url : r \in info}) # {}
InsertURL(u) == info' = info \cup {[url |-> u, active |-> TRUE]}

(* Mutant: The rows are not marked before an import. *)
MarkInactive_Not ==
  /\ At("mark")
  /\ imported' = None
  /\ GoTo([Top EXCEPT !.pc = "line"])
  /\ UNCHANGED <<list, m_stLastModifyBlackList, file, info, own, ownOnce, calm>>

MarkInactive ==
  /\ At("mark")
  /\ UpdateActive(URL, FALSE)
  /\ imported' = None
  /\ GoTo([Top EXCEPT !.pc = "line"])
  /\ UNCHANGED <<list, m_stLastModifyBlackList, file, own, ownOnce, calm>>

(* One line.  The administrator cannot change a row with AddedBy = 3, so nothing
   comes between the query and the statement that follows it. *)
ProcessURL ==
  /\ At("line") /\ Top.at <= Len(Top.lines)
  /\ LET u == Top.lines[Top.at]
     IN  \/ CheckURLExist(u) /\ UpdateActive(Matched(u), TRUE)
         \/ ~CheckURLExist(u) /\ InsertURL(u)
  /\ GoTo([Top EXCEPT !.at = @ + 1])
  /\ UNCHANGED <<list, m_stLastModifyBlackList, file, own, imported, ownOnce, calm>>

(* A query that fails shows a message box, and then counts as "not found". *)
ExecuteQueryFails ==
  /\ ~calm /\ At("line") /\ Top.at <= Len(Top.lines)
  /\ GoTo([Top EXCEPT !.pc = "box", !.asked = TRUE])
  /\ UNCHANGED <<list, m_stLastModifyBlackList, file, Database, calm>>

MessageBoxCloses ==
  /\ At("box")
  /\ InsertURL(Top.lines[Top.at])
  /\ imported' = None
  /\ GoTo([Top EXCEPT !.pc = "line", !.at = @ + 1])
  /\ UNCHANGED <<list, m_stLastModifyBlackList, file, own, ownOnce, calm>>

(* Mutant: The inactive rows are deleted on the way out of a failed import as well. *)
ReadFails_Removes ==
  /\ ~calm /\ stack # <<>> /\ Top.pc \in {"mark", "line", "box"}
  /\ info' = {r \in info : r.active}
  /\ Return
  /\ UNCHANGED <<list, m_stLastModifyBlackList, file, own, imported, ownOnce, calm>>

(* No connection, no temporary file, or a statement that fails. *)
ReadFails ==
  /\ ~calm /\ stack # <<>> /\ Top.pc \in {"mark", "line", "box"}
  /\ Return
  /\ UNCHANGED <<list, m_stLastModifyBlackList, file, Database, calm>>

RemoveInactiveURL ==
  /\ At("line") /\ Top.at > Len(Top.lines)
  /\ info' = {r \in info : r.active}
  /\ imported' = IF Top.asked THEN None ELSE Top.lines
  /\ GoTo([Top EXCEPT !.pc = "stamp"])
  /\ UNCHANGED <<list, m_stLastModifyBlackList, file, own, ownOnce, calm>>

(* The file gets the time of the list that was offered last. *)
UpdateFileTime ==
  /\ At("stamp")
  /\ file' = [file EXCEPT !.time = m_stLastModifyBlackList]
  /\ Return
  /\ UNCHANGED <<list, m_stLastModifyBlackList, Database, calm>>

UpdateFileTimeFails ==
  /\ ~calm /\ At("stamp")
  /\ Return
  /\ UNCHANGED <<list, m_stLastModifyBlackList, file, Database, calm>>

-----------------------------------------------------------------------------
Publish ==
  /\ Len(list) < MaxVersion
  /\ \E l \in Lists : list' = Append(list, l)
  /\ UNCHANGED <<m_stLastModifyBlackList, file, Database, stack, calm>>

AdministratorEdits ==
  /\ \E u \in URL : own' \in {own \cup {u}, own \ {u}}
  /\ ownOnce' = ownOnce \cup own'
  /\ UNCHANGED <<list, m_stLastModifyBlackList, file, info, stack, imported, calm>>

Restart ==
  /\ ~calm
  /\ m_stLastModifyBlackList' = 0 /\ stack' = <<>>
  /\ UNCHANGED <<list, file, Database, calm>>

(* From here on nothing fails; a list is still to be published, and no message
   box is open. *)
Calm ==
  /\ ~calm /\ Len(list) < MaxVersion
  /\ stack # <<>> => Top.pc # "box" /\ Len(stack) = 1
  /\ calm' = TRUE
  /\ UNCHANGED <<list, m_stLastModifyBlackList, file, Database, stack>>

UpdateBlackList ==
  \/ Download \/ DownloadFails
  \/ Decode \/ CreateTempFilePathFails
  \/ MarkInactive \/ ProcessURL \/ ExecuteQueryFails \/ MessageBoxCloses
  \/ ReadFails \/ RemoveInactiveURL
  \/ UpdateFileTime \/ UpdateFileTimeFails

Next ==
  \/ IsNeedDownloadBlackList \/ UpdateBlackList
  \/ Publish \/ AdministratorEdits \/ Restart \/ Calm

Spec == Init /\ [][Next]_vars

(* The timer is never killed, and the thread runs. *)
FairSpec == Spec /\ WF_vars(IsNeedDownloadBlackList) /\ WF_vars(UpdateBlackList)

-----------------------------------------------------------------------------
Covers(lines) ==
  /\ \A u \in Lines(lines) :
       \/ \E r \in info : r.active /\ r.url \in Matched(u)
       \/ ownOnce \cap Matched(u) # {}
  /\ \A r \in info : r.active /\ \E u \in Lines(lines) : r.url \in Matched(u)

(* After an import that succeeded without a message box (BlackListReader.cpp:20)
   the rows of the program are those of the list: every line is in force, through
   a row that its pattern matches, and no row is inactive or of another list -
   whatever failed imports, cut downloads, nested updates and the administrator
   did before. *)
ImportedWhole == imported # None => Covers(imported)

(* An address leaves the table only when the list being imported does not
   contain it (BlackListReader.cpp:33-53: all are marked, those of the list are
   unmarked, the rest deleted), however earlier imports have ended; unless a
   message box let another import in between. *)
DeletesOnlyDropped ==
  [][\A r \in info :
       r.url \in {q.url : q \in info'} \/
       (stack # <<>> /\ (Top.asked \/ \A u \in Lines(Top.lines) : r.url \notin Matched(u)))]_vars

(* The time of a list is stored before the list has arrived (DummyDlg.cpp:570),
   so a failure loses it; the next list that is published while nothing fails is
   imported all the same, after whatever failures. *)
Heals == calm /\ Len(list) = MaxVersion ~> [](list # <<>> /\ Covers(list[Len(list)]))

==============================================================================
