----------------------------- MODULE WebHistory -----------------------------
(***************************************************************************)
(* Which visits of a browser the CSM client reports.  CWebHistory looks    *)
(* into the browser's database every 15 seconds and sends what is newer    *)
(* than m_strLastID, the id of the last row it has read.  The browser      *)
(* meanwhile adds rows, and deletes them: SQLite gives a new row the       *)
(* highest id in the table plus one, so ids come back.                     *)
(*                                                                         *)
(* Visits are numbered in the order they are made; the number is not part  *)
(* of the database.                                                        *)
(***************************************************************************)
EXTENDS Integers, Sequences, FiniteSets

CONSTANTS
  Place,        \* addresses
  MaxVisits,    \* bound: visits made
  MaxSecond,    \* bound: the clock
  FIREFOX_BROWSER, CHROME_BROWSER

ASSUME HistoryAssumption ==
  /\ MaxVisits \in Nat /\ MaxSecond \in Nat \ {0}
  /\ FIREFOX_BROWSER # CHROME_BROWSER

VARIABLES
  m_bBrowserType,
  m_bInit, m_strLastID,
  inPlace,      \* m_strHistoryTempPath is the browser's own file, not a copy
  rows,         \* the rows of the query that are still to be handled
  strPreURL,    \* the date of the row before (the code keeps it under this name)
  visits,       \* the browser: all visits ever made
  live,         \* the visits that are in its database
  now,
  start,        \* history: the visits made before GetLastID
  told,         \* history: the rows given to SendMsgToServer
  skipped,      \* history: the rows that were not
  hidden        \* history: visits that got an id the program had passed before

program == <<m_bInit, m_strLastID, inPlace, rows, strPreURL, start, told, skipped>>
browser == <<visits, live, now, hidden>>
vars == <<m_bBrowserType, program, browser>>

Second == 1 .. MaxSecond
Visits == 1 .. Len(visits)
Id(v) == visits[v].id
Highest(S) == IF S = {} THEN 0 ELSE CHOOSE i \in S : \A j \in S : j <= i
RowType == [visit : Visits, date : Second]
Handled == {told[i].visit : i \in 1 .. Len(told)} \cup {r.visit : r \in skipped}

TypeOK ==
  /\ m_bBrowserType \in {FIREFOX_BROWSER, CHROME_BROWSER}
  /\ m_bInit \in BOOLEAN /\ inPlace \in BOOLEAN
  /\ visits \in Seq([id : Nat, place : Place, second : Second])
  /\ live \subseteq Visits /\ hidden \subseteq Visits
  /\ m_strLastID \in 0 .. Len(visits) /\ start \in 0 .. Len(visits)
  /\ now \in Second
  /\ rows \in Seq(RowType)
  /\ \A i, j \in 1 .. Len(rows) : i < j => Id(rows[i].visit) < Id(rows[j].visit)
  /\ strPreURL \in 0 .. MaxSecond
  /\ told \in Seq(RowType)
  /\ skipped \subseteq RowType

Init ==
  /\ m_bBrowserType \in {FIREFOX_BROWSER, CHROME_BROWSER}
  /\ m_bInit = FALSE /\ m_strLastID = 0 /\ inPlace = FALSE
  /\ rows = <<>> /\ strPreURL = 0
  /\ visits = <<>> /\ live = {} /\ now = 1 /\ hidden = {}
  /\ start = 0 /\ told = <<>> /\ skipped = {}

-----------------------------------------------------------------------------
(* The browser *)
Visit(p) ==
  /\ Len(visits) < MaxVisits
  /\ LET id == Highest({Id(v) : v \in live}) + 1
         passed == Highest({m_strLastID} \cup {Id(rows[i].visit) : i \in 1 .. Len(rows)})
     IN  /\ visits' = Append(visits, [id |-> id, place |-> p, second |-> now])
         /\ hidden' = IF id <= passed THEN hidden \cup {Len(visits')} ELSE hidden
  /\ live' = live \cup {Len(visits')}
  /\ UNCHANGED <<m_bBrowserType, program, now>>

Delete ==
  /\ \E S \in SUBSET live \ {{}} : live' = live \ S
  /\ UNCHANGED <<m_bBrowserType, program, visits, now, hidden>>

Tick ==
  /\ now < MaxSecond /\ now' = now + 1
  /\ UNCHANGED <<m_bBrowserType, program, visits, live, hidden>>

(* What a reader sees: all rows, or in a copy all but the newest, which the
   browser still holds in its journal. *)
Snapshot(own) ==
  {live} \cup (IF own THEN {} ELSE {{v \in live : Id(v) <= k} : k \in 0 .. Len(visits)})

-----------------------------------------------------------------------------
(* Initialize with GetLastID, when the dialog opens and then from every timer
   until it succeeds.  A failure changes nothing that is read later. *)
Initialize ==
  /\ ~m_bInit
  /\ inPlace' \in BOOLEAN
  /\ \E S \in Snapshot(inPlace') : m_strLastID' = Highest({Id(v) : v \in S})
  /\ m_bInit' = TRUE
  /\ start' = Len(visits)
  /\ UNCHANGED <<m_bBrowserType, rows, strPreURL, told, skipped, browser>>

(* The date of a row.  Firefox keeps it with the address, for its last visit. *)
DateOf(v) ==
  IF m_bBrowserType = CHROME_BROWSER THEN visits[v].second
  ELSE Highest({visits[w].second : w \in {x \in Visits : visits[x].place = visits[v].place}})

(* Mutant: The query takes the last row again. *)
Newer_Inclusive(S) == {v \in S : Id(v) >= m_strLastID}

Newer(S) == {v \in S : Id(v) > m_strLastID}
(* Mutant: The rows are in the order the browser lists them. *)
OrderedById_Newest(S) ==
  CHOOSE s \in [1 .. Cardinality(S) -> S] :
    \A i, j \in 1 .. Cardinality(S) : i < j => Id(s[i]) > Id(s[j])

OrderedById(S) ==
  CHOOSE s \in [1 .. Cardinality(S) -> S] :
    \A i, j \in 1 .. Cardinality(S) : i < j => Id(s[i]) < Id(s[j])

(* UpdateURL up to its query.  A query that fails has no rows. *)
UpdateURL ==
  /\ m_bInit /\ rows = <<>>
  /\ \E S \in Snapshot(inPlace) :
       LET new == OrderedById(Newer(S))
       IN  /\ Newer(S) # {}
           /\ rows' = [i \in DOMAIN new |-> [visit |-> new[i], date |-> DateOf(new[i])]]
  /\ strPreURL' = 0
  /\ UNCHANGED <<m_bBrowserType, m_bInit, m_strLastID, inPlace, start, told, skipped, browser>>

(* Mutant: The id is taken from the table when the loop ends, not from the rows. *)
SendRow_LastOfTable ==
  /\ rows # <<>>
  /\ LET r == Head(rows)
     IN  /\ m_strLastID' = Highest({Id(r.visit)} \cup {Id(v) : v \in {w \in live : Len(rows) = 1}})
         /\ strPreURL' = r.date
         /\ told' = Append(told, r)
  /\ rows' = Tail(rows)
  /\ UNCHANGED <<m_bBrowserType, m_bInit, inPlace, skipped, start, browser>>

(* One turn of its loop.  strURL holds the date by the time it is compared with
   the row before, and the result of SendMsgToServer is not used: a row it could
   not send is told all the same. *)
SendRow ==
  /\ rows # <<>>
  /\ LET r == Head(rows)
     IN  /\ m_strLastID' = Id(r.visit)
         /\ strPreURL' = r.date
         /\ \/ /\ r.date # strPreURL
               /\ told' = Append(told, r)
               /\ UNCHANGED skipped
            \/ /\ r.date = strPreURL
               /\ skipped' = skipped \cup {r}
               /\ UNCHANGED told
  /\ rows' = Tail(rows)
  /\ UNCHANGED <<m_bBrowserType, m_bInit, inPlace, start, browser>>

Restart ==
  /\ m_bInit
  /\ m_bInit' = FALSE /\ m_strLastID' = 0 /\ inPlace' = FALSE
  /\ rows' = <<>> /\ strPreURL' = 0
  /\ start' = Len(visits) /\ told' = <<>> /\ skipped' = {}
  /\ UNCHANGED <<m_bBrowserType, visits, live, now, hidden>>

Next ==
  \/ \E p \in Place : Visit(p)
  \/ Delete \/ Tick
  \/ Initialize \/ UpdateURL \/ SendRow \/ Restart

Spec == Init /\ [][Next]_vars

(* The timer is never killed, and the browser's file can be read again and
   again. *)
FairSpec == Spec /\ WF_vars(Initialize) /\ WF_vars(UpdateURL) /\ WF_vars(SendRow)

-----------------------------------------------------------------------------
(* No visit is reported twice, and none after a later one, although ids are used
   again, copies lack rows, and rows come and go while the program reads
   (WebHistory.cpp:169-185). *)
ToldInOrder ==
  \A i, j \in 1 .. Len(told) : i < j => told[i].visit < told[j].visit

(* The program never moves past a visit without having handed it over
   (WebHistory.cpp:171), whatever the server made of it; except a visit of the
   same date as one that was handed over, and one that has got an id the program
   had passed before it was made. *)
NothingSkipped ==
  m_bInit =>
    \A v \in live \ hidden :
      start < v /\ Id(v) <= m_strLastID =>
        \/ \E i \in 1 .. Len(told) : told[i].visit = v
        \/ \E r \in skipped : r.visit = v /\ \E i \in 1 .. Len(told) : told[i].date = r.date

(* A visit made while the program runs is handled, unless the browser deletes it
   first, or has given it an id the program had passed, or the program ends. *)
VisitHandled ==
  \A v \in 1 .. MaxVisits :
    (m_bInit /\ start < v /\ v \in live \ hidden) ~> (v \in Handled \/ v \notin live \/ ~m_bInit)

==============================================================================
