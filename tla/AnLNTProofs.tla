----------------------------- MODULE AnLNTProofs -----------------------------
(***************************************************************************)
(* Proofs about the programs of src/AnLNT: UpdateReport, for any games,    *)
(* files and contents, and ManualResetEvent, for any number of lines and   *)
(* clicks.  The two programs share no state, and neither do the proofs.    *)
(***************************************************************************)
EXTENDS UpdateReport, ManualResetEvent, FiniteSetTheorems, TLAPS

-----------------------------------------------------------------------------
(***************************************************************************)
(* UpdateReport.  The mail is read off the report files, so the argument   *)
(* is about them: what a comparison has found so far is true of the files  *)
(* it has left behind (FoundInv), its report is there and not open         *)
(* elsewhere while it runs (OpenInv), and nothing touches the report of a  *)
(* game whose comparison has ended before the round is over (FreshInv).    *)
(***************************************************************************)

Comparing == stage \in {"walk", "commit"}

(* A game that is still to come, or at work, has no outcome yet. *)
FreshInv ==
  /\ cmp.game \notin todo
  /\ \A g \in Games : g \in todo \/ g = cmp.game => outcome[g] = "none"

(* While a comparison is at work its report is there and nobody else has it. *)
OpenInv ==
  /\ Comparing => cmp.game \notin held /\ report[cmp.game].exists
  /\ stage = "compare" => ~cmp.hasUpdate
  /\ stage = "commit" => cmp.left = {}

(* Of an undisturbed game: what has been found is so, and nothing that       *)
(* counts has been passed over.                                              *)
FoundInv ==
  Comparing /\ cmp.game \notin disturbed =>
    /\ cmp.hasUpdate => HasUpdate(cmp.game)
    /\ ~cmp.hasUpdate =>
         \A f \in Checked[cmp.game] : Differs(cmp.game, f) => f \in cmp.left

(* What has been found is in the report or in the temporary file. *)
NamedInv ==
  /\ Comparing /\ cmp.hasUpdate =>
       (report[cmp.game].names \cup cmp.temp) \cap Checked[cmp.game] # {}
  /\ stage = "commit" /\ cmp.hasUpdate =>
       report[cmp.game].names \cap Checked[cmp.game] # {}

(* What the report of a game whose comparison has ended says *)
ReportInv ==
  /\ \A g \in Games : outcome[g] = "ok" /\ g \notin disturbed =>
                        (report[g].exists <=> HasUpdate(g))
  /\ \A g \in Games : outcome[g] = "broken" \/ g \in held => report[g].exists

(* The mail says which reports there are. *)
MailInv ==
  stage = "mailed" => \A g \in Games : mail[g] = 1 <=> report[g].exists

IInv ==
  /\ TypeOK /\ FreshInv /\ OpenInv /\ FoundInv /\ NamedInv /\ ReportNames
  /\ ReportInv /\ MailInv

-----------------------------------------------------------------------------
(* The invariant implies the properties. *)

LEMMA InvImplies == IInv => MailTells /\ BreakIsNews /\ ReportNames
  BY DEF IInv, MailInv, ReportInv, MailTells, BreakIsNews

LEMMA InitInv == Init => IInv
  <1> SUFFICES ASSUME Init PROVE IInv
    OBVIOUS
  <1> USE ReportAssumption DEF Init, NoReport, NoCompare, Silent, Unknown, Comparing
  <1>1. TypeOK
    BY DEF TypeOK, Comparisons, Folders
  <1>2. FreshInv /\ OpenInv /\ FoundInv /\ NamedInv /\ ReportNames /\ MailInv
    BY DEF FreshInv, OpenInv, FoundInv, NamedInv, ReportNames, MailInv
  <1>3. ReportInv
    BY DEF ReportInv
  <1> QED BY <1>1, <1>2, <1>3 DEF IInv

-----------------------------------------------------------------------------
(* Type correctness *)

(* Changing a file of one game changes no other game's. *)
LEMMA ChangeOne ==
  ASSUME TypeOK, NEW g \in Games, NEW f \in Files, Change(g, f)
  PROVE  /\ source' \in Folders /\ cc' \in Folders
         /\ \A h \in Games \ {g} : source'[h] = source[h] /\ cc'[h] = cc[h]
  <1>1. source \in Folders /\ cc \in Folders
    BY DEF TypeOK
  <1>2. ASSUME NEW F \in Folders, NEW c \in Contents \cup {NoFile}
        PROVE  /\ [F EXCEPT ![g][f] = c] \in Folders
               /\ \A h \in Games \ {g} : [F EXCEPT ![g][f] = c][h] = F[h]
    <2>1. [F[g] EXCEPT ![f] = c] \in [Files -> Contents \cup {NoFile}]
      BY DEF Folders
    <2>2. [F EXCEPT ![g][f] = c] = [F EXCEPT ![g] = [F[g] EXCEPT ![f] = c]]
      OBVIOUS
    <2> QED BY <2>1, <2>2 DEF Folders
  <1>3. PICK c \in Contents \cup {NoFile} :
          \/ source' = [source EXCEPT ![g][f] = c] /\ UNCHANGED cc
          \/ cc' = [cc EXCEPT ![g][f] = c] /\ UNCHANGED source
    BY DEF Change
  <1>4. CASE source' = [source EXCEPT ![g][f] = c] /\ UNCHANGED cc
    BY <1>1, <1>2, <1>4
  <1>5. CASE cc' = [cc EXCEPT ![g][f] = c] /\ UNCHANGED source
    BY <1>1, <1>2, <1>5
  <1> QED BY <1>3, <1>4, <1>5

LEMMA TypeStep == ASSUME TypeOK, [Next]_vars PROVE TypeOK'
  <1> USE ReportAssumption DEF TypeOK, Comparisons
  <1>1. ASSUME NEW g \in Games, NEW f \in Files, Change(g, f) PROVE TypeOK'
    <2>1. source' \in Folders /\ cc' \in Folders
      BY <1>1, ChangeOne
    <2> QED BY <1>1, <2>1 DEF Change, tool
  <1>2. CASE StartRound
    BY <1>2 DEF StartRound, Unknown, files, history
  <1>3. ASSUME NEW g \in Games, RunAutoLauncher(g) PROVE TypeOK'
    BY <1>3 DEF RunAutoLauncher, NoCompare, files
  <1>4. CASE Refused
    BY <1>4 DEF Refused, Ended, NoCompare, files, history
  <1>5. CASE CreateResultFile
    BY <1>5 DEF CreateResultFile, files, history
  <1>6. CASE CreateResultFileFails
    BY <1>6 DEF CreateResultFileFails, Abandon, Ended, NoCompare, files, history
  <1>7. ASSUME NEW f \in Files, PassOver(f) PROVE TypeOK'
    BY <1>7 DEF PassOver, files, history
  <1>8. ASSUME NEW f \in Files, NewFile(f) PROVE TypeOK'
    <2>1. report' \in [Games -> [exists : BOOLEAN, names : SUBSET Files]]
      <3>1. report' = [report EXCEPT ![cmp.game].names = @ \cup {f}]
        BY <1>8 DEF NewFile
      <3>2. cmp.game \in Games
        BY <1>8 DEF NewFile, Compares
      <3> QED BY <3>1, <3>2
    <2>2. cmp' \in Comparisons /\ cmp'.game = cmp.game
      <3>1. cmp' = [cmp EXCEPT !.left = @ \ {f}, !.hasUpdate = TRUE]
        BY <1>8 DEF NewFile
      <3> QED BY <3>1
    <2>3. UNCHANGED <<source, cc, held, stage, todo, outcome, mail, disturbed, calm>>
      BY <1>8 DEF NewFile, files, history
    <2> QED BY <2>1, <2>2, <2>3
  <1>9. ASSUME NEW f \in Files, ModifiedFile(f) PROVE TypeOK'
    BY <1>9 DEF ModifiedFile, Compares, files, history
  <1>10. ASSUME NEW f \in Files, Unreadable(f) PROVE TypeOK'
    BY <1>10 DEF Unreadable, Compares, files
  <1>11. ASSUME NEW f \in Files, SameFile(f) PROVE TypeOK'
    BY <1>11 DEF SameFile, Compares, files, history
  <1>12. CASE WalkFails
    BY <1>12 DEF WalkFails, Abandon, Ended, NoCompare, files, history
  <1>13. CASE CreateFinalResult
    BY <1>13 DEF CreateFinalResult, files, history
  <1>14. CASE KeepReport
    BY <1>14 DEF KeepReport, Ended, NoCompare, files, history
  <1>15. CASE DeleteResultFile
    BY <1>15 DEF DeleteResultFile, Ended, NoCompare, NoReport, files, history
  <1>16. CASE DeleteResultFileFails
    BY <1>16 DEF DeleteResultFileFails, Ended, NoCompare, files, history
  <1>17. CASE RunLOL
    BY <1>17 DEF RunLOL, files, history
  <1>18. CASE SendMail
    BY <1>18 DEF SendMail, files, history
  <1>19. CASE Sleep
    BY <1>19 DEF Sleep, Silent, files, history
  <1>20. CASE Restart
    BY <1>20 DEF Restart, NoCompare, Unknown, Silent, files, history
  <1>21. CASE Calm
    BY <1>21 DEF Calm, files, tool
  <1>22. CASE ListingStops
    BY <1>22 DEF ListingStops, files
  <1>23. CASE UNCHANGED vars
    BY <1>23 DEF vars, files, tool, history
  <1> QED
    BY <1>1, <1>2, <1>3, <1>4, <1>5, <1>6, <1>7, <1>8, <1>9, <1>10, <1>11, <1>12,
       <1>13, <1>14, <1>15, <1>16, <1>17, <1>18, <1>19, <1>20, <1>21, <1>22, <1>23
       DEF Next, Round, Compare
-----------------------------------------------------------------------------
(* The other conjuncts of the invariant *)

Rest ==
  FreshInv /\ OpenInv /\ FoundInv /\ NamedInv /\ ReportNames /\ ReportInv /\ MailInv

(* A report speaks of files that have not changed. *)
LEMMA UpdateKept ==
  ASSUME NEW h \in Games, source'[h] = source[h], cc'[h] = cc[h]
  PROVE  HasUpdate(h)' <=> HasUpdate(h)
  BY DEF HasUpdate, Differs

LEMMA ReportKept ==
  ASSUME ReportInv, UNCHANGED <<report, held, outcome>>,
         \A h \in Games : h \notin disturbed' =>
           h \notin disturbed /\ (HasUpdate(h)' <=> HasUpdate(h))
  PROVE  ReportInv'
  BY DEF ReportInv

LEMMA RestStep == ASSUME TypeOK, Rest, [Next]_vars, TypeOK' PROVE Rest'
  <1> USE ReportAssumption
      DEF TypeOK, Comparisons, Comparing, Rest, FreshInv, OpenInv, FoundInv, NamedInv,
          ReportNames, ReportInv, MailInv, HasUpdate, Differs, files, tool, history
  <1>1. ASSUME NEW g \in Games, NEW f \in Files, Change(g, f) PROVE Rest'
    <2>1. \A h \in Games : h \notin disturbed' =>
            h \notin disturbed /\ source'[h] = source[h] /\ cc'[h] = cc[h]
      <3>1. \A h \in Games \ {g} : source'[h] = source[h] /\ cc'[h] = cc[h]
        BY <1>1, ChangeOne
      <3> QED BY <1>1, <3>1 DEF Change
    <2>2. UNCHANGED <<report, held, stage, todo, cmp, outcome, mail>>
      BY <1>1 DEF Change
    <2>3. \A h \in Games : h \notin disturbed' =>
            h \notin disturbed /\ (HasUpdate(h)' <=> HasUpdate(h))
      BY <2>1, UpdateKept
    <2>4. FoundInv'
      BY <2>1, <2>2
    <2>5. ReportInv'
      <3>1. ReportInv
        OBVIOUS
      <3> QED BY <2>2, <2>3, <3>1, ReportKept
    <2> QED BY <2>2, <2>4, <2>5
  <1>2. CASE StartRound
    BY <1>2 DEF StartRound, Unknown
  <1>3. ASSUME NEW g \in Games, RunAutoLauncher(g) PROVE Rest'
    BY <1>3 DEF RunAutoLauncher, NoCompare
  <1>4. CASE Refused
    BY <1>4 DEF Refused, Ended, NoCompare
  <1>5. CASE CreateResultFile
    BY <1>5 DEF CreateResultFile
  <1>6. CASE CreateResultFileFails
    BY <1>6 DEF CreateResultFileFails, Abandon, Ended, NoCompare
  <1>7. ASSUME NEW f \in Files, PassOver(f) PROVE Rest'
    BY <1>7 DEF PassOver
  <1>8. ASSUME NEW f \in Files, NewFile(f) PROVE Rest'
    BY <1>8 DEF NewFile, Compares
  <1>9. ASSUME NEW f \in Files, ModifiedFile(f) PROVE Rest'
    BY <1>9 DEF ModifiedFile, Compares
  <1>10. ASSUME NEW f \in Files, Unreadable(f) PROVE Rest'
    BY <1>10 DEF Unreadable, Compares
  <1>11. ASSUME NEW f \in Files, SameFile(f) PROVE Rest'
    BY <1>11 DEF SameFile, Compares
  <1>12. CASE WalkFails
    BY <1>12 DEF WalkFails, Abandon, Ended, NoCompare
  <1>13. CASE CreateFinalResult
    BY <1>13 DEF CreateFinalResult
  <1>14. CASE KeepReport
    BY <1>14 DEF KeepReport, Ended, NoCompare
  <1>15. CASE DeleteResultFile
    BY <1>15 DEF DeleteResultFile, Ended, NoCompare, NoReport
  <1>16. CASE DeleteResultFileFails
    BY <1>16 DEF DeleteResultFileFails, Ended, NoCompare
  <1>17. CASE RunLOL
    BY <1>17 DEF RunLOL
  <1>18. CASE SendMail
    BY <1>18 DEF SendMail
  <1>19. CASE Sleep
    BY <1>19 DEF Sleep
  <1>20. CASE Restart
    BY <1>20 DEF Restart, NoCompare, Unknown
  <1>21. CASE Calm
    BY <1>21 DEF Calm
  <1>22. CASE ListingStops
    BY <1>22 DEF ListingStops
  <1>23. CASE UNCHANGED vars
    BY <1>23 DEF vars
  <1> QED
    BY <1>1, <1>2, <1>3, <1>4, <1>5, <1>6, <1>7, <1>8, <1>9, <1>10, <1>11, <1>12,
       <1>13, <1>14, <1>15, <1>16, <1>17, <1>18, <1>19, <1>20, <1>21, <1>22, <1>23
       DEF Next, Round, Compare
-----------------------------------------------------------------------------
(* The theorems *)

THEOREM Invariance == Spec => []IInv
  <1>1. IInv /\ [Next]_vars => IInv'
    BY TypeStep, RestStep DEF IInv, Rest
  <1> QED BY <1>1, InitInv, PTL DEF Spec

(* Every variable has its type in every round. *)
THEOREM ReportTypes == Spec => []TypeOK
  <1>1. IInv => TypeOK
    BY DEF IInv
  <1> QED BY <1>1, Invariance, PTL

(* The mail says of every game whose comparison has succeeded, and whose     *)
(* files have stayed as they were, whether it has an update, whatever        *)
(* earlier rounds, failures and restarts have left in the report folder.     *)
THEOREM MailCorrect == Spec => []MailTells
  BY InvImplies, Invariance, PTL

(* A comparison that broke off is never mailed as "no update". *)
THEOREM BreakCorrect == Spec => []BreakIsNews
  BY InvImplies, Invariance, PTL

(* A report that a successful comparison has left names a file that counts. *)
THEOREM NamesCorrect == Spec => []ReportNames
  BY InvImplies, Invariance, PTL

-----------------------------------------------------------------------------
(***************************************************************************)
(* ManualResetEvent.  Rounds share the event and the list, so the argument *)
(* is about who is at work: a round that was not crowded has ended before  *)
(* the next click (PastInv), a click that meets nobody starts with an      *)
(* empty list and a reset event (ClickInv), and the last round has both to *)
(* itself as long as it is not crowded (AloneInv).                         *)
(***************************************************************************)

(* Where a thread is tells how many lines it has added. *)
Counted(r, k) ==
  /\ pc[<<r, k>>] \in {"none", "wait", "house", "car"} => added[<<r, k>>] = 0
  /\ pc[<<r, k>>] = "add" => added[<<r, k>>] < NumLines
  /\ pc[<<r, k>>] \in {"set", "end"} => added[<<r, k>>] = NumLines

(* The rounds started are those with a loan thread; it starts the buyers in turn. *)
Staged(r) ==
  /\ (pc[<<r, "loan">>] # "none") <=> (r <= round)
  /\ (pc[<<r, "house">>] = "none") <=> (pc[<<r, "loan">>] \in {"none", "house"})
  /\ (pc[<<r, "car">>] = "none") <=> (pc[<<r, "loan">>] \in {"none", "house", "car"})

ThreadInv ==
  /\ EventTypeOK
  /\ pc \in [Thread -> LoanPc \cup BuyerPc]
  /\ \A r \in Rounds : Staged(r) /\ \A k \in Kind : Counted(r, k)
  /\ ui # "idle" => round < MaxClicks

(* A round that was not crowded has ended before the next click. *)
PastInv ==
  \A r \in Rounds \ crowded : r < round \/ (r = round /\ ui # "idle") => ~Running(r)

(* A click that meets no threads starts from an empty list and a reset event. *)
ClickInv ==
  ui # "idle" /\ round + 1 \notin crowded =>
    /\ m_list = <<>>
    /\ ui = "create" => ~m_myEvent
    /\ \A r \in Rounds : ~Running(r)

LineOf(k) == {i \in 1 .. Len(m_list) : m_list[i][2] = k}

(* The list shows what the threads of round r have added, the loans first. *)
OwnList(r) ==
  /\ \A i \in 1 .. Len(m_list) :
       m_list[i][1] = r /\ (m_list[i][2] = "loan" <=> i <= added[<<r, "loan">>])
  /\ Len(m_list) = added[<<r, "loan">>] + added[<<r, "house">>] + added[<<r, "car">>]
  /\ \A k \in Buyer : Cardinality(LineOf(k)) = added[<<r, k>>]

(* The last round, if no other has met it, has the event and the list to itself. *)
AloneInv ==
  ui = "idle" /\ round \in Rounds \ crowded =>
    /\ \A r \in Rounds \ {round} : ~Running(r)
    /\ pc[<<round, "loan">>] # "end" =>
         ~m_myEvent /\ \A k \in Buyer : pc[<<round, k>>] \in {"none", "wait"}
    /\ OwnList(round)

RoundInv == PastInv /\ ClickInv /\ AloneInv

-----------------------------------------------------------------------------
LEMMA KindIs == Kind = Buyer \cup {"loan"} /\ Buyer = {"house", "car"} /\ "loan" \notin Buyer
BY DEF Kind, Buyer

(* A step of one thread *)
LEMMA PcStep ==
  ASSUME pc \in [Thread -> LoanPc \cup BuyerPc], NEW r \in Rounds, NEW k \in Kind,
         NEW v \in LoanPc \cup BuyerPc, pc' = [pc EXCEPT ![<<r, k>>] = v]
  PROVE  /\ pc' \in [Thread -> LoanPc \cup BuyerPc]
         /\ pc'[<<r, k>>] = v
         /\ \A q \in Rounds, j \in Kind : q # r \/ j # k => pc'[<<q, j>>] = pc[<<q, j>>]
<1>1. <<r, k>> \in Thread /\ \A q \in Rounds, j \in Kind : <<q, j>> \in Thread
  BY DEF Thread
<1> HIDE DEF Thread, LoanPc, BuyerPc
<1> QED
  BY <1>1

LEMMA AddedStep ==
  ASSUME added \in [Thread -> 0 .. NumLines], NEW r \in Rounds, NEW k \in Kind,
         added[<<r, k>>] < NumLines, added' = [added EXCEPT ![<<r, k>>] = @ + 1]
  PROVE  /\ added' \in [Thread -> 0 .. NumLines]
         /\ added'[<<r, k>>] = added[<<r, k>>] + 1
         /\ \A q \in Rounds, j \in Kind : q # r \/ j # k => added'[<<q, j>>] = added[<<q, j>>]
<1>1. <<r, k>> \in Thread /\ \A q \in Rounds, j \in Kind : <<q, j>> \in Thread
  BY DEF Thread
<1>2. NumLines \in Nat
  BY EventAssumption
<1>3. added[<<r, k>>] \in 0 .. NumLines
  BY <1>1
<1>4. added[<<r, k>>] + 1 \in 0 .. NumLines
  <2> DEFINE a == added[<<r, k>>]
  <2>1. a \in 0 .. NumLines /\ a < NumLines
    BY <1>3
  <2> HIDE DEF a
  <2>2. a + 1 \in 0 .. NumLines
    BY <1>2, <2>1
  <2> QED
    BY <2>2 DEF a
<1> HIDE DEF Thread
<1> QED
  BY <1>1, <1>4

LEMMA EventInitInv == EventInit => ThreadInv /\ RoundInv
<1> SUFFICES ASSUME EventInit PROVE ThreadInv /\ RoundInv
  OBVIOUS
<1>1. /\ ui = "idle" /\ round = 0 /\ m_myEvent = FALSE
      /\ \A r \in Rounds, k \in Kind : pc[<<r, k>>] = "none" /\ added[<<r, k>>] = 0
      /\ m_list = <<>> /\ crowded = {}
  BY DEF EventInit, Thread
<1>2. NumLines \in Nat \ {0} /\ MaxClicks \in Nat
  BY EventAssumption
<1>3. pc \in [Thread -> LoanPc \cup BuyerPc] /\ added \in [Thread -> 0 .. NumLines]
  BY <1>2 DEF EventInit, LoanPc
<1>4. EventTypeOK
  <2>1. \A r \in Rounds : pc[<<r, "loan">>] = "none" /\ pc[<<r, "house">>] = "none" /\ pc[<<r, "car">>] = "none"
    BY <1>1 DEF Kind
  <2>2. "none" \in LoanPc /\ "none" \in BuyerPc
    BY DEF LoanPc, BuyerPc
  <2>3. 0 \in 0 .. MaxClicks /\ <<>> \in Seq(Thread)
    BY <1>2
  <2> QED
    BY <1>1, <1>3, <2>1, <2>2, <2>3 DEF EventTypeOK
<1>5. ASSUME NEW r \in Rounds
      PROVE  Staged(r) /\ \A k \in Kind : Counted(r, k)
  <2>1. ~ (r <= round)
    BY <1>1, <1>2 DEF Rounds
  <2> QED
    BY <1>1, <2>1 DEF Staged, Counted, Kind
<1>6. ThreadInv
  BY <1>1, <1>3, <1>4, <1>5 DEF ThreadInv
<1>7. 0 \notin Rounds /\ \A r \in Rounds : ~ (r < 0)
  BY <1>2 DEF Rounds
<1> QED
  BY <1>1, <1>6, <1>7 DEF RoundInv, PastInv, ClickInv, AloneInv

-----------------------------------------------------------------------------
(* The threads *)

LEMMA RoundNumber ==
  ASSUME ThreadInv
  PROVE  /\ MaxClicks \in Nat /\ NumLines \in Nat \ {0}
         /\ round \in 0 .. MaxClicks
         /\ \A r \in Rounds : r \in Int
         /\ \A r \in Rounds, k \in Kind : added[<<r, k>>] \in 0 .. NumLines
<1>1. MaxClicks \in Nat /\ NumLines \in Nat \ {0}
  BY EventAssumption
<1>2. round \in 0 .. MaxClicks /\ added \in [Thread -> 0 .. NumLines]
  BY DEF ThreadInv, EventTypeOK
<1>3. \A r \in Rounds, k \in Kind : added[<<r, k>>] \in 0 .. NumLines
  BY <1>2 DEF Thread
<1> QED
  BY <1>1, <1>2, <1>3 DEF Rounds

LEMMA ResetContentThreads ==
  ASSUME ThreadInv, ResetContent
  PROVE  ThreadInv'
<1>1. /\ UNCHANGED <<round, m_myEvent, pc, added>>
      /\ m_list' = <<>> /\ ui' = "reset" /\ round < MaxClicks
  BY DEF ResetContent
<1>2. crowded' \subseteq Rounds
  <2>1. {r \in Rounds : Running(r)} \subseteq Rounds /\ round + 1 \in Rounds
    BY <1>1, RoundNumber DEF Rounds
  <2>2. crowded \subseteq Rounds
    BY DEF ThreadInv, EventTypeOK
  <2> QED
    BY <2>1, <2>2 DEF ResetContent, Crowd
<1>3. EventTypeOK'
  BY <1>1, <1>2 DEF ThreadInv, EventTypeOK
<1>4. \A r \in Rounds : Staged(r)' /\ \A k \in Kind : Counted(r, k)'
  BY <1>1 DEF ThreadInv, Staged, Counted
<1> QED
  BY <1>1, <1>3, <1>4 DEF ThreadInv

LEMMA ResetEventThreads ==
  ASSUME ThreadInv, ResetEvent
  PROVE  ThreadInv'
<1>1. /\ UNCHANGED <<round, pc, added, m_list, crowded>>
      /\ m_myEvent' = FALSE /\ ui' = "create" /\ ui = "reset"
  BY DEF ResetEvent
<1>3. EventTypeOK'
  BY <1>1 DEF ThreadInv, EventTypeOK
<1>4. \A r \in Rounds : Staged(r)' /\ \A k \in Kind : Counted(r, k)'
  BY <1>1 DEF ThreadInv, Staged, Counted
<1> QED
  BY <1>1, <1>3, <1>4 DEF ThreadInv

(* A thread that has moved leaves the others where they are. *)
LEMMA ThreadMoves ==
  ASSUME ThreadInv, NEW r \in Rounds,
         pc' \in [Thread -> LoanPc \cup BuyerPc],
         pc'[<<r, "loan">>] \in LoanPc, pc'[<<r, "house">>] \in BuyerPc, pc'[<<r, "car">>] \in BuyerPc,
         \A q \in Rounds, k \in Kind : q # r => pc'[<<q, k>>] = pc[<<q, k>>] /\ added'[<<q, k>>] = added[<<q, k>>],
         \A q \in Rounds : q # r => (q <= round' <=> q <= round),
         ui' \in {"idle", "reset", "create"}, round' \in 0 .. MaxClicks,
         ui' # "idle" => round' < MaxClicks,
         m_myEvent' \in BOOLEAN, added' \in [Thread -> 0 .. NumLines],
         m_list' \in Seq(Thread), crowded' = crowded,
         Staged(r)', \A k \in Kind : Counted(r, k)'
  PROVE  ThreadInv'
<1>1. \A q \in Rounds : q # r => Staged(q)' /\ \A k \in Kind : Counted(q, k)'
  <2> SUFFICES ASSUME NEW q \in Rounds, q # r
               PROVE  Staged(q)' /\ \A k \in Kind : Counted(q, k)'
    OBVIOUS
  <2>1. \A k \in Kind : pc'[<<q, k>>] = pc[<<q, k>>] /\ added'[<<q, k>>] = added[<<q, k>>]
    OBVIOUS
  <2>2. Staged(q)'
    <3>1. Staged(q)
      BY DEF ThreadInv
    <3>2. pc'[<<q, "loan">>] = pc[<<q, "loan">>] /\ pc'[<<q, "house">>] = pc[<<q, "house">>] /\ pc'[<<q, "car">>] = pc[<<q, "car">>]
      BY <2>1 DEF Kind
    <3> QED
      BY <3>1, <3>2 DEF Staged
  <2>3. \A k \in Kind : Counted(q, k)'
    BY <2>1 DEF ThreadInv, Counted
  <2> QED
    BY <2>2, <2>3
<1>2. EventTypeOK'
  <2>1. \A q \in Rounds : pc'[<<q, "loan">>] \in LoanPc /\ pc'[<<q, "house">>] \in BuyerPc /\ pc'[<<q, "car">>] \in BuyerPc
    <3> SUFFICES ASSUME NEW q \in Rounds, q # r
                 PROVE  pc'[<<q, "loan">>] \in LoanPc /\ pc'[<<q, "house">>] \in BuyerPc /\ pc'[<<q, "car">>] \in BuyerPc
      OBVIOUS
    <3>1. pc'[<<q, "loan">>] = pc[<<q, "loan">>] /\ pc'[<<q, "house">>] = pc[<<q, "house">>] /\ pc'[<<q, "car">>] = pc[<<q, "car">>]
      BY DEF Kind
    <3> QED
      BY <3>1 DEF ThreadInv, EventTypeOK
  <2>2. crowded' \subseteq Rounds
    BY DEF ThreadInv, EventTypeOK
  <2> QED
    BY <2>1, <2>2 DEF EventTypeOK
<1> QED
  BY <1>1, <1>2 DEF ThreadInv

LEMMA CreateLoanThreadThreads ==
  ASSUME ThreadInv, CreateLoanThread
  PROVE  ThreadInv'
<1>0. PICK n : n = round + 1
  OBVIOUS
<1>1. /\ ui = "create" /\ ui' = "idle" /\ round' = n
      /\ pc' = [pc EXCEPT ![<<n, "loan">>] = "house"]
      /\ UNCHANGED <<m_myEvent, added, m_list, crowded>>
  BY <1>0 DEF CreateLoanThread
<1>2. n \in Rounds /\ round \in Int /\ n = round + 1 /\ n \in 0 .. MaxClicks
  BY <1>0, <1>1, RoundNumber DEF ThreadInv, Rounds
<1>3. /\ pc' \in [Thread -> LoanPc \cup BuyerPc]
      /\ pc'[<<n, "loan">>] = "house"
      /\ \A q \in Rounds, j \in Kind : q # n \/ j # "loan" => pc'[<<q, j>>] = pc[<<q, j>>]
  BY <1>1, <1>2, PcStep DEF ThreadInv, Kind, LoanPc
<1>4. pc[<<n, "loan">>] = "none" /\ pc[<<n, "house">>] = "none" /\ pc[<<n, "car">>] = "none"
  <2>1. ~ (n <= round) /\ Staged(n)
    BY <1>2 DEF ThreadInv
  <2> QED
    BY <2>1 DEF Staged
<1>5. pc'[<<n, "house">>] = "none" /\ pc'[<<n, "car">>] = "none"
  BY <1>2, <1>3, <1>4 DEF Kind
<1>6. Staged(n)'
  <2>1. n <= round'
    BY <1>1, <1>2
  <2> QED
    BY <1>3, <1>5, <2>1 DEF Staged
<1>7. \A k \in Kind : Counted(n, k)'
  <2>1. \A k \in Kind : added[<<n, k>>] = 0
    BY <1>2, <1>4 DEF ThreadInv, Counted, Kind
  <2> QED
    BY <1>1, <1>3, <1>5, <2>1 DEF Counted, Kind
<1>8. \A q \in Rounds : q # n => (q <= round' <=> q <= round)
  <2> SUFFICES ASSUME NEW q \in Rounds, q # n
               PROVE  q <= n <=> q <= round
    BY <1>1
  <2>1. q \in Int
    BY RoundNumber
  <2> QED
    BY <1>2, <2>1
<1>9. "house" \in LoanPc /\ "none" \in BuyerPc
  BY DEF LoanPc, BuyerPc
<1>10. \A q \in Rounds, k \in Kind : q # n => pc'[<<q, k>>] = pc[<<q, k>>] /\ added'[<<q, k>>] = added[<<q, k>>]
  BY <1>1, <1>3
<1>11. /\ m_myEvent' \in BOOLEAN /\ added' \in [Thread -> 0 .. NumLines]
       /\ m_list' \in Seq(Thread) /\ crowded' = crowded
       /\ ui' = "idle" /\ round' \in 0 .. MaxClicks
  BY <1>1, <1>2 DEF ThreadInv, EventTypeOK
<1> QED
  BY <1>2, <1>3, <1>5, <1>6, <1>7, <1>8, <1>9, <1>10, <1>11, ThreadMoves

LEMMA CreateBuyerThreads ==
  ASSUME ThreadInv, NEW r \in Rounds, NEW k \in Buyer, CreateBuyer(r, k)
  PROVE  /\ ThreadInv'
         /\ pc'[<<r, k>>] = "wait"
         /\ pc'[<<r, "loan">>] # "end"
         /\ \A q \in Rounds, j \in Kind :
              <<q, j>> \notin {<<r, k>>, <<r, "loan">>} => pc'[<<q, j>>] = pc[<<q, j>>]
<1> DEFINE next == IF k = "house" THEN "car" ELSE "add"
<1>1. /\ pc[<<r, "loan">>] = k
      /\ pc' = [pc EXCEPT ![<<r, k>>] = "wait", ![<<r, "loan">>] = next]
      /\ UNCHANGED <<ui, round, m_myEvent, added, m_list, crowded>>
  BY DEF CreateBuyer
<1>2. k \in {"house", "car"}
  BY DEF Buyer
<1>3. /\ pc \in [Thread -> LoanPc \cup BuyerPc]
      /\ <<r, k>> \in Thread /\ <<r, "loan">> \in Thread
      /\ \A q \in Rounds, j \in Kind : <<q, j>> \in Thread
      /\ next \in LoanPc \cup BuyerPc /\ "wait" \in LoanPc \cup BuyerPc
  BY <1>2 DEF ThreadInv, Thread, Kind, LoanPc, BuyerPc
<1>4. /\ pc' \in [Thread -> LoanPc \cup BuyerPc]
      /\ pc'[<<r, k>>] = "wait" /\ pc'[<<r, "loan">>] = next
      /\ \A q \in Rounds, j \in Kind :
           <<q, j>> \notin {<<r, k>>, <<r, "loan">>} => pc'[<<q, j>>] = pc[<<q, j>>]
  <2> HIDE DEF next, Thread, LoanPc, BuyerPc
  <2> QED
    BY <1>1, <1>2, <1>3
<1>5. \A j \in Kind : j # k /\ j # "loan" => pc'[<<r, j>>] = pc[<<r, j>>]
  BY <1>4
<1>6. Staged(r) /\ \A j \in Kind : Counted(r, j)
  BY DEF ThreadInv
<1>7. /\ pc'[<<r, "loan">>] \in LoanPc
      /\ pc'[<<r, "house">>] \in BuyerPc
      /\ pc'[<<r, "car">>] \in BuyerPc
  <2>1. next \in LoanPc /\ "wait" \in BuyerPc
    BY <1>2 DEF LoanPc, BuyerPc
  <2>2. pc[<<r, "house">>] \in BuyerPc /\ pc[<<r, "car">>] \in BuyerPc
    BY DEF ThreadInv, EventTypeOK
  <2> HIDE DEF next
  <2> QED
    BY <1>2, <1>4, <1>5, <2>1, <2>2 DEF Kind
<1>8. Staged(r)'
  <2>1. CASE k = "house"
    BY <1>1, <1>4, <1>5, <1>6, <2>1 DEF Staged, Kind
  <2>2. CASE k = "car"
    BY <1>1, <1>4, <1>5, <1>6, <2>2 DEF Staged, Kind
  <2> QED
    BY <1>2, <2>1, <2>2
<1>9. ASSUME NEW j \in Kind
      PROVE  Counted(r, j)'
  <2>1. CASE j = "loan"
    <3>1. added[<<r, "loan">>] = 0
      BY <1>1, <1>2, <1>6 DEF Counted, Kind
    <3>2. 0 < NumLines
      BY EventAssumption
    <3> QED
      BY <1>1, <1>2, <1>4, <2>1, <3>1, <3>2 DEF Counted
  <2>2. CASE j = k
    <3>1. pc[<<r, k>>] = "none"
      BY <1>1, <1>2, <1>6 DEF Staged
    <3>2. added[<<r, k>>] = 0
      BY <1>6, <2>2, <3>1 DEF Counted
    <3> QED
      BY <1>1, <1>4, <2>2, <3>2 DEF Counted
  <2>3. CASE j # "loan" /\ j # k
    BY <1>1, <1>5, <1>6, <2>3 DEF Counted
  <2> QED
    BY <2>1, <2>2, <2>3
<1>10. \A q \in Rounds, j \in Kind :
         q # r => pc'[<<q, j>>] = pc[<<q, j>>] /\ added'[<<q, j>>] = added[<<q, j>>]
  BY <1>1, <1>4
<1>11. /\ ui' \in {"idle", "reset", "create"} /\ round' = round /\ round \in 0 .. MaxClicks
       /\ m_myEvent' \in BOOLEAN /\ added' \in [Thread -> 0 .. NumLines]
       /\ m_list' \in Seq(Thread) /\ crowded' = crowded
       /\ ui' # "idle" => round' < MaxClicks
  BY <1>1 DEF ThreadInv, EventTypeOK
<1>12. ThreadInv'
  <2> HIDE DEF next
  <2> QED
    BY <1>4, <1>7, <1>8, <1>9, <1>10, <1>11, ThreadMoves
<1> QED
  BY <1>2, <1>4, <1>12

(* What a thread that moves alone does *)
LEMMA OneThreadMoves ==
  ASSUME ThreadInv, NEW r \in Rounds, NEW k \in Kind, NEW v,
         v \in IF k = "loan" THEN LoanPc ELSE BuyerPc,
         pc' = [pc EXCEPT ![<<r, k>>] = v],
         v \notin {"none", "house", "car"}, pc[<<r, k>>] \notin {"none", "house", "car"},
         UNCHANGED <<ui, round, crowded>>,
         m_myEvent' \in BOOLEAN, added' \in [Thread -> 0 .. NumLines], m_list' \in Seq(Thread),
         \A q \in Rounds, j \in Kind : q # r \/ j # k => added'[<<q, j>>] = added[<<q, j>>],
         Counted(r, k)'
  PROVE  ThreadInv'
<1>1. v \in LoanPc \cup BuyerPc
  OBVIOUS
<1>2. /\ pc' \in [Thread -> LoanPc \cup BuyerPc]
      /\ pc'[<<r, k>>] = v
      /\ \A q \in Rounds, j \in Kind : q # r \/ j # k => pc'[<<q, j>>] = pc[<<q, j>>]
  BY <1>1, PcStep DEF ThreadInv
<1>3. Staged(r) /\ \A j \in Kind : Counted(r, j)
  BY DEF ThreadInv
<1>4. k \in {"loan", "house", "car"}
  BY DEF Kind
<1>5. /\ pc'[<<r, "loan">>] \in LoanPc
      /\ pc'[<<r, "house">>] \in BuyerPc
      /\ pc'[<<r, "car">>] \in BuyerPc
  <2>1. pc[<<r, "loan">>] \in LoanPc /\ pc[<<r, "house">>] \in BuyerPc /\ pc[<<r, "car">>] \in BuyerPc
    BY DEF ThreadInv, EventTypeOK
  <2>2. CASE k = "loan"
    BY <1>2, <2>1, <2>2 DEF Kind
  <2>3. CASE k = "house"
    BY <1>2, <2>1, <2>3 DEF Kind
  <2>4. CASE k = "car"
    BY <1>2, <2>1, <2>4 DEF Kind
  <2> QED
    BY <1>4, <2>2, <2>3, <2>4
<1>6. Staged(r)'
  <2>1. CASE k = "loan"
    BY <1>2, <1>3, <2>1 DEF Staged, Kind
  <2>2. CASE k = "house"
    BY <1>2, <1>3, <2>2 DEF Staged, Kind
  <2>3. CASE k = "car"
    BY <1>2, <1>3, <2>3 DEF Staged, Kind
  <2> QED
    BY <1>4, <2>1, <2>2, <2>3
<1>7. \A j \in Kind : Counted(r, j)'
  <2> SUFFICES ASSUME NEW j \in Kind, j # k PROVE Counted(r, j)'
    OBVIOUS
  <2>1. pc'[<<r, j>>] = pc[<<r, j>>] /\ added'[<<r, j>>] = added[<<r, j>>]
    BY <1>2
  <2> QED
    BY <1>3, <2>1 DEF Counted
<1>8. \A q \in Rounds, j \in Kind :
        q # r => pc'[<<q, j>>] = pc[<<q, j>>] /\ added'[<<q, j>>] = added[<<q, j>>]
  BY <1>2
<1>9. /\ ui' \in {"idle", "reset", "create"} /\ round' \in 0 .. MaxClicks
      /\ ui' # "idle" => round' < MaxClicks
  BY DEF ThreadInv, EventTypeOK
<1> QED
  BY <1>2, <1>5, <1>6, <1>7, <1>8, <1>9, ThreadMoves

LEMMA AddStringThreads ==
  ASSUME ThreadInv, NEW r \in Rounds, NEW k \in Kind, AddString(r, k)
  PROVE  /\ ThreadInv'
         /\ added'[<<r, k>>] = added[<<r, k>>] + 1
         /\ \A q \in Rounds, j \in Kind : q # r \/ j # k => added'[<<q, j>>] = added[<<q, j>>]
         /\ pc'[<<r, k>>] \in IF k = "loan" THEN {"add", "set"} ELSE {"add", "end"}
         /\ \A q \in Rounds, j \in Kind : q # r \/ j # k => pc'[<<q, j>>] = pc[<<q, j>>]
<1> DEFINE v == IF added'[<<r, k>>] < NumLines THEN "add" ELSE IF k = "loan" THEN "set" ELSE "end"
<1>1. /\ pc[<<r, k>>] = "add"
      /\ m_list' = Append(m_list, <<r, k>>)
      /\ added' = [added EXCEPT ![<<r, k>>] = @ + 1]
      /\ pc' = [pc EXCEPT ![<<r, k>>] = v]
      /\ UNCHANGED <<ui, round, m_myEvent, crowded>>
  BY DEF AddString
<1>2. /\ added[<<r, k>>] < NumLines /\ added[<<r, k>>] \in 0 .. NumLines
      /\ NumLines \in Nat
      /\ added \in [Thread -> 0 .. NumLines]
      /\ pc \in [Thread -> LoanPc \cup BuyerPc]
  BY <1>1, RoundNumber DEF ThreadInv, Counted, EventTypeOK
<1>3. /\ added' \in [Thread -> 0 .. NumLines]
      /\ added'[<<r, k>>] = added[<<r, k>>] + 1
      /\ \A q \in Rounds, j \in Kind : q # r \/ j # k => added'[<<q, j>>] = added[<<q, j>>]
  BY <1>1, <1>2, AddedStep
<1>4. /\ v \in IF k = "loan" THEN {"add", "set"} ELSE {"add", "end"}
      /\ v \in IF k = "loan" THEN LoanPc ELSE BuyerPc
  BY DEF LoanPc, BuyerPc
<1>5. /\ v = "add" => added'[<<r, k>>] < NumLines
      /\ v # "add" => added'[<<r, k>>] = NumLines
  BY <1>2, <1>3
<1> HIDE DEF v
<1>6. v \in LoanPc \cup BuyerPc
  BY <1>4
<1>7. /\ pc' \in [Thread -> LoanPc \cup BuyerPc]
      /\ pc'[<<r, k>>] = v
      /\ \A q \in Rounds, j \in Kind : q # r \/ j # k => pc'[<<q, j>>] = pc[<<q, j>>]
  <2>1. pc' = [pc EXCEPT ![<<r, k>>] = v] /\ pc \in [Thread -> LoanPc \cup BuyerPc]
    BY <1>1, <1>2
  <2> QED
    BY <2>1, <1>6, PcStep
<1>8. Counted(r, k)'
  BY <1>4, <1>5, <1>7 DEF Counted
<1>9. m_list' \in Seq(Thread) /\ m_myEvent' \in BOOLEAN
  <2>1. <<r, k>> \in Thread /\ m_list \in Seq(Thread) /\ m_myEvent \in BOOLEAN
    BY DEF Thread, ThreadInv, EventTypeOK
  <2> QED
    BY <1>1, <2>1
<1>10. v \notin {"none", "house", "car"} /\ pc[<<r, k>>] \notin {"none", "house", "car"}
  BY <1>1, <1>4
<1>11. ThreadInv'
  BY <1>1, <1>3, <1>4, <1>8, <1>9, <1>10, OneThreadMoves
<1> QED
  BY <1>3, <1>4, <1>7, <1>11

LEMMA SetEventThreads ==
  ASSUME ThreadInv, NEW r \in Rounds, SetEvent(r)
  PROVE  /\ ThreadInv'
         /\ pc'[<<r, "loan">>] = "end"
         /\ \A q \in Rounds, j \in Kind : q # r \/ j # "loan" => pc'[<<q, j>>] = pc[<<q, j>>]
<1>1. /\ pc[<<r, "loan">>] = "set"
      /\ m_myEvent' = TRUE
      /\ pc' = [pc EXCEPT ![<<r, "loan">>] = "end"]
      /\ UNCHANGED <<ui, round, added, m_list, crowded>>
  BY DEF SetEvent
<1>2. /\ "loan" \in Kind /\ "end" \in LoanPc \cup BuyerPc
      /\ "end" \in IF "loan" = "loan" THEN LoanPc ELSE BuyerPc
      /\ pc \in [Thread -> LoanPc \cup BuyerPc]
  BY DEF Kind, LoanPc, ThreadInv
<1>3. /\ pc' \in [Thread -> LoanPc \cup BuyerPc]
      /\ pc'[<<r, "loan">>] = "end"
      /\ \A q \in Rounds, j \in Kind : q # r \/ j # "loan" => pc'[<<q, j>>] = pc[<<q, j>>]
  <2>1. pc' = [pc EXCEPT ![<<r, "loan">>] = "end"]
    BY <1>1
  <2> QED
    BY <2>1, <1>2, PcStep
<1>4. Counted(r, "loan")'
  BY <1>1, <1>2, <1>3 DEF ThreadInv, Counted
<1>5. added' \in [Thread -> 0 .. NumLines] /\ m_list' \in Seq(Thread)
  BY <1>1 DEF ThreadInv, EventTypeOK
<1>6. ThreadInv'
  <2>1. /\ "end" \notin {"none", "house", "car"}
        /\ pc[<<r, "loan">>] \notin {"none", "house", "car"}
        /\ m_myEvent' \in BOOLEAN
    BY <1>1
  <2>2. \A q \in Rounds, j \in Kind : added'[<<q, j>>] = added[<<q, j>>]
    BY <1>1
  <2>3. pc' = [pc EXCEPT ![<<r, "loan">>] = "end"] /\ UNCHANGED <<ui, round, crowded>>
    BY <1>1
  <2> QED
    BY <2>1, <2>2, <2>3, <1>2, <1>4, <1>5, OneThreadMoves
<1> QED
  BY <1>3, <1>6

LEMMA WaitThreads ==
  ASSUME ThreadInv, NEW r \in Rounds, NEW k \in Buyer, Wait(r, k)
  PROVE  /\ ThreadInv'
         /\ pc'[<<r, k>>] = "add"
         /\ \A q \in Rounds, j \in Kind : q # r \/ j # k => pc'[<<q, j>>] = pc[<<q, j>>]
<1>1. /\ pc[<<r, k>>] = "wait" /\ m_myEvent
      /\ pc' = [pc EXCEPT ![<<r, k>>] = "add"]
      /\ UNCHANGED <<ui, round, m_myEvent, added, m_list, crowded>>
  BY DEF Wait
<1>2. /\ k \in Kind /\ k # "loan" /\ "add" \in LoanPc \cup BuyerPc
      /\ "add" \in IF k = "loan" THEN LoanPc ELSE BuyerPc
      /\ pc \in [Thread -> LoanPc \cup BuyerPc]
  BY DEF Kind, Buyer, BuyerPc, ThreadInv
<1>3. /\ pc' \in [Thread -> LoanPc \cup BuyerPc]
      /\ pc'[<<r, k>>] = "add"
      /\ \A q \in Rounds, j \in Kind : q # r \/ j # k => pc'[<<q, j>>] = pc[<<q, j>>]
  <2>1. pc' = [pc EXCEPT ![<<r, k>>] = "add"]
    BY <1>1
  <2> QED
    BY <2>1, <1>2, PcStep
<1>4. Counted(r, k)'
  <2>1. added[<<r, k>>] = 0 /\ 0 < NumLines
    BY <1>1, <1>2, EventAssumption DEF ThreadInv, Counted
  <2> QED
    BY <1>1, <1>3, <2>1 DEF Counted
<1>5. m_myEvent' \in BOOLEAN /\ added' \in [Thread -> 0 .. NumLines] /\ m_list' \in Seq(Thread)
  BY <1>1 DEF ThreadInv, EventTypeOK
<1>6. ThreadInv'
  <2>1. /\ "add" \notin {"none", "house", "car"}
        /\ pc[<<r, k>>] \notin {"none", "house", "car"}
    BY <1>1
  <2>2. \A q \in Rounds, j \in Kind : added'[<<q, j>>] = added[<<q, j>>]
    BY <1>1
  <2>3. pc' = [pc EXCEPT ![<<r, k>>] = "add"] /\ UNCHANGED <<ui, round, crowded>>
    BY <1>1
  <2> QED
    BY <2>1, <2>2, <2>3, <1>2, <1>4, <1>5, OneThreadMoves
<1> QED
  BY <1>3, <1>6

LEMMA ThreadStep == ThreadInv /\ [EventNext]_eventVars => ThreadInv'
<1> SUFFICES ASSUME ThreadInv, [EventNext]_eventVars PROVE ThreadInv'
  OBVIOUS
<1>1. CASE UNCHANGED eventVars
  BY <1>1 DEF ThreadInv, EventTypeOK, Staged, Counted, eventVars
<1>2. CASE Click
  BY <1>2, ResetContentThreads, ResetEventThreads, CreateLoanThreadThreads DEF Click
<1>3. ASSUME NEW r \in Rounds, LoanThread(r) PROVE ThreadInv'
  BY <1>3, CreateBuyerThreads, AddStringThreads, SetEventThreads, KindIs DEF LoanThread
<1>4. ASSUME NEW r \in Rounds, NEW k \in Buyer, BuyingThread(r, k) PROVE ThreadInv'
  BY <1>4, AddStringThreads, WaitThreads, KindIs DEF BuyingThread
<1> QED
  BY <1>1, <1>2, <1>3, <1>4 DEF EventNext

-----------------------------------------------------------------------------
(* The rounds *)

(* A click that finds threads at work marks their rounds and its own. *)
LEMMA ResetContentRounds ==
  ASSUME ThreadInv, RoundInv, ResetContent
  PROVE  RoundInv'
<1>1. /\ UNCHANGED <<round, m_myEvent, pc, added>>
      /\ m_list' = <<>> /\ ui' = "reset" /\ ui = "idle"
  BY DEF ResetContent
<1>2. \/ crowded' = crowded /\ \A r \in Rounds : ~Running(r)
      \/ crowded' = crowded \cup {r \in Rounds : Running(r)} \cup {round + 1}
  BY DEF ResetContent, Crowd
<1>3. \A r \in Rounds \ crowded' : ~Running(r)
  BY <1>2
<1>4. \A r \in Rounds : Running(r)' <=> Running(r)
  BY <1>1 DEF Running
<1>5. PastInv'
  BY <1>3, <1>4 DEF PastInv
<1>6. ClickInv'
  BY <1>1, <1>2, <1>4 DEF ClickInv
<1>7. AloneInv'
  BY <1>1 DEF AloneInv
<1> QED
  BY <1>5, <1>6, <1>7 DEF RoundInv

LEMMA ResetEventRounds ==
  ASSUME ThreadInv, RoundInv, ResetEvent
  PROVE  RoundInv'
<1>1. /\ UNCHANGED <<round, pc, added, m_list, crowded>>
      /\ m_myEvent' = FALSE /\ ui' = "create" /\ ui = "reset"
  BY DEF ResetEvent
<1>2. \A r \in Rounds : Running(r)' <=> Running(r)
  BY <1>1 DEF Running
<1>3. PastInv'
  BY <1>1, <1>2 DEF RoundInv, PastInv
<1>4. ClickInv'
  BY <1>1, <1>2 DEF RoundInv, ClickInv
<1>5. AloneInv'
  BY <1>1 DEF AloneInv
<1> QED
  BY <1>3, <1>4, <1>5 DEF RoundInv

LEMMA CreateLoanThreadRounds ==
  ASSUME ThreadInv, RoundInv, CreateLoanThread
  PROVE  RoundInv'
<1>0. PICK n : n = round + 1
  OBVIOUS
<1>1. /\ ui = "create" /\ ui' = "idle" /\ round' = n
      /\ pc' = [pc EXCEPT ![<<n, "loan">>] = "house"]
      /\ UNCHANGED <<m_myEvent, added, m_list, crowded>>
  BY <1>0 DEF CreateLoanThread
<1>2. n \in Rounds /\ round \in Int /\ n = round + 1
  BY <1>0, <1>1, RoundNumber DEF ThreadInv, Rounds
<1>3. /\ pc' \in [Thread -> LoanPc \cup BuyerPc]
      /\ pc'[<<n, "loan">>] = "house"
      /\ \A q \in Rounds, j \in Kind : q # n \/ j # "loan" => pc'[<<q, j>>] = pc[<<q, j>>]
  BY <1>1, <1>2, PcStep DEF ThreadInv, Kind, LoanPc
<1>4. pc[<<n, "loan">>] = "none" /\ pc[<<n, "house">>] = "none" /\ pc[<<n, "car">>] = "none"
  <2>1. ~ (n <= round) /\ Staged(n)
    BY <1>2 DEF ThreadInv
  <2> QED
    BY <2>1 DEF Staged
<1>5. \A r \in Rounds : r # n => (Running(r)' <=> Running(r))
  BY <1>3 DEF Running
<1>6. PastInv'
  <2> SUFFICES ASSUME NEW r \in Rounds \ crowded, r < n
               PROVE  ~Running(r)'
    BY <1>1 DEF PastInv
  <2>1. r # n /\ (r < round \/ r = round)
    BY <1>2, RoundNumber
  <2>2. ~Running(r)
    BY <1>1, <2>1 DEF RoundInv, PastInv
  <2> QED
    BY <1>5, <2>1, <2>2
<1>7. ClickInv'
  BY <1>1 DEF ClickInv
<1>8. AloneInv'
  <2> SUFFICES ASSUME n \notin crowded
               PROVE  /\ \A r \in Rounds \ {n} : ~Running(r)'
                      /\ ~m_myEvent' /\ \A k \in Buyer : pc'[<<n, k>>] \in {"none", "wait"}
                      /\ OwnList(n)'
    BY <1>1, <1>3 DEF AloneInv, OwnList, LineOf
  <2>1. m_list = <<>> /\ ~m_myEvent /\ \A r \in Rounds : ~Running(r)
    BY <1>1, <1>2 DEF RoundInv, ClickInv
  <2>2. \A k \in Buyer : pc'[<<n, k>>] = "none"
    BY <1>2, <1>3, <1>4 DEF Buyer, Kind
  <2>3. \A k \in Kind : added'[<<n, k>>] = 0
    BY <1>1, <1>2, <1>4 DEF ThreadInv, Counted, Kind
  <2>4. Len(m_list') = 0
    BY <1>1, <2>1
  <2>5. OwnList(n)'
    <3>1. ASSUME NEW k \in Buyer PROVE Cardinality(LineOf(k)') = added'[<<n, k>>]
      <4>1. LineOf(k)' = {}
        BY <2>4 DEF LineOf
      <4>2. Cardinality({}) = 0
        BY FS_EmptySet
      <4>3. added'[<<n, k>>] = 0
        BY <2>3, KindIs
      <4> QED
        BY <4>1, <4>2, <4>3
    <3>2. \A i \in 1 .. Len(m_list') :
            m_list'[i][1] = n /\ (m_list'[i][2] = "loan" <=> i <= added'[<<n, "loan">>])
      BY <2>4
    <3>3. added'[<<n, "loan">>] = 0 /\ added'[<<n, "house">>] = 0 /\ added'[<<n, "car">>] = 0
      BY <2>3 DEF Kind
    <3>4. Len(m_list') = added'[<<n, "loan">>] + added'[<<n, "house">>] + added'[<<n, "car">>]
      BY <2>4, <3>3
    <3> QED
      BY <3>1, <3>2, <3>4 DEF OwnList
  <2> QED
    BY <1>1, <1>5, <2>1, <2>2, <2>5
<1> QED
  BY <1>6, <1>7, <1>8 DEF RoundInv

(* A thread that runs is in a crowded round, or in the last one and alone.   *)
LEMMA RunnerAlone ==
  ASSUME ThreadInv, RoundInv, NEW r \in Rounds, Running(r),
         UNCHANGED <<ui, round, crowded>>,
         \A q \in Rounds, j \in Kind : q # r => pc'[<<q, j>>] = pc[<<q, j>>]
  PROVE  /\ PastInv' /\ ClickInv'
         /\ ui = "idle" /\ round \in Rounds \ crowded =>
              r = round /\ \A q \in Rounds \ {round} : ~Running(q)'
<1>1. \A q \in Rounds : q # r => (Running(q)' <=> Running(q))
  BY DEF Running
<1>2. PastInv'
  BY <1>1 DEF RoundInv, PastInv
<1>3. ClickInv'
  BY DEF RoundInv, ClickInv
<1>4. ui = "idle" /\ round \in Rounds \ crowded =>
        r = round /\ \A q \in Rounds \ {round} : ~Running(q)'
  BY <1>1 DEF RoundInv, AloneInv
<1> QED
  BY <1>2, <1>3, <1>4

LEMMA CreateBuyerRounds ==
  ASSUME ThreadInv, RoundInv, NEW r \in Rounds, NEW k \in Buyer, CreateBuyer(r, k)
  PROVE  RoundInv'
<1>1. /\ pc[<<r, "loan">>] = k /\ k \in Kind /\ k \notin {"none", "end", "loan"}
      /\ UNCHANGED <<ui, round, m_myEvent, added, m_list, crowded>>
  BY DEF CreateBuyer, Buyer, Kind
<1>2. /\ pc'[<<r, k>>] = "wait" /\ pc'[<<r, "loan">>] # "end"
      /\ \A q \in Rounds, j \in Kind :
           <<q, j>> \notin {<<r, k>>, <<r, "loan">>} => pc'[<<q, j>>] = pc[<<q, j>>]
  BY CreateBuyerThreads
<1>3. Running(r)
  BY <1>1, KindIs DEF Running
<1>4. \A q \in Rounds, j \in Kind : q # r => pc'[<<q, j>>] = pc[<<q, j>>]
  BY <1>2
<1>5. /\ PastInv' /\ ClickInv'
      /\ ui = "idle" /\ round \in Rounds \ crowded =>
           r = round /\ \A q \in Rounds \ {round} : ~Running(q)'
  BY <1>1, <1>3, <1>4, RunnerAlone
<1>6. ASSUME ui = "idle", round \in Rounds \ crowded
      PROVE  /\ ~m_myEvent /\ \A j \in Buyer : pc'[<<r, j>>] \in {"none", "wait"}
             /\ OwnList(r)
  <2>1. r = round
    BY <1>5, <1>6
  <2>2. /\ pc[<<r, "loan">>] # "end" =>
             ~m_myEvent /\ \A j \in Buyer : pc[<<r, j>>] \in {"none", "wait"}
        /\ OwnList(r)
    BY <1>6, <2>1 DEF RoundInv, AloneInv
  <2>3. ~m_myEvent /\ \A j \in Buyer : pc[<<r, j>>] \in {"none", "wait"}
    BY <1>1, <2>2
  <2>4. ASSUME NEW j \in Buyer PROVE pc'[<<r, j>>] \in {"none", "wait"}
    <3>1. CASE j = k
      BY <1>2, <3>1
    <3>2. CASE j # k
      BY <1>2, <2>3, <3>2, KindIs
    <3> QED
      BY <3>1, <3>2
  <2> QED
    BY <2>2, <2>3, <2>4
<1>7. AloneInv'
  <2> SUFFICES ASSUME ui = "idle", round \in Rounds \ crowded
               PROVE  /\ \A q \in Rounds \ {round} : ~Running(q)'
                      /\ ~m_myEvent /\ \A j \in Buyer : pc'[<<round, j>>] \in {"none", "wait"}
                      /\ OwnList(round)
    BY <1>1 DEF AloneInv, OwnList, LineOf
  <2> QED
    BY <1>5, <1>6
<1> QED
  BY <1>5, <1>7 DEF RoundInv

LEMMA SetEventRounds ==
  ASSUME ThreadInv, RoundInv, NEW r \in Rounds, SetEvent(r)
  PROVE  RoundInv'
<1>1. /\ pc[<<r, "loan">>] = "set" /\ "loan" \in Kind
      /\ UNCHANGED <<ui, round, added, m_list, crowded>>
  BY DEF SetEvent, Kind
<1>2. /\ pc'[<<r, "loan">>] = "end"
      /\ \A q \in Rounds, j \in Kind : q # r \/ j # "loan" => pc'[<<q, j>>] = pc[<<q, j>>]
  BY SetEventThreads
<1>3. Running(r)
  BY <1>1 DEF Running
<1>4. /\ PastInv' /\ ClickInv'
      /\ ui = "idle" /\ round \in Rounds \ crowded =>
           r = round /\ \A q \in Rounds \ {round} : ~Running(q)'
  BY <1>1, <1>2, <1>3, RunnerAlone
<1>5. AloneInv'
  <2> SUFFICES ASSUME ui = "idle", round \in Rounds \ crowded
               PROVE  /\ \A q \in Rounds \ {round} : ~Running(q)'
                      /\ pc'[<<round, "loan">>] = "end"
                      /\ OwnList(round)
    BY <1>1 DEF AloneInv, OwnList, LineOf
  <2>1. OwnList(round)
    BY DEF RoundInv, AloneInv
  <2> QED
    BY <1>2, <1>4, <2>1
<1> QED
  BY <1>4, <1>5 DEF RoundInv

(* The event of a round that is alone lets nobody go before the loan. *)
LEMMA WaitRounds ==
  ASSUME ThreadInv, RoundInv, NEW r \in Rounds, NEW k \in Buyer, Wait(r, k)
  PROVE  RoundInv'
<1>1. /\ pc[<<r, k>>] = "wait" /\ m_myEvent /\ k \in Kind /\ k # "loan" /\ "loan" \in Kind
      /\ UNCHANGED <<ui, round, m_myEvent, added, m_list, crowded>>
  BY DEF Wait, Kind, Buyer
<1>2. \A q \in Rounds, j \in Kind : q # r \/ j # k => pc'[<<q, j>>] = pc[<<q, j>>]
  BY WaitThreads
<1>3. Running(r)
  BY <1>1 DEF Running
<1>4. /\ PastInv' /\ ClickInv'
      /\ ui = "idle" /\ round \in Rounds \ crowded =>
           r = round /\ \A q \in Rounds \ {round} : ~Running(q)'
  BY <1>1, <1>2, <1>3, RunnerAlone
<1>5. AloneInv'
  <2> SUFFICES ASSUME ui = "idle", round \in Rounds \ crowded
               PROVE  /\ \A q \in Rounds \ {round} : ~Running(q)'
                      /\ pc'[<<round, "loan">>] = "end"
                      /\ OwnList(round)
    BY <1>1 DEF AloneInv, OwnList, LineOf
  <2>1. OwnList(round) /\ pc[<<round, "loan">>] = "end"
    BY <1>1 DEF RoundInv, AloneInv
  <2> QED
    BY <1>1, <1>2, <1>4, <2>1
<1> QED
  BY <1>4, <1>5 DEF RoundInv

(* A line more leaves the list the round's own, when the loans are complete  *)
(* before a buyer adds.                                                      *)
LEMMA OwnListGrows ==
  ASSUME ThreadInv, NEW r \in Rounds, NEW k \in Kind, OwnList(r), AddString(r, k),
         k = "loan" => \A j \in Buyer : added[<<r, j>>] = 0,
         k # "loan" => added[<<r, "loan">>] = NumLines
  PROVE  OwnList(r)'
<1> DEFINE a(j) == added[<<r, j>>]
           n == Len(m_list) + 1
<1>1. /\ a("loan") \in Nat /\ a("house") \in Nat /\ a("car") \in Nat
      /\ \A j \in Kind : a(j) \in Nat
      /\ \A j \in Kind : a(j) \in 0 .. NumLines
  BY RoundNumber DEF Kind
<1>2. /\ added'[<<r, k>>] = a(k) + 1
      /\ \A j \in Kind : j # k => added'[<<r, j>>] = a(j)
  <2>1. /\ added'[<<r, k>>] = added[<<r, k>>] + 1
        /\ \A q \in Rounds, j \in Kind : q # r \/ j # k => added'[<<q, j>>] = added[<<q, j>>]
    BY AddStringThreads
  <2> QED
    BY <2>1
<1>3. /\ Len(m_list) \in Nat /\ Len(m_list') = n
      /\ \A i \in 1 .. Len(m_list) : m_list'[i] = m_list[i]
      /\ m_list'[n] = <<r, k>>
  <2>1. m_list' = Append(m_list, <<r, k>>) /\ m_list \in Seq(Thread)
    BY DEF AddString, ThreadInv, EventTypeOK
  <2> QED
    BY <2>1
<1>4. /\ \A i \in 1 .. Len(m_list) : m_list[i][1] = r /\ (m_list[i][2] = "loan" <=> i <= a("loan"))
      /\ Len(m_list) = a("loan") + a("house") + a("car")
      /\ \A j \in Buyer : Cardinality(LineOf(j)) = a(j)
  BY DEF OwnList
<1>5. k \in {"loan", "house", "car"}
  BY DEF Kind
<1>6. Len(m_list') = added'[<<r, "loan">>] + added'[<<r, "house">>] + added'[<<r, "car">>]
  <2>1. "loan" \in Kind /\ "house" \in Kind /\ "car" \in Kind
    BY DEF Kind
  <2>2. /\ a("loan") \in Nat /\ a("house") \in Nat /\ a("car") \in Nat
        /\ Len(m_list') = a("loan") + a("house") + a("car") + 1
    BY <1>1, <1>3, <1>4
  <2>3. CASE k = "loan"
    <3>1. /\ added'[<<r, "loan">>] = a("loan") + 1 /\ added'[<<r, "house">>] = a("house")
          /\ added'[<<r, "car">>] = a("car")
      BY <1>2, <2>1, <2>3
    <3> QED
      BY <2>2, <3>1
  <2>4. CASE k = "house"
    <3>1. /\ added'[<<r, "loan">>] = a("loan") /\ added'[<<r, "house">>] = a("house") + 1
          /\ added'[<<r, "car">>] = a("car")
      BY <1>2, <2>1, <2>4
    <3> QED
      BY <2>2, <3>1
  <2>5. CASE k = "car"
    <3>1. /\ added'[<<r, "loan">>] = a("loan") /\ added'[<<r, "house">>] = a("house")
          /\ added'[<<r, "car">>] = a("car") + 1
      BY <1>2, <2>1, <2>5
    <3> QED
      BY <2>2, <3>1
  <2> QED
    BY <1>5, <2>3, <2>4, <2>5
<1>7. ASSUME NEW i \in 1 .. Len(m_list')
      PROVE  /\ m_list'[i][1] = r
             /\ m_list'[i][2] = "loan" <=> i <= added'[<<r, "loan">>]
  <2>1. i = n \/ i \in 1 .. Len(m_list)
    BY <1>3
  <2>2. CASE k = "loan"
    <3>1. a("house") = 0 /\ a("car") = 0
      BY <2>2 DEF Buyer
    <3>2. Len(m_list) = a("loan") /\ added'[<<r, "loan">>] = a("loan") + 1
      BY <1>1, <1>2, <1>4, <2>2, <3>1
    <3>3. CASE i = n
      <4>1. m_list'[i][1] = r /\ m_list'[i][2] = "loan"
        BY <1>3, <2>2, <3>3
      <4>2. i <= added'[<<r, "loan">>]
        BY <1>3, <3>2, <3>3
      <4> QED
        BY <4>1, <4>2
    <3>4. CASE i \in 1 .. Len(m_list)
      <4>1. m_list'[i] = m_list[i]
        BY <1>3, <3>4
      <4>2. i <= a("loan") /\ i <= added'[<<r, "loan">>]
        BY <1>3, <3>2, <3>4
      <4> QED
        BY <1>4, <3>4, <4>1, <4>2
    <3> QED
      BY <2>1, <3>3, <3>4
  <2>3. CASE k # "loan"
    <3>1. added'[<<r, "loan">>] = a("loan")
      BY <1>2, <2>3 DEF Kind
    <3>2. CASE i = n
      <4>1. m_list'[i][1] = r /\ m_list'[i][2] # "loan"
        BY <1>3, <2>3, <3>2
      <4>2. a("loan") <= Len(m_list)
        BY <1>1, <1>4
      <4>3. ~ (i <= added'[<<r, "loan">>])
        BY <1>1, <1>3, <3>1, <3>2, <4>2
      <4> QED
        BY <4>1, <4>3
    <3>3. CASE i \in 1 .. Len(m_list)
      <4>1. m_list'[i] = m_list[i]
        BY <1>3, <3>3
      <4> QED
        BY <1>4, <3>1, <3>3, <4>1
    <3> QED
      BY <2>1, <3>2, <3>3
  <2> QED
    BY <2>2, <2>3
<1>8. ASSUME NEW j \in Buyer
      PROVE  Cardinality(LineOf(j)') = added'[<<r, j>>]
  <2>1. IsFiniteSet(LineOf(j)) /\ n \notin LineOf(j)
    <3>1. IsFiniteSet(1 .. Len(m_list))
      BY <1>3, FS_Interval
    <3>2. LineOf(j) \in SUBSET (1 .. Len(m_list))
      BY DEF LineOf
    <3>3. n \notin 1 .. Len(m_list)
      BY <1>3
    <3> QED
      BY <3>1, <3>2, <3>3, FS_Subset
  <2>2. 1 .. Len(m_list') = (1 .. Len(m_list)) \cup {n}
    BY <1>3
  <2>3. m_list'[n][2] = k
    BY <1>3
  <2>4. CASE j = k
    <3>1. LineOf(j)' = LineOf(j) \cup {n}
      BY <1>3, <2>2, <2>3, <2>4 DEF LineOf
    <3>2. Cardinality(LineOf(j)') = Cardinality(LineOf(j)) + 1
      BY <2>1, <3>1, FS_AddElement
    <3> QED
      BY <1>2, <1>4, <2>4, <3>2
  <2>5. CASE j # k
    <3>1. LineOf(j)' = LineOf(j)
      BY <1>3, <2>2, <2>3, <2>5 DEF LineOf
    <3>2. added'[<<r, j>>] = a(j)
      BY <1>2, <2>5, KindIs
    <3> QED
      BY <1>4, <3>1, <3>2
  <2> QED
    BY <2>4, <2>5
<1> QED
  BY <1>6, <1>7, <1>8 DEF OwnList

LEMMA AddStringRounds ==
  ASSUME ThreadInv, RoundInv, NEW r \in Rounds, NEW k \in Kind, AddString(r, k)
  PROVE  RoundInv'
<1>1. /\ pc[<<r, k>>] = "add"
      /\ UNCHANGED <<ui, round, m_myEvent, crowded>>
  BY DEF AddString
<1>2. /\ pc'[<<r, k>>] \in IF k = "loan" THEN {"add", "set"} ELSE {"add", "end"}
      /\ \A q \in Rounds, j \in Kind : q # r \/ j # k => pc'[<<q, j>>] = pc[<<q, j>>]
  BY AddStringThreads
<1>3. Running(r)
  BY <1>1 DEF Running
<1>4. /\ PastInv' /\ ClickInv'
      /\ ui = "idle" /\ round \in Rounds \ crowded =>
           r = round /\ \A q \in Rounds \ {round} : ~Running(q)'
  BY <1>1, <1>2, <1>3, RunnerAlone
<1>5. ASSUME ui = "idle", round \in Rounds \ crowded
      PROVE  /\ pc'[<<r, "loan">>] # "end" =>
                  ~m_myEvent /\ \A j \in Buyer : pc'[<<r, j>>] \in {"none", "wait"}
             /\ OwnList(r)'
  <2>1. r = round
    BY <1>4, <1>5
  <2>2. /\ pc[<<r, "loan">>] # "end" =>
             ~m_myEvent /\ \A j \in Buyer : pc[<<r, j>>] \in {"none", "wait"}
        /\ OwnList(r)
    BY <1>5, <2>1 DEF RoundInv, AloneInv
  <2>3. CASE k = "loan"
    <3>1. ~m_myEvent /\ \A j \in Buyer : pc[<<r, j>>] \in {"none", "wait"}
      BY <1>1, <2>2, <2>3
    <3>2. \A j \in Buyer : pc'[<<r, j>>] = pc[<<r, j>>]
      BY <1>2, <2>3, KindIs
    <3>3. \A j \in Buyer : added[<<r, j>>] = 0
      BY <3>1, KindIs DEF ThreadInv, Counted
    <3>4. OwnList(r)'
      BY <2>2, <2>3, <3>3, OwnListGrows
    <3> QED
      BY <3>1, <3>2, <3>4
  <2>4. CASE k # "loan"
    <3>1. k \in Buyer /\ "loan" \in Kind
      BY <2>4, KindIs
    <3>2. pc[<<r, "loan">>] = "end"
      BY <1>1, <2>2, <3>1
    <3>3. pc'[<<r, "loan">>] = "end"
      BY <1>2, <2>4, <3>1, <3>2
    <3>4. added[<<r, "loan">>] = NumLines
      BY <3>1, <3>2 DEF ThreadInv, Counted
    <3>5. OwnList(r)'
      BY <2>2, <2>4, <3>4, OwnListGrows
    <3> QED
      BY <3>3, <3>5
  <2> QED
    BY <2>3, <2>4
<1>6. AloneInv'
  <2>1. CASE ui = "idle" /\ round \in Rounds \ crowded
    <3>1. r = round /\ \A q \in Rounds \ {round} : ~Running(q)'
      BY <1>4, <2>1
    <3>2. PICK q : q = r
      OBVIOUS
    <3>3. /\ pc'[<<q, "loan">>] # "end" =>
               ~m_myEvent /\ \A j \in Buyer : pc'[<<q, j>>] \in {"none", "wait"}
          /\ OwnList(q)'
      BY <1>5, <2>1, <3>2
    <3>4. round' = q
      BY <1>1, <3>1, <3>2
    <3> QED
      BY <1>1, <3>1, <3>3, <3>4 DEF AloneInv, OwnList, LineOf
  <2>2. CASE ~ (ui = "idle" /\ round \in Rounds \ crowded)
    BY <1>1, <2>2 DEF AloneInv
  <2> QED
    BY <2>1, <2>2
<1> QED
  BY <1>4, <1>6 DEF RoundInv

LEMMA RoundStep == ThreadInv /\ RoundInv /\ [EventNext]_eventVars => RoundInv'
<1> SUFFICES ASSUME ThreadInv, RoundInv, [EventNext]_eventVars PROVE RoundInv'
  OBVIOUS
<1>1. CASE UNCHANGED eventVars
  <2>1. /\ ui' = ui /\ round' = round /\ crowded' = crowded /\ m_list' = m_list
        /\ m_myEvent' = m_myEvent /\ pc' = pc /\ added' = added
    BY <1>1 DEF eventVars
  <2>2. PastInv' /\ ClickInv'
    BY <2>1 DEF RoundInv, PastInv, ClickInv, Running
  <2>3. AloneInv'
    BY <2>1 DEF RoundInv, AloneInv, OwnList, LineOf, Running
  <2> QED
    BY <2>2, <2>3 DEF RoundInv
<1>2. CASE Click
  BY <1>2, ResetContentRounds, ResetEventRounds, CreateLoanThreadRounds DEF Click
<1>3. ASSUME NEW r \in Rounds, LoanThread(r) PROVE RoundInv'
  BY <1>3, CreateBuyerRounds, AddStringRounds, SetEventRounds, KindIs DEF LoanThread
<1>4. ASSUME NEW r \in Rounds, NEW k \in Buyer, BuyingThread(r, k) PROVE RoundInv'
  BY <1>4, AddStringRounds, WaitRounds, KindIs DEF BuyingThread
<1> QED
  BY <1>1, <1>2, <1>3, <1>4 DEF EventNext

-----------------------------------------------------------------------------
LEMMA EndedRound ==
  ASSUME ThreadInv, NEW r \in Rounds, r <= round, ~Running(r)
  PROVE  \A k \in Kind : pc[<<r, k>>] = "end" /\ added[<<r, k>>] = NumLines
<1>1. Staged(r) /\ \A k \in Kind : Counted(r, k)
  BY DEF ThreadInv
<1>2. \A k \in Kind : pc[<<r, k>>] \in {"none", "end"}
  BY DEF Running
<1>3. pc[<<r, "loan">>] = "end"
  BY <1>1, <1>2 DEF Staged, Kind
<1>4. \A k \in Kind : pc[<<r, k>>] = "end"
  BY <1>1, <1>2, <1>3 DEF Staged, Kind
<1> QED
  BY <1>1, <1>4 DEF Counted

LEMMA RoundsImply == ThreadInv /\ RoundInv => BuyAfterLoan /\ ListIsRound
<1> SUFFICES ASSUME ThreadInv, RoundInv PROVE BuyAfterLoan /\ ListIsRound
  OBVIOUS
<1>1. ASSUME NEW r \in Rounds \ crowded, NEW k \in Buyer, pc[<<r, k>>] \in {"add", "end"}
      PROVE  pc[<<r, "loan">>] = "end"
  <2>1. r <= round
    BY <1>1 DEF ThreadInv, Staged, Buyer
  <2>2. CASE ~Running(r)
    BY <2>1, <2>2, EndedRound DEF Kind
  <2>3. CASE Running(r)
    <3>1. r = round /\ ui = "idle"
      BY <2>1, <2>3, RoundNumber DEF RoundInv, PastInv
    <3> QED
      BY <1>1, <3>1 DEF RoundInv, AloneInv
  <2> QED
    BY <2>2, <2>3
<1>2. ASSUME ui = "idle", round > 0, round \notin crowded, ~Running(round)
      PROVE  /\ Len(m_list) = 3 * NumLines
             /\ \A i \in 1 .. Len(m_list) :
                  m_list[i][1] = round /\ (m_list[i][2] = "loan" <=> i <= NumLines)
             /\ \A k \in Buyer : Cardinality({i \in 1 .. Len(m_list) : m_list[i][2] = k}) = NumLines
  <2>1. round \in Rounds /\ round <= round /\ NumLines \in Nat
    BY <1>2, RoundNumber DEF Rounds
  <2>2. added[<<round, "loan">>] = NumLines /\ \A k \in Buyer : added[<<round, k>>] = NumLines
    BY <1>2, <2>1, EndedRound, KindIs
  <2>3. OwnList(round)
    BY <1>2, <2>1 DEF RoundInv, AloneInv
  <2>4. Len(m_list) = NumLines + NumLines + NumLines
    BY <2>2, <2>3 DEF OwnList, Buyer
  <2>5. Len(m_list) = 3 * NumLines
    BY <2>1, <2>4
  <2> QED
    BY <2>2, <2>3, <2>5 DEF OwnList, LineOf
<1> QED
  BY <1>1, <1>2 DEF BuyAfterLoan, ListIsRound

LEMMA EventInvariant == EventSpec => [](ThreadInv /\ RoundInv)
  BY EventInitInv, ThreadStep, RoundStep, PTL DEF EventSpec

(* The event, the list and the threads of every round keep their types,      *)
(* whenever the user clicks (ManualResetEventDlg.cpp:145-157).               *)
THEOREM EventTypes == EventSpec => []EventTypeOK
<1>1. ThreadInv => EventTypeOK
  BY DEF ThreadInv
<1> QED
  BY <1>1, EventInvariant, PTL

(* No thread buys before the money of its round is there, unless the round   *)
(* ran at the same time as another (ManualResetEventDlg.cpp:100).            *)
THEOREM BuyAfterLoanCorrect == EventSpec => []BuyAfterLoan
<1> QED
  BY EventInvariant, RoundsImply, PTL

(* The list of a round that ran alone shows this round and nothing else,     *)
(* its loans before its purchases, for every number of lines and clicks.     *)
THEOREM ListCorrect == EventSpec => []ListIsRound
<1> QED
  BY EventInvariant, RoundsImply, PTL

==============================================================================
