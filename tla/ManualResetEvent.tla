-------------------------- MODULE ManualResetEvent --------------------------
(***************************************************************************)
(* The exercise with a manual-reset event: every click starts a round, a   *)
(* thread that borrows money and two threads that wait for the event and   *)
(* then buy.  All of them write lines into one list box.  Nothing keeps    *)
(* the user from clicking while an earlier round is under way, and all     *)
(* rounds share the event and the list.                                    *)
(*                                                                         *)
(* AddString from a thread is a message that the thread with the window    *)
(* answers, so no line is added while that thread is in the click handler. *)
(*                                                                         *)
(* The specification's names begin with Event, so that AnLNTProofs can     *)
(* extend this module together with UpdateReport.                          *)
(***************************************************************************)
EXTENDS Integers, Sequences, FiniteSets

CONSTANTS
  NumLines,     \* lines a thread adds (10 in the code)
  MaxClicks     \* bound: clicks

ASSUME EventAssumption == NumLines \in Nat \ {0} /\ MaxClicks \in Nat

Kind == {"loan", "house", "car"}
Buyer == {"house", "car"}
Rounds == 1 .. MaxClicks

VARIABLES
  ui,          \* the click handler: idle, or the call it is about to make
  round,       \* rounds started
  m_myEvent,   \* the event is signalled
  pc,          \* the threads of each round
  added,       \* how many lines a thread has added
  m_list,      \* the lines in the box: the thread they are from
  crowded      \* history: the rounds that met threads of another round

eventVars == <<ui, round, m_myEvent, pc, added, m_list, crowded>>

Thread == Rounds \X Kind
LoanPc == {"none", "house", "car", "add", "set", "end"}
BuyerPc == {"none", "wait", "add", "end"}

EventTypeOK ==
  /\ ui \in {"idle", "reset", "create"}
  /\ round \in 0 .. MaxClicks
  /\ m_myEvent \in BOOLEAN
  /\ \A r \in Rounds : pc[<<r, "loan">>] \in LoanPc /\ pc[<<r, "house">>] \in BuyerPc /\ pc[<<r, "car">>] \in BuyerPc
  /\ added \in [Thread -> 0 .. NumLines]
  /\ m_list \in Seq(Thread)
  /\ crowded \subseteq Rounds

EventInit ==
  /\ ui = "idle" /\ round = 0 /\ m_myEvent = FALSE
  /\ pc = [t \in Thread |-> "none"] /\ added = [t \in Thread |-> 0]
  /\ m_list = <<>> /\ crowded = {}

Running(r) == \E k \in Kind : pc[<<r, k>>] \notin {"none", "end"}
Crowd == crowded' = LET others == {r \in Rounds : Running(r)}
                    IN  IF others = {} THEN crowded ELSE crowded \cup others \cup {round + 1}

-----------------------------------------------------------------------------
(* Mutant: The list is not emptied. *)
ResetContent_Not ==
  /\ ui = "idle" /\ round < MaxClicks
  /\ ui' = "reset"
  /\ Crowd
  /\ UNCHANGED <<round, m_myEvent, pc, added, m_list>>

(* OnBnClickedButton1 *)
ResetContent ==
  /\ ui = "idle" /\ round < MaxClicks
  /\ m_list' = <<>>
  /\ ui' = "reset"
  /\ Crowd
  /\ UNCHANGED <<round, m_myEvent, pc, added>>

(* Mutant: The event is not reset: the signal of the last round is still there. *)
ResetEvent_Not ==
  /\ ui = "reset"
  /\ ui' = "create"
  /\ UNCHANGED <<round, m_myEvent, pc, added, m_list, crowded>>

ResetEvent ==
  /\ ui = "reset"
  /\ m_myEvent' = FALSE
  /\ ui' = "create"
  /\ UNCHANGED <<round, pc, added, m_list, crowded>>

CreateLoanThread ==
  /\ ui = "create"
  /\ round' = round + 1
  /\ pc' = [pc EXCEPT ![<<round + 1, "loan">>] = "house"]
  /\ ui' = "idle"
  /\ UNCHANGED <<m_myEvent, added, m_list, crowded>>

-----------------------------------------------------------------------------
(* UpdateListThreadFunction *)
CreateBuyer(r, k) ==
  /\ pc[<<r, "loan">>] = k
  /\ pc' = [pc EXCEPT ![<<r, k>>] = "wait", ![<<r, "loan">>] = IF k = "house" THEN "car" ELSE "add"]
  /\ UNCHANGED <<ui, round, m_myEvent, added, m_list, crowded>>

(* Mutant: One line too many. *)
AddString_OneMore(r, k) ==
  /\ ui = "idle"
  /\ pc[<<r, k>>] = "add"
  /\ m_list' = Append(m_list, <<r, k>>)
  /\ added' = [added EXCEPT ![<<r, k>>] = @ + 1]
  /\ pc' = [pc EXCEPT ![<<r, k>>] =
              IF added'[<<r, k>>] <= NumLines THEN "add" ELSE IF k = "loan" THEN "set" ELSE "end"]
  /\ UNCHANGED <<ui, round, m_myEvent, crowded>>

AddString(r, k) ==
  /\ ui = "idle"
  /\ pc[<<r, k>>] = "add"
  /\ m_list' = Append(m_list, <<r, k>>)
  /\ added' = [added EXCEPT ![<<r, k>>] = @ + 1]
  /\ pc' = [pc EXCEPT ![<<r, k>>] =
              IF added'[<<r, k>>] < NumLines THEN "add" ELSE IF k = "loan" THEN "set" ELSE "end"]
  /\ UNCHANGED <<ui, round, m_myEvent, crowded>>

SetEvent(r) ==
  /\ pc[<<r, "loan">>] = "set"
  /\ m_myEvent' = TRUE
  /\ pc' = [pc EXCEPT ![<<r, "loan">>] = "end"]
  /\ UNCHANGED <<ui, round, added, m_list, crowded>>

(* Mutant: The event is created as one that resets itself. *)
Wait_AutoReset(r, k) ==
  /\ pc[<<r, k>>] = "wait" /\ m_myEvent
  /\ m_myEvent' = FALSE
  /\ pc' = [pc EXCEPT ![<<r, k>>] = "add"]
  /\ UNCHANGED <<ui, round, added, m_list, crowded>>

(* HouseBuyingThreadFunction, CarBuyingThreadFunction.  A thread that has not
   reached Wait when the event is signalled may find it reset again. *)
Wait(r, k) ==
  /\ pc[<<r, k>>] = "wait" /\ m_myEvent
  /\ pc' = [pc EXCEPT ![<<r, k>>] = "add"]
  /\ UNCHANGED <<ui, round, m_myEvent, added, m_list, crowded>>

Click == ResetContent \/ ResetEvent \/ CreateLoanThread
LoanThread(r) ==
  \/ \E k \in Buyer : CreateBuyer(r, k)
  \/ AddString(r, "loan") \/ SetEvent(r)
BuyingThread(r, k) == Wait(r, k) \/ AddString(r, k)

EventNext ==
  \/ Click
  \/ \E r \in Rounds : LoanThread(r) \/ \E k \in Buyer : BuyingThread(r, k)

EventSpec == EventInit /\ [][EventNext]_eventVars

(* The threads run, and a click handler that has begun ends.  The user need not
   click. *)
EventFairSpec ==
  /\ EventSpec
  /\ WF_eventVars(ResetEvent) /\ WF_eventVars(CreateLoanThread)
  /\ \A r \in Rounds : WF_eventVars(LoanThread(r)) /\ \A k \in Buyer : WF_eventVars(BuyingThread(r, k))

-----------------------------------------------------------------------------
(* A thread buys before the money of its round is there (the event at
   ManualResetEventDlg.cpp:100 is to prevent it) only when its round ran at the
   same time as another, whose SetEvent let it go. *)
BuyAfterLoan ==
  \A r \in Rounds \ crowded : \A k \in Buyer : pc[<<r, k>>] \in {"add", "end"} => pc[<<r, "loan">>] = "end"

(* When the last round ran alone and has ended, the list shows that round and
   nothing else: first all its loans, then both purchases in full. *)
ListIsRound ==
  ui = "idle" /\ round > 0 /\ round \notin crowded /\ ~Running(round) =>
    /\ Len(m_list) = 3 * NumLines
    /\ \A i \in 1 .. Len(m_list) :
         m_list[i][1] = round /\ (m_list[i][2] = "loan" <=> i <= NumLines)
    /\ \A k \in Buyer : Cardinality({i \in 1 .. Len(m_list) : m_list[i][2] = k}) = NumLines

(* No buyer waits for ever: a reset event is signalled again, because every
   click resets it before its own loan thread exists (ManualResetEventDlg.cpp:150). *)
RoundEnds == \A r \in Rounds : round >= r ~> ~Running(r)

==============================================================================
