----------------------- MODULE BlackListUpdateProofs -----------------------
(***************************************************************************)
(* Proofs about BlackListUpdate, for every set of addresses, every LIKE    *)
(* under which an address is like itself, and every choice of lists.       *)
(*                                                                         *)
(* ImportedWhole and DeletesOnlyDropped speak of the end of an import.     *)
(* What makes them provable is the invariant of the loop that comes before *)
(* it (LoopInv), for a call whose user was not shown a message box; and    *)
(* that a call that nests others was shown one (StackInv), so that no      *)
(* other import comes between two lines of a call for which LoopInv holds. *)
(***************************************************************************)
EXTENDS BlackListUpdate, SequenceTheorems, TLAPS

StackInv ==
  /\ stack # <<>> => m_stLastModifyBlackList \in 1 .. Len(list)
  /\ \A i \in 1 .. Len(stack) :
       LET call == stack[i]
       IN  /\ call.at > 0
           /\ call.pc \in {"download", "decode", "mark"} => call.at = 1
           /\ call.pc = "box" => call.asked /\ call.at <= Len(call.lines)

(* the lines before the next one *)
Done(call) == {call.lines[i] : i \in {j \in 1 .. Len(call.lines) : j < call.at}}

(* Each of the addresses is in force, no row that one of them matches is     *)
(* inactive, and every active row is there for one.                          *)
InForce(urls) ==
  /\ \A u \in urls :
       /\ \/ \E r \in info : r.active /\ r.url \in Matched(u)
          \/ ownOnce \cap Matched(u) # {}
       /\ \A r \in info : r.url \in Matched(u) => r.active
  /\ \A r \in info : r.active => \E u \in urls : r.url \in Matched(u)

LoopInv(call) == InForce(Done(call))

ImportInv ==
  /\ At("line") => imported = None
  /\ At("line") /\ ~Top.asked => LoopInv(Top)
  /\ ImportedWhole

-----------------------------------------------------------------------------
(* The calls under way *)

Stage == {"download", "decode", "mark", "line", "box", "stamp"}

LEMMA Stages ==
  /\ "download" \in Stage /\ "decode" \in Stage /\ "mark" \in Stage
  /\ "line" \in Stage /\ "box" \in Stage /\ "stamp" \in Stage
BY DEF Stage

LEMMA CallTypes ==
  ASSUME NEW c \in Call
  PROVE  /\ c.pc \in Stage /\ c.lines \in Seq(URL) /\ c.at \in Nat /\ c.asked \in BOOLEAN
         /\ Len(c.lines) \in Nat
BY DEF Call, Stage

(* What the actions make of a call *)
LEMMA CallMoves ==
  ASSUME NEW c \in Call, NEW pc \in Stage
  PROVE  LET d == [c EXCEPT !.pc = pc]
         IN  /\ d \in Call /\ d.pc = pc /\ d.lines = c.lines
             /\ d.at = c.at /\ d.asked = c.asked
BY DEF Call, Stage

LEMMA CallAsks ==
  ASSUME NEW c \in Call, NEW pc \in Stage
  PROVE  LET d == [c EXCEPT !.pc = pc, !.asked = TRUE]
         IN  /\ d \in Call /\ d.pc = pc /\ d.lines = c.lines
             /\ d.at = c.at /\ d.asked
BY DEF Call, Stage

LEMMA CallSteps ==
  ASSUME NEW c \in Call
  PROVE  LET d == [c EXCEPT !.at = c.at + 1]
         IN  /\ d \in Call /\ d.pc = c.pc /\ d.lines = c.lines
             /\ d.at = c.at + 1 /\ d.asked = c.asked
BY DEF Call, Stage

LEMMA CallMovesOn ==
  ASSUME NEW c \in Call, NEW pc \in Stage
  PROVE  LET d == [c EXCEPT !.pc = pc, !.at = c.at + 1]
         IN  /\ d \in Call /\ d.pc = pc /\ d.lines = c.lines
             /\ d.at = c.at + 1 /\ d.asked = c.asked
<1>1. c.at + 1 \in Nat /\ c.lines \in Seq(URL) /\ c.asked \in BOOLEAN
  BY DEF Call
<1> DEFINE n == c.at + 1
           d == [c EXCEPT !.pc = pc, !.at = n]
<1> HIDE DEF n
<1>2. d \in Call
  BY <1>1, Zenon DEF Call, Stage, n
<1>3. d.pc = pc /\ d.lines = c.lines /\ d.at = n /\ d.asked = c.asked
  BY DEF Call
<1> QED
  BY <1>2, <1>3 DEF n

(* The first n elements of a sequence. *)
LEMMA PrefixType ==
  ASSUME NEW S, NEW s \in Seq(S), NEW n \in 0 .. Len(s)
  PROVE  Prefix(s, n) \in Seq(S)
BY DEF Prefix

(* The part of the invariant that is about the stack. *)
StackOK ==
  /\ stack \in Seq(Call)
  /\ \A i \in 1 .. Len(stack) - 1 : stack[i].pc = "box"
  /\ \A i \in 1 .. Len(stack) : stack[i].pc # "download" => file # NoFile
  /\ StackInv

(* The invariant of one call *)
CallOK(call) ==
  /\ call.at > 0
  /\ call.pc \in {"download", "decode", "mark"} => call.at = 1
  /\ call.pc = "box" => call.asked /\ call.at <= Len(call.lines)

LEMMA TopSound ==
  ASSUME StackOK, stack # <<>>
  PROVE  /\ Len(stack) \in Nat \ {0} /\ Top \in Call /\ CallOK(Top)
         /\ Top.pc # "download" => file # NoFile
         /\ m_stLastModifyBlackList \in 1 .. Len(list)
<1>1. Len(stack) \in Nat \ {0} /\ Len(stack) \in 1 .. Len(stack)
  BY DEF StackOK
<1> QED
  BY <1>1 DEF StackOK, StackInv, CallOK, Top

(* The innermost call goes on. *)
LEMMA GoToSound ==
  ASSUME StackOK, stack # <<>>, NEW call, call \in Call, GoTo(call),
         CallOK(call), call.pc # "download" => file' # NoFile,
         file # NoFile => file' # NoFile,
         UNCHANGED <<list, m_stLastModifyBlackList>>
  PROVE  StackOK' /\ stack' # <<>> /\ Top' = call
<1> DEFINE n == Len(stack)
<1>1. n \in Nat \ {0} /\ m_stLastModifyBlackList \in 1 .. Len(list)
  BY TopSound
<1>2. /\ stack' \in Seq(Call) /\ Len(stack') = n /\ stack'[n] = call
      /\ \A i \in 1 .. n - 1 : stack'[i] = stack[i]
  BY <1>1 DEF StackOK, GoTo
<1> HIDE DEF n
<1>3. stack' # <<>> /\ Top' = call
  BY <1>1, <1>2 DEF Top
<1>4. ASSUME NEW i \in 1 .. n PROVE stack'[i] = call \/ (i \in 1 .. n - 1 /\ stack'[i] = stack[i])
  BY <1>1, <1>2
<1>5. \A i \in 1 .. Len(stack') - 1 : stack'[i].pc = "box"
  BY <1>1, <1>2 DEF StackOK, n
<1>6. \A i \in 1 .. Len(stack') : stack'[i].pc # "download" => file' # NoFile
  BY <1>1, <1>2, <1>4 DEF StackOK, CallOK, n
<1>7. StackInv'
  BY <1>1, <1>2, <1>4 DEF StackOK, StackInv, CallOK, n
<1> QED
  BY <1>2, <1>3, <1>5, <1>6, <1>7 DEF StackOK

(* The innermost call ends; the one that nested it shows its message box.  *)
LEMMA ReturnSound ==
  ASSUME StackOK, stack # <<>>, Return, file # NoFile => file' # NoFile,
         UNCHANGED <<list, m_stLastModifyBlackList>>
  PROVE  StackOK' /\ ~At("line")'
<1> DEFINE n == Len(stack)
<1>1. n \in Nat \ {0} /\ m_stLastModifyBlackList \in 1 .. Len(list)
  BY TopSound
<1>2. /\ stack' \in Seq(Call) /\ Len(stack') = n - 1
      /\ \A i \in 1 .. n - 1 : stack'[i] = stack[i]
  <2>1. stack' = SubSeq(stack, 1, n - 1) /\ \A i \in 1 .. n - 1 : stack[i] \in Call
    BY <1>1 DEF StackOK, Return
  <2> HIDE DEF n
  <2> QED
    BY <1>1, <2>1, SubSeqProperties
<1> HIDE DEF n
<1>3. ~At("line")'
  <2>1. CASE stack' = <<>>
    BY <2>1 DEF At
  <2>2. CASE stack' # <<>>
    <3>1. Len(stack') \in 1 .. n - 1
      BY <1>1, <1>2, <2>2
    <3>2. Top'.pc = "box"
      BY <1>2, <3>1 DEF StackOK, Top, n
    <3> QED
      BY <3>2 DEF At
  <2> QED
    BY <2>1, <2>2
<1>4. \A i \in 1 .. Len(stack') : i \in 1 .. n - 1 /\ i \in 1 .. n /\ stack'[i] = stack[i]
  BY <1>1, <1>2
<1>5. \A i \in 1 .. Len(stack') - 1 : stack'[i].pc = "box"
  BY <1>1, <1>2, <1>4 DEF StackOK, n
<1>6. \A i \in 1 .. Len(stack') : stack'[i].pc # "download" => file' # NoFile
  BY <1>4 DEF StackOK, n
<1>7. StackInv'
  BY <1>1, <1>4 DEF StackOK, StackInv, n
<1> QED
  BY <1>2, <1>3, <1>5, <1>6, <1>7 DEF StackOK

(* Neither the stack nor the file changes. *)
LEMMA StackKept ==
  ASSUME TypeOK, StackOK, UNCHANGED <<stack, file, m_stLastModifyBlackList>>,
         Len(list') \in Nat, Len(list) <= Len(list')
  PROVE  StackOK'
<1>1. m_stLastModifyBlackList \in 1 .. Len(list) => m_stLastModifyBlackList \in 1 .. Len(list')
  BY DEF TypeOK
<1> QED
  BY <1>1 DEF StackOK, StackInv

-----------------------------------------------------------------------------
(* The data *)

DataOK ==
  /\ list \in Seq(Lists)
  /\ m_stLastModifyBlackList \in 0 .. Len(list)
  /\ file = NoFile \/ file \in [lines : Seq(URL), time : 0 .. Len(list)]
  /\ info \subseteq Row
  /\ own \subseteq ownOnce /\ ownOnce \subseteq URL
  /\ imported = None \/ imported \in Seq(URL)
  /\ calm \in BOOLEAN

Inv == DataOK /\ StackOK /\ ImportInv

LEMMA InvImplies == Inv => TypeOK /\ ImportedWhole
BY DEF Inv, TypeOK, DataOK, StackOK, ImportInv

LEMMA FileTimed ==
  ASSUME NEW n \in Nat, NEW lines \in Seq(URL), NEW time \in 0 .. n
  PROVE  /\ [lines |-> lines, time |-> time] \in [lines : Seq(URL), time : 0 .. n]
         /\ [lines |-> lines, time |-> time] # NoFile
<1>1. [lines |-> lines, time |-> time] \in [lines : Seq(URL), time : 0 .. n]
  BY Zenon
<1>2. [lines |-> lines, time |-> time] \in [lines : Seq(URL), time : Nat]
  <2>1. time \in Nat
    OBVIOUS
  <2> QED
    BY <2>1, Zenon
<1> QED
  BY <1>1, <1>2, BlackListAssumption

LEMMA SaveFileSound ==
  ASSUME DataOK, StackOK, stack # <<>>, SaveFile
  PROVE  file' \in [lines : Seq(URL), time : 0 .. Len(list)] /\ file' # NoFile
<1>1. Len(list) \in Nat /\ m_stLastModifyBlackList \in 1 .. Len(list)
  BY TopSound DEF DataOK
<1>2. PICK v \in m_stLastModifyBlackList .. Len(list) : \E n \in 0 .. Len(list[v]) :
        file' = [lines |-> Prefix(list[v], n), time |-> Len(list)]
  BY DEF SaveFile
<1>3. PICK n \in 0 .. Len(list[v]) :
        file' = [lines |-> Prefix(list[v], n), time |-> Len(list)]
  BY <1>2
<1>4. list[v] \in Seq(URL)
  <2>1. v \in 1 .. Len(list)
    BY <1>1
  <2> QED
    BY <2>1, BlackListAssumption DEF DataOK
<1>5. Prefix(list[v], n) \in Seq(URL) /\ Len(list) \in 0 .. Len(list)
  BY <1>1, <1>4, PrefixType
<1> HIDE DEF Prefix
<1> QED
  BY <1>1, <1>3, <1>5, FileTimed

(* UPDATE of the column Active *)
LEMMA UpdateSound ==
  ASSUME info \subseteq Row, NEW urls, NEW new \in BOOLEAN, UpdateActive(urls, new)
  PROVE  /\ info' \subseteq Row
         /\ \A r \in info : \E q \in info' :
              /\ q.url = r.url
              /\ q.active = IF r.url \in urls THEN new ELSE r.active
         /\ \A q \in info' : \E r \in info :
              /\ q.url = r.url
              /\ q.active = IF r.url \in urls THEN new ELSE r.active
<1> DEFINE set(r) == IF r.url \in urls THEN [r EXCEPT !.active = new] ELSE r
<1>1. ASSUME NEW r \in info
      PROVE  /\ set(r) \in Row /\ set(r).url = r.url
             /\ set(r).active = IF r.url \in urls THEN new ELSE r.active
  <2>1. r \in Row
    OBVIOUS
  <2> QED
    BY <2>1 DEF Row
<1>2. info' = {set(r) : r \in info}
  BY Zenon DEF UpdateActive
<1> HIDE DEF set
<1> QED
  BY <1>1, <1>2

LEMMA InsertSound ==
  ASSUME info \subseteq Row, NEW u \in URL, InsertURL(u)
  PROVE  /\ info' \subseteq Row /\ info \subseteq info'
         /\ \A q \in info' : q \in info \/ (q.url = u /\ q.active)
         /\ \E q \in info' : q.url = u /\ q.active
<1> DEFINE new == [url |-> u, active |-> TRUE]
<1>1. new \in Row /\ new.url = u /\ new.active
  BY DEF Row
<1>2. info' = info \cup {new}
  BY DEF InsertURL
<1> HIDE DEF new
<1> QED
  BY <1>1, <1>2

-----------------------------------------------------------------------------
(* The import *)

LEMMA ImportKept ==
  ASSUME ImportInv, UNCHANGED <<Database, stack>>
  PROVE  ImportInv'
BY DEF ImportInv, Database, At, Top, LoopInv, InForce, ImportedWhole, Covers

LEMMA ImportQuiet ==
  ASSUME ImportInv, UNCHANGED Database, ~At("line")'
  PROVE  ImportInv'
BY DEF ImportInv, Database, ImportedWhole, Covers

(* The table changes while a call that nests others, or one whose user was   *)
(* shown a message box, has not finished.                                    *)
LEMMA ImportUnknown ==
  ASSUME imported' = None, At("line")' => Top'.asked
  PROVE  ImportInv'
BY DEF ImportInv, ImportedWhole

(* The end of the loop: what LoopInv says of all lines is what Covers says.  *)
LEMMA LoopDone ==
  ASSUME NEW call \in Call, call.at > Len(call.lines)
  PROVE  Done(call) = Lines(call.lines)
<1>1. Len(call.lines) \in Nat /\ call.at \in Nat
  BY CallTypes
<1>2. {j \in 1 .. Len(call.lines) : j < call.at} = 1 .. Len(call.lines)
  BY <1>1
<1> QED
  BY <1>2 DEF Done, Lines

(* One more line is done. *)
LEMMA DoneNext ==
  ASSUME NEW c \in Call, c.at > 0, c.at <= Len(c.lines), NEW d \in Call,
         d.lines = c.lines, d.at = c.at + 1
  PROVE  Done(d) = Done(c) \cup {c.lines[c.at]} /\ c.lines[c.at] \in URL
<1>1. Len(c.lines) \in Nat /\ c.at \in Nat /\ c.lines \in Seq(URL)
  BY CallTypes
<1>2. {j \in 1 .. Len(c.lines) : j < c.at + 1} =
        {j \in 1 .. Len(c.lines) : j < c.at} \cup {c.at}
  BY <1>1
<1> QED
  BY <1>1, <1>2 DEF Done

(* Nothing is done before the first line. *)
LEMMA DoneFirst ==
  ASSUME NEW call \in Call, call.at = 1
  PROVE  Done(call) = {}
BY CallTypes DEF Done

(* All rows are marked: nothing is in force. *)
LEMMA MarkStarts ==
  ASSUME info \subseteq Row, UpdateActive(URL, FALSE)
  PROVE  info' \subseteq Row /\ InForce({})'
<1>1. FALSE \in BOOLEAN
  OBVIOUS
<1>3. /\ info' \subseteq Row
      /\ \A q \in info' : \E r \in info :
           q.url = r.url /\ q.active = IF r.url \in URL THEN FALSE ELSE r.active
  BY <1>1, UpdateSound
<1>4. \A r \in info : r.url \in URL
  BY DEF Row
<1>2. info' \subseteq Row /\ \A q \in info' : ~q.active
  BY <1>3, <1>4
<1> QED
  BY <1>2 DEF InForce

(* The line u is there already, as a row of the program or one of the        *)
(* administrator: it is in force now.                                        *)
LEMMA LineUpdates ==
  ASSUME info \subseteq Row, own \subseteq ownOnce, UNCHANGED ownOnce,
         NEW urls, InForce(urls), NEW u, CheckURLExist(u), UpdateActive(Matched(u), TRUE)
  PROVE  info' \subseteq Row /\ InForce(urls \cup {u})'
<1>0. TRUE \in BOOLEAN
  OBVIOUS
<1>1. /\ info' \subseteq Row
      /\ \A r \in info : \E q \in info' :
           /\ q.url = r.url
           /\ q.active = IF r.url \in Matched(u) THEN TRUE ELSE r.active
      /\ \A q \in info' : \E r \in info :
           /\ q.url = r.url
           /\ q.active = IF r.url \in Matched(u) THEN TRUE ELSE r.active
  BY <1>0, UpdateSound
<1>2. ASSUME NEW w \in urls \cup {u}
      PROVE  /\ \/ \E q \in info' : q.active /\ q.url \in Matched(w)
                \/ ownOnce' \cap Matched(w) # {}
             /\ \A q \in info' : q.url \in Matched(w) => q.active
  <2>1. CASE w = u
    <3>1. \A q \in info' : q.url \in Matched(u) => q.active
      BY <1>1
    <3>2. CASE ownOnce \cap Matched(u) # {}
      BY <2>1, <3>1, <3>2
    <3>3. CASE \E r \in info : r.url \in Matched(u)
      BY <1>1, <2>1, <3>1, <3>3
    <3> QED
      BY <3>2, <3>3 DEF CheckURLExist
  <2>2. CASE w \in urls
    <3>1. \A q \in info' : q.url \in Matched(w) => q.active
      BY <1>1, <2>2 DEF InForce
    <3>2. CASE ownOnce \cap Matched(w) # {}
      BY <3>1, <3>2
    <3>3. ASSUME NEW r \in info, r.active, r.url \in Matched(w)
          PROVE  \E q \in info' : q.active /\ q.url \in Matched(w)
      BY <1>1, <3>3
    <3> QED
      BY <2>2, <3>1, <3>2, <3>3 DEF InForce
  <2> QED
    BY <2>1, <2>2
<1>3. ASSUME NEW q \in info', q.active
      PROVE  \E w \in urls \cup {u} : q.url \in Matched(w)
  <2>1. PICK r \in info : /\ q.url = r.url
                          /\ q.active = IF r.url \in Matched(u) THEN TRUE ELSE r.active
    BY <1>1
  <2> QED
    BY <1>3, <2>1 DEF InForce
<1> HIDE DEF Matched
<1> QED
  BY <1>1, <1>2, <1>3 DEF InForce, Matched

(* The line u is not there: it is inserted. *)
LEMMA LineInserts ==
  ASSUME info \subseteq Row, own \subseteq ownOnce, UNCHANGED ownOnce,
         NEW urls, InForce(urls), NEW u \in URL, ~CheckURLExist(u), InsertURL(u)
  PROVE  info' \subseteq Row /\ InForce(urls \cup {u})'
<1>1. /\ info' \subseteq Row /\ info \subseteq info'
      /\ \A q \in info' : q \in info \/ (q.url = u /\ q.active)
      /\ \E q \in info' : q.url = u /\ q.active
  BY InsertSound
<1>2. u \in Matched(u) /\ \A r \in info : r.url \notin Matched(u)
  BY BlackListAssumption DEF Matched, CheckURLExist
<1>3. ASSUME NEW w \in urls \cup {u}
      PROVE  /\ \/ \E q \in info' : q.active /\ q.url \in Matched(w)
                \/ ownOnce' \cap Matched(w) # {}
             /\ \A q \in info' : q.url \in Matched(w) => q.active
  <2>1. CASE w = u
    BY <1>1, <1>2, <2>1
  <2>2. CASE w \in urls
    BY <1>1, <2>2 DEF InForce
  <2> QED
    BY <2>1, <2>2
<1>4. ASSUME NEW q \in info', q.active
      PROVE  \E w \in urls \cup {u} : q.url \in Matched(w)
  BY <1>1, <1>2, <1>4 DEF InForce
<1> QED
  BY <1>1, <1>3, <1>4 DEF InForce, Matched

(* What RemoveInactiveURL leaves covers the list. *)
LEMMA RemoveCovers ==
  ASSUME NEW lines, InForce(Lines(lines)), UNCHANGED ownOnce,
         info' = {r \in info : r.active}
  PROVE  Covers(lines)'
<1>1. ASSUME NEW u \in Lines(lines)
      PROVE  \/ \E r \in info' : r.active /\ r.url \in Matched(u)
             \/ ownOnce' \cap Matched(u) # {}
  BY <1>1 DEF InForce
<1>2. \A r \in info' : r.active /\ \E u \in Lines(lines) : r.url \in Matched(u)
  BY DEF InForce
<1> QED
  BY <1>1, <1>2 DEF Covers, Lines, Matched

-----------------------------------------------------------------------------
(* The steps *)

LEMMA StepNeedDownload == Inv /\ IsNeedDownloadBlackList => Inv'
<1> SUFFICES ASSUME Inv, IsNeedDownloadBlackList PROVE Inv'
  OBVIOUS
<1> DEFINE new == [pc |-> "download", lines |-> <<>>, at |-> 1, asked |-> FALSE]
           n == Len(stack)
<1>1. /\ DataOK /\ StackOK /\ ImportInv /\ UNCHANGED <<list, file, Database, calm>>
      /\ m_stLastModifyBlackList' = Len(list) /\ stack' = Append(stack, new)
      /\ LastModified < Len(list)
      /\ stack # <<>> => Top.pc = "box"
  BY DEF Inv, IsNeedDownloadBlackList
<1>2. new \in Call
  <2>1. <<>> \in Seq(URL) /\ 1 \in Nat /\ FALSE \in BOOLEAN
    OBVIOUS
  <2> QED
    BY <2>1, Zenon DEF Call
<1>3. CallOK(new) /\ new.pc = "download"
  BY DEF CallOK
<1> HIDE DEF new
<1>4. /\ n \in Nat /\ stack' \in Seq(Call) /\ Len(stack') = n + 1
      /\ \A i \in 1 .. n : stack'[i] = stack[i]
      /\ stack'[n + 1] = new
  BY <1>1, <1>2 DEF StackOK
<1> HIDE DEF n
<1>5. \A i \in 1 .. n : stack[i].pc = "box"
  <2> SUFFICES ASSUME NEW i \in 1 .. n PROVE stack[i].pc = "box"
    OBVIOUS
  <2>1. CASE i = n
    <3>1. stack # <<>> /\ Top = stack[i]
      BY <2>1 DEF Top, n
    <3> QED
      BY <1>1, <3>1
  <2>2. CASE i # n
    BY <1>1, <1>4, <2>2 DEF StackOK, n
  <2> QED
    BY <2>1, <2>2
<1>6. Len(list) \in Nat /\ Len(list) \in 1 .. Len(list)
  <2>1. Len(list) \in Nat
    BY <1>1 DEF DataOK
  <2>2. LastModified \in Nat
    <3>1. file # NoFile => file.time \in 0 .. Len(list)
      BY <1>1 DEF DataOK
    <3>2. m_stLastModifyBlackList \in 0 .. Len(list)
      BY <1>1 DEF DataOK
    <3> QED
      BY <2>1, <3>1, <3>2 DEF LastModified
  <2> QED
    BY <1>1, <2>1, <2>2
<1>7. DataOK'
  BY <1>1, <1>6 DEF DataOK, Database
<1>8. ASSUME NEW i \in 1 .. n + 1
      PROVE  stack'[i] = new \/ (i \in 1 .. n /\ stack'[i] = stack[i])
  BY <1>4
<1>9. StackOK'
  <2>1. \A i \in 1 .. Len(stack') - 1 : stack'[i].pc = "box"
    BY <1>4, <1>5
  <2>2. \A i \in 1 .. Len(stack') : stack'[i].pc # "download" => file' # NoFile
    BY <1>1, <1>3, <1>4, <1>8 DEF StackOK, n
  <2>3. StackInv'
    BY <1>1, <1>3, <1>4, <1>6, <1>8 DEF StackOK, StackInv, CallOK, n
  <2> QED
    BY <1>4, <2>1, <2>2, <2>3 DEF StackOK
<1>10. ~At("line")'
  BY <1>3, <1>4 DEF At, Top
<1> QED
  BY <1>1, <1>7, <1>9, <1>10, ImportQuiet DEF Inv

(* The steps that end the innermost call and leave the table alone *)
LEMMA StepReturn ==
  ASSUME Inv, stack # <<>>, Return,
         UNCHANGED <<list, m_stLastModifyBlackList, Database, calm>>,
         UNCHANGED file \/ (file' \in [lines : Seq(URL), time : 0 .. Len(list)] /\ file' # NoFile)
  PROVE  Inv'
<1>1. DataOK'
  BY DEF Inv, DataOK, Database
<1>2. StackOK' /\ ~At("line")'
  BY ReturnSound DEF Inv
<1> QED
  BY <1>1, <1>2, ImportQuiet DEF Inv

(* The steps before the table is touched *)
LEMMA StepDownload ==
  Inv /\ (Download \/ DownloadFails \/ Decode \/ CreateTempFilePathFails) => Inv'
<1> SUFFICES ASSUME Inv, Download \/ DownloadFails \/ Decode \/ CreateTempFilePathFails
             PROVE  Inv'
  OBVIOUS
<1>0. /\ DataOK /\ StackOK /\ ImportInv /\ stack # <<>>
      /\ UNCHANGED <<list, m_stLastModifyBlackList, Database, calm>>
  BY DEF Inv, Download, DownloadFails, Decode, CreateTempFilePathFails, At
<1>1. /\ Top \in Call /\ CallOK(Top)
      /\ Top.pc # "download" => file # NoFile
  BY <1>0, TopSound
<1>2. SaveFile => file' \in [lines : Seq(URL), time : 0 .. Len(list)] /\ file' # NoFile
  BY <1>0, SaveFileSound
<1>3. CASE Download
  <2> DEFINE c == [Top EXCEPT !.pc = "decode"]
  <2>1. c \in Call /\ c.pc = "decode" /\ c.at = Top.at
    BY <1>1, CallMoves, Stages
  <2>2. CallOK(c)
    BY <1>1, <1>3, <2>1 DEF CallOK, Download, At
  <2>3. GoTo(c) /\ SaveFile
    BY <1>3 DEF Download
  <2> HIDE DEF c
  <2>4. StackOK' /\ stack' # <<>> /\ Top' = c
    BY <1>0, <1>2, <2>1, <2>2, <2>3, GoToSound
  <2>5. DataOK'
    BY <1>0, <1>2, <2>3 DEF DataOK, Database
  <2>6. ~At("line")'
    BY <2>1, <2>4 DEF At
  <2> QED
    BY <1>0, <2>4, <2>5, <2>6, ImportQuiet DEF Inv
<1>4. CASE DownloadFails
  BY <1>0, <1>2, <1>4, StepReturn DEF DownloadFails
<1>5. CASE Decode
  <2>1. PICK n \in 0 .. Len(file.lines) :
          GoTo([Top EXCEPT !.pc = "mark", !.lines = Prefix(file.lines, n)])
    BY <1>5 DEF Decode
  <2> DEFINE p == Prefix(file.lines, n)
             c == [Top EXCEPT !.pc = "mark", !.lines = p]
  <2>2. file # NoFile /\ file.lines \in Seq(URL) /\ UNCHANGED file
    <3>1. file # NoFile /\ UNCHANGED file
      BY <1>1, <1>5 DEF Decode, At
    <3>2. file \in [lines : Seq(URL), time : 0 .. Len(list)]
      BY <1>0, <3>1 DEF DataOK
    <3> QED
      BY <3>1, <3>2
  <2>3. p \in Seq(URL)
    BY <2>2, PrefixType
  <2>4. GoTo(c)
    BY <2>1
  <2> HIDE DEF p
  <2>5. c \in Call /\ c.pc = "mark" /\ c.at = Top.at
    BY <1>1, <2>3 DEF Call
  <2>6. CallOK(c)
    BY <1>1, <1>5, <2>5 DEF CallOK, Decode, At
  <2> HIDE DEF c
  <2>7. StackOK' /\ stack' # <<>> /\ Top' = c
    BY <1>0, <2>2, <2>4, <2>5, <2>6, GoToSound
  <2>8. DataOK'
    BY <1>0, <2>2 DEF DataOK, Database
  <2>9. ~At("line")'
    BY <2>5, <2>7 DEF At
  <2> QED
    BY <1>0, <2>7, <2>8, <2>9, ImportQuiet DEF Inv
<1>6. CASE CreateTempFilePathFails
  BY <1>0, <1>6, StepReturn DEF CreateTempFilePathFails
<1> QED
  BY <1>3, <1>4, <1>5, <1>6

(* What holds while a call is at work on the table *)
LEMMA AtWork ==
  ASSUME Inv, stack # <<>>
  PROVE  /\ DataOK /\ StackOK /\ ImportInv
         /\ info \subseteq Row /\ own \subseteq ownOnce
         /\ Top \in Call /\ CallOK(Top)
         /\ Top.pc # "download" => file # NoFile
         /\ Top.lines \in Seq(URL) /\ Top.at \in Nat /\ Len(Top.lines) \in Nat
BY TopSound, CallTypes DEF Inv, DataOK

LEMMA StepMarkInactive == Inv /\ MarkInactive => Inv'
<1> SUFFICES ASSUME Inv, MarkInactive PROVE Inv'
  OBVIOUS
<1> DEFINE c == [Top EXCEPT !.pc = "line"]
<1>1. /\ stack # <<>> /\ Top.pc = "mark" /\ UpdateActive(URL, FALSE) /\ imported' = None
      /\ GoTo(c)
      /\ UNCHANGED <<list, m_stLastModifyBlackList, file, own, ownOnce, calm>>
  BY DEF MarkInactive, At
<1>2. /\ DataOK /\ StackOK /\ info \subseteq Row /\ Top \in Call
      /\ Top.at = 1 /\ file # NoFile
  BY <1>1, AtWork DEF CallOK
<1>3. c \in Call /\ c.pc = "line" /\ c.at = Top.at
  BY <1>2, CallMoves, Stages
<1>4. CallOK(c)
  BY <1>2, <1>3 DEF CallOK
<1> HIDE DEF c
<1>5. StackOK' /\ Top' = c
  BY <1>1, <1>2, <1>3, <1>4, GoToSound
<1>6. info' \subseteq Row /\ InForce({})'
  BY <1>1, <1>2, MarkStarts
<1>7. DataOK'
  BY <1>1, <1>2, <1>6 DEF DataOK
<1>8. Done(Top') = {}
  BY <1>2, <1>3, <1>5, DoneFirst
<1>9. LoopInv(Top)'
  BY <1>6, <1>8 DEF LoopInv, InForce
<1>10. ImportInv'
  BY <1>1, <1>9 DEF ImportInv, ImportedWhole
<1> QED
  BY <1>5, <1>7, <1>10 DEF Inv

LEMMA StepProcessURL == Inv /\ ProcessURL => Inv'
<1> SUFFICES ASSUME Inv, ProcessURL PROVE Inv'
  OBVIOUS
<1> DEFINE c == [Top EXCEPT !.at = Top.at + 1]
           u == Top.lines[Top.at]
<1>1. /\ stack # <<>> /\ Top.pc = "line" /\ Top.at <= Len(Top.lines) /\ GoTo(c)
      /\ \/ CheckURLExist(u) /\ UpdateActive(Matched(u), TRUE)
         \/ ~CheckURLExist(u) /\ InsertURL(u)
      /\ UNCHANGED <<list, m_stLastModifyBlackList, file, own, imported, ownOnce, calm>>
  BY DEF ProcessURL, At
<1>2. /\ DataOK /\ StackOK /\ ImportInv /\ info \subseteq Row /\ own \subseteq ownOnce
      /\ Top \in Call /\ CallOK(Top) /\ Top.at > 0 /\ file # NoFile
  BY <1>1, AtWork DEF CallOK
<1>3. /\ c \in Call /\ c.pc = "line" /\ c.at = Top.at + 1 /\ c.lines = Top.lines
      /\ c.asked = Top.asked
  BY <1>1, <1>2, CallSteps
<1>4. CallOK(c)
  BY <1>1, <1>2, <1>3, CallTypes DEF CallOK
<1> HIDE DEF c
<1>5. StackOK' /\ stack' # <<>> /\ Top' = c
  BY <1>1, <1>2, <1>3, <1>4, GoToSound
<1>6. Done(c) = Done(Top) \cup {u} /\ u \in URL
  BY <1>1, <1>2, <1>3, DoneNext
<1> HIDE DEF u
<1>7. info' \subseteq Row
  <2>1. TRUE \in BOOLEAN
    OBVIOUS
  <2> QED
    BY <1>1, <1>2, <1>6, <2>1, UpdateSound, InsertSound
<1>8. DataOK'
  BY <1>1, <1>2, <1>7 DEF DataOK
<1>9. imported = None
  BY <1>1, <1>2 DEF ImportInv, At
<1>10. ASSUME ~Top'.asked PROVE LoopInv(Top)'
  <2>1. InForce(Done(Top))
    BY <1>1, <1>2, <1>3, <1>5, <1>10 DEF ImportInv, At, LoopInv
  <2>2. PICK urls : urls = Done(Top)
    OBVIOUS
  <2>3. PICK v \in URL : v = u
    BY <1>6
  <2>4. InForce(urls \cup {v})'
    BY <1>1, <1>2, <2>1, <2>2, <2>3, LineUpdates, LineInserts
  <2>5. Done(Top') = urls \cup {v}
    BY <1>5, <1>6, <2>2, <2>3
  <2> QED
    BY <2>4, <2>5 DEF LoopInv, InForce
<1>11. ImportInv'
  BY <1>1, <1>9, <1>10 DEF ImportInv, ImportedWhole
<1> QED
  BY <1>5, <1>8, <1>11 DEF Inv

LEMMA StepMessageBox == Inv /\ (ExecuteQueryFails \/ MessageBoxCloses) => Inv'
<1> SUFFICES ASSUME Inv, ExecuteQueryFails \/ MessageBoxCloses PROVE Inv'
  OBVIOUS
<1>1. CASE ExecuteQueryFails
  <2> DEFINE c == [Top EXCEPT !.pc = "box", !.asked = TRUE]
  <2>1. /\ stack # <<>> /\ Top.pc = "line" /\ Top.at <= Len(Top.lines) /\ GoTo(c)
        /\ UNCHANGED <<list, m_stLastModifyBlackList, file, Database, calm>>
    BY <1>1 DEF ExecuteQueryFails, At
  <2>2. /\ DataOK /\ StackOK /\ ImportInv /\ Top \in Call /\ CallOK(Top)
        /\ file # NoFile
    BY <2>1, AtWork
  <2>3. /\ c \in Call /\ c.pc = "box" /\ c.at = Top.at /\ c.lines = Top.lines
        /\ c.asked
    BY <2>2 DEF Call
  <2>4. CallOK(c)
    BY <2>1, <2>2, <2>3 DEF CallOK
  <2> HIDE DEF c
  <2>5. StackOK' /\ Top' = c
    BY <2>1, <2>2, <2>3, <2>4, GoToSound
  <2>6. DataOK'
    BY <2>1, <2>2 DEF DataOK, Database
  <2>7. ~At("line")'
    BY <2>3, <2>5 DEF At
  <2> QED
    BY <2>1, <2>2, <2>5, <2>6, <2>7, ImportQuiet DEF Inv
<1>2. CASE MessageBoxCloses
  <2> DEFINE c == [Top EXCEPT !.pc = "line", !.at = Top.at + 1]
             u == Top.lines[Top.at]
  <2>1. /\ stack # <<>> /\ Top.pc = "box" /\ InsertURL(u) /\ imported' = None /\ GoTo(c)
        /\ UNCHANGED <<list, m_stLastModifyBlackList, file, own, ownOnce, calm>>
    BY <1>2 DEF MessageBoxCloses, At
  <2>2. /\ DataOK /\ StackOK /\ info \subseteq Row /\ Top \in Call /\ CallOK(Top)
        /\ Top.asked /\ Top.at > 0 /\ Top.at <= Len(Top.lines) /\ file # NoFile
    BY <2>1, AtWork DEF CallOK
  <2>3. /\ c \in Call /\ c.pc = "line" /\ c.at = Top.at + 1 /\ c.lines = Top.lines
        /\ c.asked = Top.asked
    BY <2>2, CallMovesOn, Stages
  <2>4. CallOK(c) /\ u \in URL
    BY <2>2, <2>3, CallTypes DEF CallOK
  <2> HIDE DEF c, u
  <2>5. StackOK' /\ Top' = c
    BY <2>1, <2>2, <2>3, <2>4, GoToSound
  <2>6. info' \subseteq Row
    BY <2>1, <2>2, <2>4, InsertSound
  <2>7. DataOK'
    BY <2>1, <2>2, <2>6 DEF DataOK
  <2>8. ImportInv'
    BY <2>1, <2>2, <2>3, <2>5, ImportUnknown
  <2> QED
    BY <2>5, <2>7, <2>8 DEF Inv
<1> QED
  BY <1>1, <1>2

LEMMA StepRemoveInactive == Inv /\ RemoveInactiveURL => Inv'
<1> SUFFICES ASSUME Inv, RemoveInactiveURL PROVE Inv'
  OBVIOUS
<1> DEFINE c == [Top EXCEPT !.pc = "stamp"]
<1>1. /\ stack # <<>> /\ Top.pc = "line" /\ Top.at > Len(Top.lines) /\ GoTo(c)
      /\ info' = {r \in info : r.active}
      /\ imported' = IF Top.asked THEN None ELSE Top.lines
      /\ UNCHANGED <<list, m_stLastModifyBlackList, file, own, ownOnce, calm>>
  BY DEF RemoveInactiveURL, At
<1>2. /\ DataOK /\ StackOK /\ ImportInv /\ info \subseteq Row /\ Top \in Call
      /\ CallOK(Top) /\ file # NoFile /\ Top.lines \in Seq(URL)
  BY <1>1, AtWork
<1>3. c \in Call /\ c.pc = "stamp" /\ c.at = Top.at
  BY <1>2, CallMoves, Stages
<1>4. CallOK(c)
  BY <1>2, <1>3 DEF CallOK
<1> HIDE DEF c
<1>5. StackOK' /\ Top' = c
  BY <1>1, <1>2, <1>3, <1>4, GoToSound
<1>6. DataOK'
  BY <1>1, <1>2 DEF DataOK
<1>7. ~At("line")'
  BY <1>3, <1>5 DEF At
<1>8. ASSUME ~Top.asked PROVE Covers(imported)'
  <2>1. InForce(Lines(Top.lines))
    BY <1>1, <1>2, <1>8, LoopDone DEF ImportInv, At, LoopInv
  <2>2. PICK lines : lines = Top.lines
    OBVIOUS
  <2>3. Covers(lines)'
    BY <1>1, <2>1, <2>2, RemoveCovers
  <2>4. imported' = lines
    BY <1>1, <1>8, <2>2
  <2> QED
    BY <2>3, <2>4 DEF Covers
<1>9. ImportInv'
  BY <1>1, <1>7, <1>8 DEF ImportInv, ImportedWhole
<1> QED
  BY <1>5, <1>6, <1>9 DEF Inv

LEMMA StepEnd == Inv /\ (ReadFails \/ UpdateFileTime \/ UpdateFileTimeFails) => Inv'
<1> SUFFICES ASSUME Inv, ReadFails \/ UpdateFileTime \/ UpdateFileTimeFails PROVE Inv'
  OBVIOUS
<1>1. CASE ReadFails \/ UpdateFileTimeFails
  BY <1>1, StepReturn DEF ReadFails, UpdateFileTimeFails, At
<1>2. CASE UpdateFileTime
  <2>1. /\ stack # <<>> /\ Top.pc = "stamp" /\ Return
        /\ file' = [file EXCEPT !.time = m_stLastModifyBlackList]
        /\ UNCHANGED <<list, m_stLastModifyBlackList, Database, calm>>
    BY <1>2 DEF UpdateFileTime, At
  <2>2. /\ file # NoFile /\ m_stLastModifyBlackList \in 0 .. Len(list)
        /\ file \in [lines : Seq(URL), time : 0 .. Len(list)] /\ Len(list) \in Nat
    BY <2>1, AtWork DEF DataOK
  <2>3. file' = [lines |-> file.lines, time |-> m_stLastModifyBlackList]
        /\ file.lines \in Seq(URL)
    BY <2>1, <2>2
  <2>4. file' \in [lines : Seq(URL), time : 0 .. Len(list)] /\ file' # NoFile
    BY <2>2, <2>3, FileTimed
  <2> QED
    BY <2>1, <2>4, StepReturn
<1> QED
  BY <1>1, <1>2

(* The master, the administrator, the program's end and the calm *)
LEMMA StepOutside == Inv /\ (Publish \/ AdministratorEdits \/ Restart \/ Calm) => Inv'
<1> SUFFICES ASSUME Inv, Publish \/ AdministratorEdits \/ Restart \/ Calm PROVE Inv'
  OBVIOUS
<1>0. DataOK /\ StackOK /\ ImportInv
  BY DEF Inv
<1>1. CASE Publish
  <2>1. PICK l \in Lists : list' = Append(list, l)
    BY <1>1 DEF Publish
  <2>2. /\ list' \in Seq(Lists) /\ Len(list') = Len(list) + 1 /\ Len(list) \in Nat
        /\ UNCHANGED <<m_stLastModifyBlackList, file, Database, stack, calm>>
    BY <1>0, <1>1, <2>1 DEF DataOK, Publish
  <2>3. 0 .. Len(list) \subseteq 0 .. Len(list') /\ 1 .. Len(list) \subseteq 1 .. Len(list')
    BY <2>2
  <2>4. file = NoFile \/ file \in [lines : Seq(URL), time : 0 .. Len(list')]
    BY <1>0, <2>3 DEF DataOK
  <2>5. DataOK'
    BY <1>0, <2>2, <2>3, <2>4 DEF DataOK, Database
  <2>6. StackOK'
    BY <1>0, <2>2, <2>3 DEF StackOK, StackInv
  <2>7. ImportInv'
    BY <1>0, <2>2, ImportKept
  <2> QED
    BY <2>5, <2>6, <2>7 DEF Inv
<1>2. CASE AdministratorEdits
  <2>1. /\ own' \subseteq ownOnce' /\ ownOnce' \subseteq URL /\ ownOnce \subseteq ownOnce'
        /\ UNCHANGED <<list, m_stLastModifyBlackList, file, info, stack, imported, calm>>
    BY <1>0, <1>2 DEF AdministratorEdits, DataOK
  <2>2. DataOK' /\ StackOK'
    BY <1>0, <2>1 DEF DataOK, StackOK, StackInv
  <2>3. ImportInv'
    <3>1. \A urls : InForce(urls) => InForce(urls)'
      BY <2>1 DEF InForce, Matched
    <3>2. \A lines : Covers(lines) => Covers(lines)'
      BY <2>1 DEF Covers, Matched
    <3> QED
      BY <1>0, <2>1, <3>1, <3>2 DEF ImportInv, ImportedWhole, LoopInv, At, Top
  <2> QED
    BY <2>2, <2>3 DEF Inv
<1>3. CASE Restart
  <2>1. /\ stack' = <<>> /\ m_stLastModifyBlackList' = 0
        /\ UNCHANGED <<list, file, Database, calm>>
    BY <1>3 DEF Restart
  <2>2. DataOK'
    BY <1>0, <2>1 DEF DataOK, Database
  <2>3. StackOK'
    BY <2>1 DEF StackOK, StackInv
  <2>4. ~At("line")'
    BY <2>1 DEF At
  <2> QED
    BY <1>0, <2>1, <2>2, <2>3, <2>4, ImportQuiet DEF Inv
<1>4. CASE Calm
  <2>1. /\ calm' = TRUE
        /\ UNCHANGED <<list, m_stLastModifyBlackList, file, Database, stack>>
    BY <1>4 DEF Calm
  <2>2. DataOK' /\ StackOK'
    BY <1>0, <2>1 DEF DataOK, StackOK, StackInv, Database
  <2> QED
    BY <1>0, <2>1, <2>2, ImportKept DEF Inv
<1> QED
  BY <1>1, <1>2, <1>3, <1>4

LEMMA InvStep == Inv /\ [Next]_vars => Inv'
<1> SUFFICES ASSUME Inv, [Next]_vars PROVE Inv'
  OBVIOUS
<1>1. CASE Next
  BY <1>1, StepNeedDownload, StepDownload, StepMarkInactive, StepProcessURL,
     StepMessageBox, StepRemoveInactive, StepEnd, StepOutside, Zenon
     DEF Next, UpdateBlackList
<1>2. CASE UNCHANGED vars
  <2>1. DataOK' /\ StackOK'
    BY <1>2 DEF vars, Database, Inv, DataOK, StackOK, StackInv
  <2>2. ImportInv /\ UNCHANGED <<Database, stack>>
    BY <1>2 DEF vars, Inv, Database
  <2>3. ImportInv'
    BY <2>2, ImportKept
  <2> QED
    BY <2>1, <2>3 DEF Inv
<1> QED
  BY <1>1, <1>2

LEMMA InvInit == Init => Inv
<1> SUFFICES ASSUME Init PROVE Inv
  OBVIOUS
<1>1. DataOK
  <2>1. list \in Seq(Lists) /\ Len(list) = 0
    BY DEF Init
  <2>2. m_stLastModifyBlackList \in 0 .. Len(list)
    BY <2>1 DEF Init
  <2> QED
    BY <2>1, <2>2 DEF Init, DataOK
<1>2. StackOK
  BY DEF Init, StackOK, StackInv
<1>3. ImportInv
  BY DEF Init, ImportInv, At, ImportedWhole
<1> QED
  BY <1>1, <1>2, <1>3 DEF Inv

-----------------------------------------------------------------------------
(* Every variable has its type, whatever fails, nests and restarts. *)
THEOREM TypeCorrect == Spec => []TypeOK
BY InvInit, InvStep, InvImplies, PTL DEF Spec

(* After an import that succeeded without a message box the rows of the      *)
(* program are those of its list, for every list, every LIKE and every depth *)
(* of nested updates, until the next import begins.                          *)
THEOREM ImportCorrect == Spec => []ImportedWhole
BY InvInit, InvStep, InvImplies, PTL DEF Spec

(* The action that DeletesOnlyDropped allows *)
DropsOnlyDropped ==
  \A r \in info :
    r.url \in {q.url : q \in info'} \/
    (stack # <<>> /\ (Top.asked \/ \A u \in Lines(Top.lines) : r.url \notin Matched(u)))

LEMMA StepDrops == Inv /\ [Next]_vars => DropsOnlyDropped
<1> SUFFICES ASSUME Inv, [Next]_vars PROVE DropsOnlyDropped
  OBVIOUS
<1>0. info \subseteq Row
  BY DEF Inv, DataOK
<1>1. CASE UNCHANGED info
  BY <1>1 DEF DropsOnlyDropped
<1>2. CASE RemoveInactiveURL
  <2>1. /\ stack # <<>> /\ Top.pc = "line" /\ Top.at > Len(Top.lines)
        /\ info' = {r \in info : r.active}
    BY <1>2 DEF RemoveInactiveURL, At
  <2>2. Top \in Call /\ ImportInv
    BY <2>1, AtWork
  <2>3. ASSUME NEW r \in info, r.url \notin {q.url : q \in info'}, ~Top.asked,
               NEW u \in Lines(Top.lines)
        PROVE  r.url \notin Matched(u)
    <3>1. ~r.active
      BY <2>1, <2>3
    <3>2. InForce(Lines(Top.lines))
      BY <2>1, <2>2, <2>3, LoopDone DEF ImportInv, At, LoopInv
    <3> QED
      BY <2>3, <3>1, <3>2 DEF InForce
  <2> QED
    BY <2>1, <2>3 DEF DropsOnlyDropped
<1>3. ASSUME NEW urls, NEW new \in BOOLEAN, UpdateActive(urls, new) PROVE DropsOnlyDropped
  <2>1. \A r \in info : \E q \in info' : q.url = r.url
    BY <1>0, <1>3, UpdateSound
  <2> QED
    BY <2>1 DEF DropsOnlyDropped
<1>4. ASSUME NEW u, InsertURL(u) PROVE DropsOnlyDropped
  <2>1. info \subseteq info'
    BY <1>4 DEF InsertURL
  <2> QED
    BY <2>1 DEF DropsOnlyDropped
<1>5. CASE MarkInactive
  <2>1. FALSE \in BOOLEAN
    OBVIOUS
  <2> QED
    BY <1>3, <1>5, <2>1 DEF MarkInactive
<1>6. CASE ProcessURL
  <2>1. TRUE \in BOOLEAN
    OBVIOUS
  <2>2. \/ \E u : UpdateActive(Matched(u), TRUE)
        \/ \E u : InsertURL(u)
    BY <1>6 DEF ProcessURL
  <2> QED
    BY <1>3, <1>4, <2>1, <2>2
<1>7. CASE MessageBoxCloses
  BY <1>4, <1>7 DEF MessageBoxCloses
<1>8. CASE IsNeedDownloadBlackList \/ Download \/ DownloadFails \/ Decode
           \/ CreateTempFilePathFails \/ ExecuteQueryFails \/ ReadFails
  BY <1>1, <1>8 DEF IsNeedDownloadBlackList, Download, DownloadFails, Decode,
     CreateTempFilePathFails, ExecuteQueryFails, ReadFails, Database
<1>9. CASE UpdateFileTime \/ UpdateFileTimeFails \/ Publish \/ AdministratorEdits
           \/ Restart \/ Calm \/ UNCHANGED vars
  BY <1>1, <1>9 DEF UpdateFileTime, UpdateFileTimeFails, Publish, AdministratorEdits,
     Restart, Calm, vars, Database
<1> QED
  BY <1>2, <1>5, <1>6, <1>7, <1>8, <1>9 DEF Next, UpdateBlackList

(* An address leaves the table only when the list being imported does not    *)
(* contain it, or its import met a message box: cut lists, failed imports    *)
(* and nested updates delete nothing else.                                   *)
THEOREM DeletesCorrect == Spec => DeletesOnlyDropped
<1>1. Inv /\ [Next]_vars => [DropsOnlyDropped]_vars
  BY StepDrops
<1>2. Spec => [][DropsOnlyDropped]_vars
  BY <1>1, InvInit, InvStep, PTL DEF Spec
<1> QED
  BY <1>2 DEF DeletesOnlyDropped, DropsOnlyDropped

=============================================================================
