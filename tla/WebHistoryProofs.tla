-------------------------- MODULE WebHistoryProofs --------------------------
(***************************************************************************)
(* Proofs about WebHistory, for every set of addresses and every number of *)
(* visits and seconds.                                                     *)
(*                                                                         *)
(* The ids the program compares come back, but a visit that is still in    *)
(* the database has a smaller id than every visit made after it.  From     *)
(* that the order of the rows by id is their order in time.                *)
(***************************************************************************)
EXTENDS WebHistory, FiniteSetTheorems, WellFoundedInduction, TLAPS

(* An id is not above the number of visits made when it was given, and no    *)
(* visit in the database has an id that a later visit got too.               *)
IdsRise ==
  /\ \A v \in Visits : Id(v) \in 1 .. v
  /\ \A u \in live, v \in Visits : u < v => Id(u) < Id(v)

NothingBeforeInit == ~m_bInit => rows = <<>> /\ told = <<>> /\ skipped = {}

(* m_strLastID is between what has been told and what is still to be told,   *)
(* by id, and so is the time.                                                *)
RowsInOrder ==
  /\ \A i \in 1 .. Len(rows) : m_strLastID < Id(rows[i].visit)
  /\ \A i \in 1 .. Len(told) : Id(told[i].visit) <= m_strLastID
  /\ \A i, j \in 1 .. Len(rows) : i < j => rows[i].visit < rows[j].visit
  /\ \A i \in 1 .. Len(told), j \in 1 .. Len(rows) : told[i].visit < rows[j].visit

ToldDate(d) == \E i \in 1 .. Len(told) : told[i].date = d

(* strPreURL, once set, is a date that was told, and so is that of a row     *)
(* that was skipped.                                                         *)
DatesTold ==
  /\ strPreURL # 0 => ToldDate(strPreURL)
  /\ \A r \in skipped : ToldDate(r.date)

(* No visit in the database lies between the rows of the query without being *)
(* one of them, unless it is hidden.                                         *)
RowsComplete ==
  \A v \in live \ hidden : \A i \in 1 .. Len(rows) :
    m_strLastID < Id(v) /\ Id(v) <= Id(rows[i].visit) =>
      \E j \in 1 .. Len(rows) : rows[j].visit = v

OrderInv == NothingBeforeInit /\ RowsInOrder /\ ToldInOrder
SkipInv == DatesTold /\ RowsComplete /\ NothingSkipped
TypeInv == TypeOK /\ IdsRise

-----------------------------------------------------------------------------
(* Highest and OrderedById are choices: what they choose exists. *)

(* A bounded set of numbers that is not empty has a largest member. *)
LEMMA MaxExists ==
  ASSUME NEW n \in Nat, NEW S \in SUBSET (0 .. n), S # {}
  PROVE  \E i \in S : \A j \in S : j <= i
<1> DEFINE U == {b \in 0 .. n : \A j \in S : j <= b}
<1>1. n \in U /\ U \subseteq Nat
  OBVIOUS
<1>2. PICK b \in U : \A c \in U : ~ (<<c, b>> \in OpToRel(<, Nat))
  BY <1>1, NatLessThanWellFounded, WFMin
<1>3. \A c \in U : ~ (c < b)
  BY <1>1, <1>2 DEF OpToRel
<1>4. b \in S
  <2> SUFFICES ASSUME b \notin S PROVE FALSE
    OBVIOUS
  <2>1. \A j \in S : j \in 0 .. n /\ j <= b /\ j # b
    BY <1>2
  <2>2. b \in 0 .. n /\ b # 0
    <3>1. PICK j \in S : TRUE
      OBVIOUS
    <3>2. b \in 0 .. n
      OBVIOUS
    <3>3. j \in 0 .. n /\ j <= b /\ j # b
      BY <2>1
    <3> HIDE DEF U
    <3> QED
      BY <3>2, <3>3
  <2>3. b - 1 \in U /\ b - 1 < b
    BY <2>1, <2>2
  <2> QED
    BY <2>3, <1>3
<1> QED
  BY <1>4, <1>2

(* Highest is above all members, and one of them if there is any. *)
LEMMA HighestIs ==
  ASSUME NEW n \in Nat, NEW S \in SUBSET (0 .. n)
  PROVE  /\ Highest(S) \in 0 .. n
         /\ \A j \in S : j <= Highest(S)
         /\ S # {} => Highest(S) \in S
<1>1. CASE S = {}
  BY <1>1 DEF Highest
<1>2. CASE S # {}
  BY <1>2, MaxExists DEF Highest
<1> QED
  BY <1>1, <1>2

(* A finite set of numbers can be listed in ascending order: i is the place  *)
(* of the member with i members up to it.                                    *)
LEMMA AscendingExists ==
  ASSUME NEW n \in Nat, NEW S \in SUBSET (1 .. n)
  PROVE  /\ Cardinality(S) \in Nat
         /\ \E s \in [1 .. Cardinality(S) -> S] :
              \A i, j \in 1 .. Cardinality(S) : i < j => s[i] < s[j]
<1> DEFINE N == Cardinality(S)
           UpTo(v) == {w \in S : w <= v}
           rank == [v \in S |-> Cardinality(UpTo(v))]
<1>0. \A v \in S : v \in Int
  OBVIOUS
<1>1. IsFiniteSet(S) /\ N \in Nat
  <2>1. IsFiniteSet(1 .. n)
    BY FS_Interval
  <2>2. IsFiniteSet(S)
    BY <2>1, FS_Subset
  <2> QED
    BY <2>2, FS_CardinalityType
<1>2. ASSUME NEW v \in S
      PROVE  IsFiniteSet(UpTo(v)) /\ rank[v] \in 1 .. N
  <2>1. UpTo(v) \in SUBSET S /\ UpTo(v) # {}
    OBVIOUS
  <2>2. IsFiniteSet(UpTo(v)) /\ Cardinality(UpTo(v)) <= N
    BY <1>1, <2>1, FS_Subset
  <2>3. Cardinality(UpTo(v)) \in Nat
    BY <2>2, FS_CardinalityType
  <2>4. Cardinality(UpTo(v)) # 0
    BY <2>1, <2>2, FS_EmptySet
  <2> QED
    BY <1>1, <2>2, <2>3, <2>4
<1>3. ASSUME NEW v \in S, NEW w \in S, v < w
      PROVE  rank[v] < rank[w]
  <2>0. v \in Int /\ w \in Int
    BY <1>0
  <2>1. UpTo(v) \in SUBSET UpTo(w) /\ w \in UpTo(w) /\ w \notin UpTo(v)
    <3>1. \A x \in S : x <= v => x <= w
      BY <1>0, <1>3, <2>0
    <3>2. w <= w /\ ~ (w <= v)
      BY <1>3, <2>0
    <3> QED
      BY <3>1, <3>2, Zenon
  <2>2. IsFiniteSet(UpTo(w))
    BY <1>2
  <2>3. Cardinality(UpTo(v)) <= Cardinality(UpTo(w))
    BY <2>1, <2>2, FS_Subset
  <2>4. Cardinality(UpTo(v)) # Cardinality(UpTo(w))
    BY <2>1, <2>2, FS_Subset
  <2>5. rank[v] \in Int /\ rank[w] \in Int
    BY <1>2
  <2> QED
    BY <2>3, <2>4, <2>5
<1>4. rank \in Injection(S, 1 .. N)
  <2>1. rank \in [S -> 1 .. N]
    BY <1>2
  <2>2. ASSUME NEW v \in S, NEW w \in S, rank[v] = rank[w]
        PROVE  v = w
    <3>1. v \in Int /\ w \in Int /\ rank[v] \in Int
      BY <1>0, <1>2
    <3>2. CASE v < w
      BY <3>1, <3>2, <1>3, <2>2
    <3>3. CASE w < v
      BY <3>1, <3>3, <1>3, <2>2
    <3> QED
      BY <3>1, <3>2, <3>3
  <2> HIDE DEF rank
  <2> QED
    BY <2>1, <2>2 DEF Injection, IsInjective
<1>5. rank \in Surjection(S, 1 .. N)
  <2>1. IsFiniteSet(1 .. N) /\ Cardinality(1 .. N) = N
    BY <1>1, FS_Interval
  <2> HIDE DEF rank
  <2> QED
    BY <2>1, <1>4, FS_Injection
<1> DEFINE s == [i \in 1 .. N |-> CHOOSE v \in S : rank[v] = i]
<1>6. \A i \in 1 .. N : s[i] \in S /\ rank[s[i]] = i
  <2> HIDE DEF rank
  <2>1. \A i \in 1 .. N : \E v \in S : rank[v] = i
    BY <1>5 DEF Surjection
  <2> QED
    BY <2>1
<1>7. s \in [1 .. N -> S]
  BY <1>6
<1>8. ASSUME NEW i \in 1 .. N, NEW j \in 1 .. N, i < j
      PROVE  s[i] < s[j]
  <2> HIDE DEF rank, s, N
  <2>1. s[i] \in S /\ s[j] \in S /\ rank[s[i]] = i /\ rank[s[j]] = j
    BY <1>6
  <2>2. s[i] \in Int /\ s[j] \in Int
    BY <1>0, <2>1
  <2>3. CASE s[j] < s[i]
    <3>1. rank[s[j]] < rank[s[i]]
      BY <2>1, <2>3, <1>3
    <3>2. j < i
      BY <3>1, <2>1
    <3>3. i \in Int /\ j \in Int
      BY <1>1
    <3> QED
      BY <3>2, <3>3, <1>8
  <2>4. CASE s[i] = s[j]
    BY <2>1, <2>4, <1>8
  <2> QED
    BY <2>2, <2>3, <2>4
<1> HIDE DEF s
<1> QED
  BY <1>1, <1>7, <1>8

-----------------------------------------------------------------------------
(* The operators on visits *)

LEMMA IdsBounded ==
  ASSUME TypeInv, NEW S \in SUBSET live
  PROVE  {Id(v) : v \in S} \in SUBSET (0 .. Len(visits))
<1>1. Len(visits) \in Nat /\ S \subseteq Visits
  BY DEF TypeInv, TypeOK
<1>2. \A v \in S : Id(v) \in 1 .. v /\ v \in 1 .. Len(visits)
  BY <1>1 DEF TypeInv, IdsRise, Visits
<1> QED
  BY <1>1, <1>2

LEMMA Numbers ==
  ASSUME TypeInv
  PROVE  m_strLastID \in Int /\ \A v \in Visits : v \in Int /\ Id(v) \in Int
<1>1. m_strLastID \in Int
  BY DEF TypeInv, TypeOK
<1>2. \A v \in Visits : v \in Int
  BY DEF Visits
<1>3. \A v \in Visits : Id(v) \in 1 .. v
  BY DEF TypeInv, IdsRise
<1> QED
  BY <1>1, <1>2, <1>3

(* The rows of a query on visits of the database: all of them, in the order  *)
(* of their ids, which is that in which they were made.                      *)
LEMMA OrderedByIdIs ==
  ASSUME TypeInv, NEW S \in SUBSET live
  PROVE  /\ Cardinality(S) \in Nat
         /\ OrderedById(S) \in [1 .. Cardinality(S) -> S]
         /\ \A i, j \in 1 .. Cardinality(S) :
              i < j => /\ Id(OrderedById(S)[i]) < Id(OrderedById(S)[j])
                       /\ OrderedById(S)[i] < OrderedById(S)[j]
         /\ \A v \in S : \E i \in 1 .. Cardinality(S) : OrderedById(S)[i] = v
<1> DEFINE N == Cardinality(S)
           s == OrderedById(S)
<1>0. Len(visits) \in Nat /\ S \in SUBSET (1 .. Len(visits))
  BY DEF TypeInv, TypeOK, Visits
<1>1. N \in Nat
  BY <1>0, AscendingExists
<1>2. PICK a \in [1 .. N -> S] : \A i, j \in 1 .. N : i < j => a[i] < a[j]
  BY <1>0, AscendingExists
<1>3. \A u, v \in S : /\ u < v => Id(u) < Id(v)
                      /\ u \in Int /\ Id(u) \in Int
  BY <1>0 DEF TypeInv, IdsRise, Visits
<1>4. \A i, j \in 1 .. N : i < j => Id(a[i]) < Id(a[j])
  BY <1>2, <1>3
<1>5. /\ s \in [1 .. N -> S]
      /\ \A i, j \in 1 .. N : i < j => Id(s[i]) < Id(s[j])
  BY <1>2, <1>4 DEF OrderedById
<1> HIDE DEF s
<1>6. \A i, j \in 1 .. N : i < j => s[i] < s[j]
  <2> SUFFICES ASSUME NEW i \in 1 .. N, NEW j \in 1 .. N, i < j
               PROVE  s[i] < s[j]
    OBVIOUS
  <2>1. s[i] \in S /\ s[j] \in S /\ Id(s[i]) < Id(s[j])
    BY <1>5
  <2>2. s[i] # s[j] /\ ~ (s[j] < s[i])
    BY <2>1, <1>3
  <2> QED
    BY <2>1, <2>2, <1>3
<1>7. s \in Injection(1 .. N, S)
  <2>1. ASSUME NEW i \in 1 .. N, NEW j \in 1 .. N, s[i] = s[j]
        PROVE  i = j
    <3>1. s[i] \in Int /\ i \in Int /\ j \in Int
      BY <1>1, <1>3, <1>5
    <3>2. ~ (i < j) /\ ~ (j < i)
      BY <2>1, <3>1, <1>6
    <3> QED
      BY <3>1, <3>2
  <2> QED
    BY <2>1, <1>5 DEF Injection, IsInjective
<1>8. s \in Surjection(1 .. N, S)
  <2>1. IsFiniteSet(1 .. Len(visits)) /\ IsFiniteSet(1 .. N) /\ Cardinality(1 .. N) = N
    BY <1>0, <1>1, FS_Interval
  <2>2. IsFiniteSet(S)
    BY <1>0, <2>1, FS_Subset
  <2> QED
    BY <2>1, <2>2, <1>7, FS_Injection
<1>9. \A v \in S : \E i \in 1 .. N : s[i] = v
  BY <1>8 DEF Surjection
<1> QED
  BY <1>1, <1>5, <1>6, <1>9 DEF s

LEMMA SeqWiden ==
  ASSUME NEW A, NEW B, A \subseteq B, NEW s \in Seq(A)
  PROVE  s \in Seq(B)
<1>1. Len(s) \in Nat /\ s = [i \in 1 .. Len(s) |-> s[i]] /\ \A i \in 1 .. Len(s) : s[i] \in B
  OBVIOUS
<1> QED
  BY <1>1

LEMMA SeqMember ==
  ASSUME NEW A, NEW s \in Seq(A), NEW i \in 1 .. Len(s)
  PROVE  s[i] \in A
OBVIOUS

LEMMA RowsType ==
  ASSUME TypeInv
  PROVE  /\ Len(rows) \in Nat /\ Len(told) \in Nat
         /\ \A i \in 1 .. Len(rows) : rows[i].visit \in Visits /\ rows[i].date \in Second
         /\ \A i \in 1 .. Len(told) : told[i].visit \in Visits /\ told[i].date \in Second
<1>1. rows \in Seq(RowType) /\ told \in Seq(RowType)
  BY DEF TypeInv, TypeOK
<1>2. /\ Len(rows) \in Nat /\ Len(told) \in Nat
      /\ \A i \in 1 .. Len(rows) : rows[i] \in RowType
      /\ \A i \in 1 .. Len(told) : told[i] \in RowType
  BY <1>1, SeqMember
<1> QED
  BY <1>2 DEF RowType

LEMMA DateOfType ==
  ASSUME TypeOK, NEW v \in Visits
  PROVE  DateOf(v) \in Second
<1> DEFINE Same == {x \in Visits : visits[x].place = visits[v].place}
           D == {visits[w].second : w \in Same}
<1>1. \A w \in Visits : visits[w].second \in Second
  <2>1. visits \in Seq([id : Nat, place : Place, second : Second])
    BY DEF TypeOK
  <2>2. \A w \in Visits : visits[w] \in [id : Nat, place : Place, second : Second]
    BY <2>1, SeqMember DEF Visits
  <2> QED
    BY <2>2
<1>2. v \in Same
  OBVIOUS
<1>3. visits[v].second \in D
  BY <1>2
<1>4. D \in SUBSET Second
  BY <1>1
<1>5. D \in SUBSET (0 .. MaxSecond) /\ MaxSecond \in Nat
  BY <1>4, HistoryAssumption DEF Second
<1> HIDE DEF D
<1>6. Highest(D) \in D
  BY <1>3, <1>5, HighestIs
<1> QED
  BY <1>1, <1>4, <1>6 DEF DateOf, D

-----------------------------------------------------------------------------
(* Type correctness, with the ids rising *)

LEMMA TypeInit ==
  ASSUME Init
  PROVE  TypeInv
<1>1. TypeOK
  <2>1. Len(<<>>) = 0 /\ 1 \in Second /\ 0 \in 0 .. MaxSecond /\ 0 \in 0 .. 0
    BY HistoryAssumption DEF Second
  <2>2. \A A : <<>> \in Seq(A)
    OBVIOUS
  <2>3. \A i, j \in 1 .. Len(rows) : i < j => Id(rows[i].visit) < Id(rows[j].visit)
    BY <2>1 DEF Init
  <2>4. m_strLastID \in 0 .. Len(visits) /\ start \in 0 .. Len(visits)
    BY <2>1 DEF Init
  <2> QED
    BY <2>1, <2>2, <2>3, <2>4, Zenon DEF Init, TypeOK
<1>2. IdsRise
  BY DEF Init, IdsRise, Visits
<1> QED
  BY <1>1, <1>2 DEF TypeInv

(* The browser gives a new visit an id above all that are in its database,   *)
(* and keeps the visits that were made.                                      *)
LEMMA VisitAdds ==
  ASSUME TypeInv, NEW p \in Place, Visit(p)
  PROVE  /\ Len(visits) \in Nat
         /\ Len(visits') = Len(visits) + 1
         /\ visits' \in Seq([id : Nat, place : Place, second : Second])
         /\ \A v \in Visits : visits'[v] = visits[v]
         /\ visits'[Len(visits) + 1].id \in 1 .. Len(visits) + 1
         /\ \A u \in live : Id(u) < visits'[Len(visits) + 1].id
         /\ live' = live \cup {Len(visits) + 1}
<1> DEFINE id == Highest({Id(v) : v \in live}) + 1
           e == [id |-> id, place |-> p, second |-> now]
<1>1. /\ visits \in Seq([id : Nat, place : Place, second : Second])
      /\ now \in Second
      /\ Len(visits) \in Nat
  BY DEF TypeInv, TypeOK
<1>2. {Id(v) : v \in live} \in SUBSET (0 .. Len(visits))
  BY IdsBounded
<1>3. id \in 1 .. Len(visits) + 1 /\ \A j \in {Id(v) : v \in live} : j < id
  <2>1. /\ Highest({Id(v) : v \in live}) \in 0 .. Len(visits)
        /\ \A j \in {Id(v) : v \in live} : j <= Highest({Id(v) : v \in live})
    BY <1>1, <1>2, HighestIs
  <2> DEFINE H == {Id(v) : v \in live}
             h == Highest(H)
  <2>2. \A j \in H : j \in Int
    BY <1>2
  <2> HIDE DEF H, h
  <2>3. h \in 0 .. Len(visits) /\ \A j \in H : j <= h
    BY <2>1 DEF h, H
  <2>4. h + 1 \in 1 .. Len(visits) + 1 /\ \A j \in H : j < h + 1
    BY <1>1, <2>2, <2>3
  <2> QED
    BY <2>4 DEF h, H
<1>4. visits' = Append(visits, e)
  BY DEF Visit
<1>5. e \in [id : Nat, place : Place, second : Second]
  BY <1>1, <1>3
<1>6. e.id = id
  OBVIOUS
<1> HIDE DEF id, e
<1>7. /\ Len(visits') = Len(visits) + 1
      /\ visits' \in Seq([id : Nat, place : Place, second : Second])
      /\ \A v \in Visits : visits'[v] = visits[v]
      /\ visits'[Len(visits) + 1] = e
  BY <1>1, <1>4, <1>5 DEF Visits
<1>8. visits'[Len(visits) + 1].id = id
  BY <1>6, <1>7
<1>9. live' = live \cup {Len(visits) + 1}
  BY <1>7 DEF Visit
<1> QED
  BY <1>1, <1>3, <1>7, <1>8, <1>9

LEMMA VisitTypeInv ==
  ASSUME TypeInv, NEW p \in Place, Visit(p)
  PROVE  TypeInv'
<1>0. PICK n : n = Len(visits) + 1
  OBVIOUS
<1>1. /\ Len(visits) \in Nat /\ n \in Nat /\ n = Len(visits) + 1
      /\ Visits = 1 .. Len(visits) /\ Visits' = 1 .. n
      /\ \A v \in Visits : Id(v)' = Id(v)
      /\ Id(n)' \in 1 .. n
      /\ \A u \in live : Id(u) < Id(n)'
      /\ live' = live \cup {n}
      /\ live \subseteq Visits
  <2>1. /\ Len(visits) \in Nat
        /\ Len(visits') = n
        /\ \A v \in Visits : visits'[v] = visits[v]
        /\ visits'[n].id \in 1 .. n
        /\ \A u \in live : Id(u) < visits'[n].id
        /\ live' = live \cup {n}
    BY <1>0, VisitAdds
  <2>2. live \subseteq Visits
    BY DEF TypeInv, TypeOK
  <2>3. n \in Nat /\ Visits = 1 .. Len(visits) /\ Visits' = 1 .. n
    BY <1>0, <2>1 DEF Visits
  <2>4. (\A v \in Visits : Id(v)' = Id(v)) /\ Id(n)' = visits'[n].id
    BY <2>1 DEF Id
  <2> QED
    BY <1>0, <2>1, <2>2, <2>3, <2>4
<1>2. IdsRise'
  <2>1. ASSUME NEW v \in Visits'
        PROVE  Id(v)' \in 1 .. v
    <3>1. CASE v = n
      BY <3>1, <1>1
    <3>2. CASE v # n
      <4>1. v \in Visits
        BY <1>1, <3>2, <2>1
      <4> QED
        BY <4>1, <1>1 DEF TypeInv, IdsRise
    <3> QED
      BY <3>1, <3>2
  <2>2. ASSUME NEW u \in live', NEW v \in Visits', u < v
        PROVE  Id(u)' < Id(v)'
    <3>1. u \in live
      BY <1>1, <2>2
    <3>2. CASE v = n
      BY <3>1, <3>2, <1>1
    <3>3. CASE v # n
      <4>1. v \in Visits
        BY <1>1, <3>3, <2>2
      <4> QED
        BY <4>1, <3>1, <1>1, <2>2 DEF TypeInv, IdsRise
    <3> QED
      BY <3>2, <3>3
  <2> QED
    BY <2>1, <2>2 DEF IdsRise
<1>3. RowType \subseteq RowType'
  BY <1>1 DEF RowType
<1>4. TypeOK'
  <2>1. UNCHANGED <<m_bBrowserType, m_bInit, m_strLastID, inPlace, rows, strPreURL,
                    start, told, skipped, now>>
    BY DEF Visit, program
  <2>2. m_bBrowserType' \in {FIREFOX_BROWSER, CHROME_BROWSER} /\ m_bInit' \in BOOLEAN
          /\ inPlace' \in BOOLEAN /\ now' \in Second /\ strPreURL' \in 0 .. MaxSecond
    BY <2>1 DEF TypeInv, TypeOK
  <2>3. visits' \in Seq([id : Nat, place : Place, second : Second])
    BY VisitAdds
  <2>4. live' \subseteq Visits' /\ hidden' \subseteq Visits'
    <3>1. Len(visits') = n
      BY <1>1, VisitAdds
    <3>2. hidden' = hidden \/ hidden' = hidden \cup {n}
      BY <3>1 DEF Visit
    <3>3. live \subseteq 1 .. n /\ hidden \subseteq 1 .. n /\ n \in 1 .. n
      BY <1>1 DEF TypeInv, TypeOK
    <3>4. live' \subseteq 1 .. n /\ hidden' \subseteq 1 .. n
      BY <1>1, <3>2, <3>3
    <3> QED
      BY <1>1, <3>4
  <2>5. m_strLastID' \in 0 .. Len(visits)' /\ start' \in 0 .. Len(visits)'
    BY <2>1, VisitAdds DEF TypeInv, TypeOK
  <2>6. rows' \in Seq(RowType)' /\ told' \in Seq(RowType)' /\ skipped' \subseteq RowType'
    <3>1. rows \in Seq(RowType) /\ told \in Seq(RowType) /\ skipped \subseteq RowType
      BY DEF TypeInv, TypeOK
    <3> HIDE DEF RowType
    <3>2. rows \in Seq(RowType') /\ told \in Seq(RowType')
      BY <3>1, <1>3, SeqWiden
    <3> QED
      BY <2>1, <3>1, <3>2, <1>3
  <2>7. \A i, j \in 1 .. Len(rows') :
          i < j => Id(rows[i].visit)' < Id(rows[j].visit)'
    <3>1. \A i \in 1 .. Len(rows) : rows[i].visit \in Visits
      BY RowsType
    <3> QED
      BY <2>1, <3>1, <1>1 DEF TypeInv, TypeOK
  <2> QED
    BY <2>2, <2>3, <2>4, <2>5, <2>6, <2>7 DEF TypeOK
<1> QED
  BY <1>2, <1>4 DEF TypeInv

LEMMA DeleteTypeInv ==
  ASSUME TypeInv, Delete
  PROVE  TypeInv'
<1>1. UNCHANGED <<m_bBrowserType, program, visits, now, hidden>> /\ live' \subseteq live
  BY DEF Delete
<1>2. TypeOK'
  BY <1>1 DEF TypeInv, TypeOK, program, Visits, RowType, Id
<1>3. IdsRise'
  BY <1>1 DEF TypeInv, IdsRise, Visits, Id
<1> QED
  BY <1>2, <1>3 DEF TypeInv

LEMMA TickTypeInv ==
  ASSUME TypeInv, Tick
  PROVE  TypeInv'
<1>1. UNCHANGED <<m_bBrowserType, program, visits, live, hidden>>
  BY DEF Tick
<1>2. now' \in Second
  BY HistoryAssumption DEF Tick, TypeInv, TypeOK, Second
<1>3. TypeOK'
  BY <1>1, <1>2 DEF TypeInv, TypeOK, program, Visits, RowType, Id
<1>4. IdsRise'
  BY <1>1 DEF TypeInv, IdsRise, Visits, Id
<1> QED
  BY <1>3, <1>4 DEF TypeInv

(* A copy of the database holds visits of the database. *)
LEMMA SnapshotLive ==
  ASSUME NEW own, NEW S \in Snapshot(own)
  PROVE  S \in SUBSET live
BY DEF Snapshot

(* What the program does leaves the ids as they are. *)
LEMMA IdsKept ==
  ASSUME TypeInv, UNCHANGED browser
  PROVE  IdsRise' /\ Len(visits)' = Len(visits) /\ Visits' = Visits /\ RowType' = RowType
BY DEF TypeInv, IdsRise, Visits, Id, browser, RowType

LEMMA InitializeTypeInv ==
  ASSUME TypeInv, Initialize
  PROVE  TypeInv'
<1>1. UNCHANGED <<m_bBrowserType, rows, strPreURL, told, skipped, browser>>
  BY DEF Initialize
<1>2. m_bInit' \in BOOLEAN /\ inPlace' \in BOOLEAN
  BY DEF Initialize
<1>3. m_strLastID' \in 0 .. Len(visits)
  <2>1. PICK S \in Snapshot(inPlace') : m_strLastID' = Highest({Id(v) : v \in S})
    BY DEF Initialize
  <2>2. {Id(v) : v \in S} \in SUBSET (0 .. Len(visits))
    BY SnapshotLive, IdsBounded
  <2>3. Len(visits) \in Nat
    BY DEF TypeInv, TypeOK
  <2> QED
    BY <2>1, <2>2, <2>3, HighestIs
<1>4. start' \in 0 .. Len(visits)
  BY DEF Initialize, TypeInv, TypeOK
<1>5. TypeOK'
  BY <1>1, <1>2, <1>3, <1>4 DEF TypeInv, TypeOK, browser, Visits, RowType, Id
<1> QED
  BY <1>1, <1>5, IdsKept DEF TypeInv

(* What a query reads: visits of the database above m_strLastID, in order. *)
LEMMA Query ==
  ASSUME TypeInv, UpdateURL
  PROVE  \E S \in Snapshot(inPlace) :
           /\ Newer(S) \in SUBSET live
           /\ rows' \in Seq(RowType)
           /\ \A i \in 1 .. Len(rows') : rows'[i].visit \in Newer(S)
           /\ \A i, j \in 1 .. Len(rows') :
                i < j => /\ Id(rows'[i].visit) < Id(rows'[j].visit)
                         /\ rows'[i].visit < rows'[j].visit
           /\ \A v \in Newer(S) : \E i \in 1 .. Len(rows') : rows'[i].visit = v
<1>1. PICK S \in Snapshot(inPlace) :
        LET new == OrderedById(Newer(S))
        IN  rows' = [i \in DOMAIN new |-> [visit |-> new[i], date |-> DateOf(new[i])]]
  BY DEF UpdateURL
<1> DEFINE T == Newer(S)
           N == Cardinality(T)
           new == OrderedById(T)
<1>2. T \in SUBSET live
  BY SnapshotLive DEF Newer
<1>3. rows' = [i \in DOMAIN new |-> [visit |-> new[i], date |-> DateOf(new[i])]]
  BY <1>1
<1> HIDE DEF T
<1>4. /\ N \in Nat
      /\ new \in [1 .. N -> T]
      /\ \A i, j \in 1 .. N : i < j => Id(new[i]) < Id(new[j]) /\ new[i] < new[j]
      /\ \A v \in T : \E i \in 1 .. N : new[i] = v
  BY <1>2, OrderedByIdIs
<1> HIDE DEF N, new
<1>5. \A i \in 1 .. N : new[i] \in Visits /\ DateOf(new[i]) \in Second
  BY <1>2, <1>4, DateOfType DEF TypeInv, TypeOK
<1>6. /\ rows' = [i \in 1 .. N |-> [visit |-> new[i], date |-> DateOf(new[i])]]
      /\ \A i \in 1 .. N : rows'[i].visit = new[i]
  BY <1>3, <1>4
<1>7. \A i \in 1 .. N : rows'[i] \in RowType
  BY <1>5, <1>6 DEF RowType
<1>8. rows' \in Seq(RowType) /\ Len(rows') = N
  <2> HIDE DEF RowType
  <2>1. rows' \in [1 .. N -> RowType]
    BY <1>6, <1>7
  <2> QED
    BY <1>4, <2>1
<1> QED
  BY <1>2, <1>4, <1>6, <1>8 DEF T

LEMMA UpdateURLTypeInv ==
  ASSUME TypeInv, UpdateURL
  PROVE  TypeInv'
<1>1. /\ UNCHANGED <<m_bBrowserType, m_bInit, m_strLastID, inPlace, start, told, skipped, browser>>
      /\ strPreURL' = 0
  BY DEF UpdateURL
<1>2. /\ rows' \in Seq(RowType)
      /\ \A i, j \in 1 .. Len(rows') : i < j => Id(rows'[i].visit) < Id(rows'[j].visit)
  BY Query
<1>3. strPreURL' \in 0 .. MaxSecond
  BY <1>1, HistoryAssumption
<1>4. TypeOK'
  <2>1. UNCHANGED visits
    BY <1>1 DEF browser
  <2>2. \A i, j \in 1 .. Len(rows') : i < j => Id(rows[i].visit)' < Id(rows[j].visit)'
    BY <1>2, <2>1 DEF Id
  <2> QED
    BY <1>1, <1>2, <1>3, <2>1, <2>2 DEF TypeInv, TypeOK, browser, Visits, RowType
<1> QED
  BY <1>1, <1>4, IdsKept DEF TypeInv

(* What a turn of the loop does: the first row is told or skipped. *)
LEMMA Turn ==
  ASSUME TypeInv, SendRow
  PROVE  /\ Len(rows) \in Nat \ {0} /\ Len(told) \in Nat
         /\ rows[1] \in RowType
         /\ m_strLastID' = Id(rows[1].visit) /\ strPreURL' = rows[1].date
         /\ rows' \in Seq(RowType)
         /\ Len(rows') = Len(rows) - 1
         /\ \A i \in 1 .. Len(rows') : rows'[i] = rows[i + 1]
         /\ \/ /\ told' \in Seq(RowType)
               /\ Len(told') = Len(told) + 1
               /\ \A i \in 1 .. Len(told) : told'[i] = told[i]
               /\ told'[Len(told) + 1] = rows[1]
               /\ skipped' = skipped
            \/ /\ rows[1].date = strPreURL
               /\ told' = told
               /\ skipped' = skipped \cup {rows[1]}
<1>1. rows \in Seq(RowType) /\ told \in Seq(RowType) /\ rows # <<>>
  BY DEF SendRow, TypeInv, TypeOK
<1> HIDE DEF RowType
<1>2. /\ Len(rows) \in Nat \ {0} /\ Len(told) \in Nat
      /\ Head(rows) = rows[1] /\ rows[1] \in RowType
      /\ Tail(rows) \in Seq(RowType)
      /\ Len(Tail(rows)) = Len(rows) - 1
      /\ \A i \in 1 .. Len(Tail(rows)) : Tail(rows)[i] = rows[i + 1]
  BY <1>1
<1>3. rows' = Tail(rows)
  BY DEF SendRow
<1>4. m_strLastID' = Id(rows[1].visit) /\ strPreURL' = rows[1].date
  BY <1>2 DEF SendRow
<1>5. \/ told' = Append(told, rows[1]) /\ skipped' = skipped
      \/ rows[1].date = strPreURL /\ told' = told /\ skipped' = skipped \cup {rows[1]}
  BY <1>2 DEF SendRow
<1>6. /\ Append(told, rows[1]) \in Seq(RowType)
      /\ Len(Append(told, rows[1])) = Len(told) + 1
      /\ \A i \in 1 .. Len(told) : Append(told, rows[1])[i] = told[i]
      /\ Append(told, rows[1])[Len(told) + 1] = rows[1]
  BY <1>1, <1>2
<1> QED
  BY <1>2, <1>3, <1>4, <1>5, <1>6

LEMMA SendRowTypeInv ==
  ASSUME TypeInv, SendRow
  PROVE  TypeInv'
<1>1. UNCHANGED <<m_bBrowserType, m_bInit, inPlace, start, browser>>
  BY DEF SendRow
<1>2. /\ rows[1].visit \in Visits /\ rows[1].date \in Second
      /\ m_strLastID' = Id(rows[1].visit) /\ strPreURL' = rows[1].date
  BY Turn DEF RowType
<1>3. m_strLastID' \in 0 .. Len(visits)
  <2>1. Len(visits) \in Nat
    BY DEF TypeInv, TypeOK
  <2>2. Id(rows[1].visit) \in 1 .. rows[1].visit
    BY <1>2 DEF TypeInv, IdsRise
  <2> QED
    BY <1>2, <2>1, <2>2 DEF Visits
<1>4. strPreURL' \in 0 .. MaxSecond
  BY <1>2, HistoryAssumption DEF Second
<1>5. rows' \in Seq(RowType) /\ told' \in Seq(RowType) /\ skipped' \subseteq RowType
  BY Turn DEF TypeInv, TypeOK
<1>6. \A i, j \in 1 .. Len(rows') : i < j => Id(rows[i].visit)' < Id(rows[j].visit)'
  <2>1. /\ Len(rows) \in Nat \ {0}
        /\ Len(rows') = Len(rows) - 1
        /\ \A i \in 1 .. Len(rows') : rows'[i] = rows[i + 1]
    BY Turn
  <2>2. \A i, j \in 1 .. Len(rows) : i < j => Id(rows[i].visit) < Id(rows[j].visit)
    BY DEF TypeInv, TypeOK
  <2>3. ASSUME NEW i \in 1 .. Len(rows'), NEW j \in 1 .. Len(rows'), i < j
        PROVE  Id(rows[i].visit)' < Id(rows[j].visit)'
    <3>1. i + 1 \in 1 .. Len(rows) /\ j + 1 \in 1 .. Len(rows) /\ i + 1 < j + 1
      BY <2>1, <2>3
    <3>2. Id(rows[i + 1].visit) < Id(rows[j + 1].visit)
      BY <2>2, <3>1
    <3> QED
      BY <1>1, <2>1, <3>2 DEF Id, browser
  <2> QED
    BY <2>3
<1>7. TypeOK'
  BY <1>1, <1>3, <1>4, <1>5, <1>6 DEF TypeInv, TypeOK, browser, Visits, RowType
<1> QED
  BY <1>1, <1>7, IdsKept DEF TypeInv

LEMMA RestartTypeInv ==
  ASSUME TypeInv, Restart
  PROVE  TypeInv'
<1>1. UNCHANGED <<m_bBrowserType, browser>>
  BY DEF Restart, browser
<1>2. Len(<<>>) = 0 /\ 0 \in 0 .. MaxSecond /\ \A A : <<>> \in Seq(A)
  BY HistoryAssumption
<1>3. 0 \in 0 .. Len(visits) /\ Len(visits) \in 0 .. Len(visits)
  BY DEF TypeInv, TypeOK
<1>4. \A i, j \in 1 .. Len(rows') : i < j => Id(rows[i].visit)' < Id(rows[j].visit)'
  BY <1>2 DEF Restart
<1>5. TypeOK'
  BY <1>1, <1>2, <1>3, <1>4, IdsKept DEF TypeInv, TypeOK, Restart, browser
<1> QED
  BY <1>1, <1>5, IdsKept DEF TypeInv

LEMMA TypeStep == TypeInv /\ [Next]_vars => TypeInv'
<1> SUFFICES ASSUME TypeInv, [Next]_vars PROVE TypeInv'
  OBVIOUS
<1>1. CASE UNCHANGED vars
  BY <1>1 DEF TypeInv, TypeOK, IdsRise, vars, program, browser, Visits, RowType, Id
<1>2. ASSUME NEW p \in Place, Visit(p) PROVE TypeInv'
  BY <1>2, VisitTypeInv
<1>3. CASE Delete
  BY <1>3, DeleteTypeInv
<1>4. CASE Tick
  BY <1>4, TickTypeInv
<1>5. CASE Initialize
  BY <1>5, InitializeTypeInv
<1>6. CASE UpdateURL
  BY <1>6, UpdateURLTypeInv
<1>7. CASE SendRow
  BY <1>7, SendRowTypeInv
<1>8. CASE Restart
  BY <1>8, RestartTypeInv
<1> QED
  BY <1>1, <1>2, <1>3, <1>4, <1>5, <1>6, <1>7, <1>8 DEF Next

(* Every variable keeps its type; in particular the rows of a query stay in  *)
(* the order of their ids while the browser adds and deletes visits          *)
(* (WebHistory.cpp:146-172).                                                 *)
THEOREM TypeCorrect == Spec => []TypeOK
<1>1. TypeInv => TypeOK
  BY DEF TypeInv
<1> QED
  BY <1>1, TypeInit, TypeStep, PTL DEF Spec

-----------------------------------------------------------------------------
(* What is told is in order *)

LEMMA OrderInit ==
  ASSUME Init
  PROVE  OrderInv
<1>1. rows = <<>> /\ told = <<>> /\ skipped = {} /\ Len(<<>>) = 0
  BY DEF Init
<1> QED
  BY <1>1 DEF OrderInv, NothingBeforeInit, RowsInOrder, ToldInOrder

(* Visits of the browser keep their ids. *)
LEMMA IdsStay ==
  ASSUME TypeInv, [Next]_vars
  PROVE  \A v \in Visits : visits'[v] = visits[v]
<1>1. CASE \E p \in Place : Visit(p)
  BY <1>1, VisitAdds
<1>2. CASE UNCHANGED visits
  BY <1>2
<1> QED
  BY <1>1, <1>2 DEF Next, vars, browser, Delete, Tick, Initialize, UpdateURL, SendRow, Restart

(* The browser does not disturb what the program has read. *)
LEMMA BrowserOrder ==
  ASSUME TypeInv, OrderInv, UNCHANGED program, \A v \in Visits : visits'[v] = visits[v]
  PROVE  OrderInv'
<1>1. UNCHANGED <<m_bInit, m_strLastID, rows, told, skipped>>
  BY DEF program
<1>2. /\ \A i \in 1 .. Len(rows) : Id(rows[i].visit)' = Id(rows[i].visit)
      /\ \A i \in 1 .. Len(told) : Id(told[i].visit)' = Id(told[i].visit)
  BY <1>1, RowsType DEF Id
<1> QED
  BY <1>1, <1>2 DEF OrderInv, NothingBeforeInit, RowsInOrder, ToldInOrder

LEMMA InitializeOrder ==
  ASSUME OrderInv, Initialize
  PROVE  OrderInv'
<1>1. rows' = <<>> /\ told' = <<>> /\ m_bInit' = TRUE /\ Len(<<>>) = 0
  BY DEF Initialize, OrderInv, NothingBeforeInit
<1> QED
  BY <1>1 DEF OrderInv, NothingBeforeInit, RowsInOrder, ToldInOrder

LEMMA UpdateURLOrder ==
  ASSUME TypeInv, OrderInv, UpdateURL
  PROVE  OrderInv'
<1>1. /\ UNCHANGED <<m_bInit, m_strLastID, told, skipped, visits>>
      /\ m_bInit
  BY DEF UpdateURL, browser
<1>2. PICK S \in Snapshot(inPlace) :
        /\ Newer(S) \in SUBSET live
        /\ \A i \in 1 .. Len(rows') : rows'[i].visit \in Newer(S)
        /\ \A i, j \in 1 .. Len(rows') : i < j => rows'[i].visit < rows'[j].visit
  BY Query
<1>3. \A i \in 1 .. Len(rows') : /\ rows'[i].visit \in live
                                 /\ m_strLastID < Id(rows'[i].visit)
  BY <1>2 DEF Newer
<1>4. ASSUME NEW i \in 1 .. Len(told), NEW j \in 1 .. Len(rows')
      PROVE  told[i].visit < rows'[j].visit
  <2> DEFINE t == told[i].visit
             r == rows'[j].visit
  <2>1. t \in Visits /\ r \in live /\ r \in Visits
    BY <1>3, RowsType DEF TypeInv, TypeOK
  <2>2. Id(t) <= m_strLastID /\ m_strLastID < Id(r)
    BY <1>3 DEF OrderInv, RowsInOrder
  <2>3. /\ t \in Int /\ r \in Int /\ m_strLastID \in Int
        /\ Id(t) \in Int /\ Id(r) \in Int
    BY <2>1, Numbers
  <2> HIDE DEF t, r
  <2>4. r < t => Id(r) < Id(t)
    BY <2>1 DEF TypeInv, IdsRise
  <2>5. r # t /\ ~ (r < t)
    BY <2>2, <2>3, <2>4
  <2>6. t < r
    BY <2>3, <2>5
  <2> QED
    BY <2>6 DEF t, r
<1>5. RowsInOrder'
  BY <1>1, <1>2, <1>3, <1>4 DEF OrderInv, RowsInOrder, Id
<1> QED
  BY <1>1, <1>5 DEF OrderInv, NothingBeforeInit, ToldInOrder

LEMMA SendRowOrder ==
  ASSUME TypeInv, OrderInv, SendRow
  PROVE  OrderInv'
<1>1. /\ UNCHANGED <<m_bInit, visits>>
      /\ Len(rows) \in Nat \ {0} /\ Len(told) \in Nat
      /\ m_strLastID' = Id(rows[1].visit)
      /\ Len(rows') = Len(rows) - 1
      /\ \A i \in 1 .. Len(rows') : rows'[i] = rows[i + 1]
  BY Turn DEF SendRow, browser
<1>2. \/ told' = told
      \/ /\ Len(told') = Len(told) + 1
         /\ \A i \in 1 .. Len(told) : told'[i] = told[i]
         /\ told'[Len(told) + 1] = rows[1]
  BY Turn
<1>3. \A i \in 1 .. Len(told') : \/ i \in 1 .. Len(told) /\ told'[i] = told[i]
                                 \/ i = Len(told) + 1 /\ told'[i] = rows[1]
  BY <1>1, <1>2
<1>4. m_bInit'
  BY <1>1 DEF OrderInv, NothingBeforeInit, SendRow
<1>5. \A i \in 1 .. Len(rows') : i + 1 \in 1 .. Len(rows) /\ rows'[i] = rows[i + 1] /\ 1 < i + 1
  BY <1>1
<1>6. 1 \in 1 .. Len(rows)
  BY <1>1
<1>7. ASSUME NEW i \in 1 .. Len(rows')
      PROVE  m_strLastID' < Id(rows'[i].visit)
  BY <1>1, <1>5, <1>6 DEF TypeInv, TypeOK
<1>8. ASSUME NEW i \in 1 .. Len(told')
      PROVE  Id(told'[i].visit) <= m_strLastID'
  <2>1. CASE i = Len(told) + 1 /\ told'[i] = rows[1]
    <3>1. Id(rows[1].visit) \in Int
      BY <1>6, RowsType, Numbers
    <3> QED
      BY <1>1, <2>1, <3>1
  <2>2. CASE i \in 1 .. Len(told) /\ told'[i] = told[i]
    <3>1. Id(told[i].visit) <= m_strLastID /\ m_strLastID < Id(rows[1].visit)
      BY <1>6, <2>2 DEF OrderInv, RowsInOrder
    <3>2. Id(told[i].visit) \in Int /\ m_strLastID \in Int /\ Id(rows[1].visit) \in Int
      BY <1>6, <2>2, RowsType, Numbers
    <3> QED
      BY <1>1, <2>2, <3>1, <3>2
  <2> QED
    BY <1>3, <2>1, <2>2
<1>9. \A i, j \in 1 .. Len(rows') : i < j => rows'[i].visit < rows'[j].visit
  BY <1>5 DEF OrderInv, RowsInOrder
<1>10. \A i \in 1 .. Len(told'), j \in 1 .. Len(rows') : told'[i].visit < rows'[j].visit
  BY <1>3, <1>5, <1>6 DEF OrderInv, RowsInOrder
<1>11. ToldInOrder'
  <2> SUFFICES ASSUME NEW i \in 1 .. Len(told'), NEW j \in 1 .. Len(told'), i < j
               PROVE  told'[i].visit < told'[j].visit
    BY DEF ToldInOrder
  <2>1. i \in 1 .. Len(told) /\ told'[i] = told[i]
    BY <1>1, <1>2, <1>3
  <2> QED
    BY <1>3, <1>6, <2>1 DEF OrderInv, RowsInOrder, ToldInOrder
<1>12. RowsInOrder'
  BY <1>1, <1>7, <1>8, <1>9, <1>10 DEF RowsInOrder, Id
<1> QED
  BY <1>4, <1>11, <1>12 DEF OrderInv, NothingBeforeInit

LEMMA RestartOrder ==
  ASSUME Restart
  PROVE  OrderInv'
<1>1. rows' = <<>> /\ told' = <<>> /\ skipped' = {} /\ Len(<<>>) = 0
  BY DEF Restart
<1> QED
  BY <1>1 DEF OrderInv, NothingBeforeInit, RowsInOrder, ToldInOrder

LEMMA OrderStep == TypeInv /\ OrderInv /\ [Next]_vars => OrderInv'
<1> SUFFICES ASSUME TypeInv, OrderInv, [Next]_vars PROVE OrderInv'
  OBVIOUS
<1>1. CASE UNCHANGED program
  BY <1>1, IdsStay, BrowserOrder
<1>2. CASE Initialize
  BY <1>2, InitializeOrder
<1>3. CASE UpdateURL
  BY <1>3, UpdateURLOrder
<1>4. CASE SendRow
  BY <1>4, SendRowOrder
<1>5. CASE Restart
  BY <1>5, RestartOrder
<1> QED
  BY <1>1, <1>2, <1>3, <1>4, <1>5 DEF Next, vars, Visit, Delete, Tick

(* No visit is told twice, and none after a later one, whatever the browser  *)
(* deletes and whichever ids it gives again: the ids of the rows are         *)
(* compared, the order of the visits follows (WebHistory.cpp:169-185).       *)
THEOREM ToldCorrect == Spec => []ToldInOrder
<1>1. OrderInv => ToldInOrder
  BY DEF OrderInv
<1> QED
  BY <1>1, TypeInit, TypeStep, OrderInit, OrderStep, PTL DEF Spec

-----------------------------------------------------------------------------
(* Nothing is skipped *)

LEMMA SkipInit ==
  ASSUME Init
  PROVE  SkipInv
<1>1. /\ live = {} /\ skipped = {} /\ strPreURL = 0
  BY DEF Init
<1> QED
  BY <1>1 DEF SkipInv, DatesTold, RowsComplete, NothingSkipped

(* A new visit is hidden unless its id is above all the program has read.    *)
LEMMA NewIdAbove ==
  ASSUME TypeInv, NEW p \in Place, Visit(p), Len(visits) + 1 \notin hidden'
  PROVE  /\ m_strLastID < visits'[Len(visits) + 1].id
         /\ \A i \in 1 .. Len(rows) : Id(rows[i].visit) < visits'[Len(visits) + 1].id
<1> DEFINE id == Highest({Id(v) : v \in live}) + 1
           R == {m_strLastID} \cup {Id(rows[i].visit) : i \in 1 .. Len(rows)}
           passed == Highest(R)
<1>1. /\ visits' = Append(visits, [id |-> id, place |-> p, second |-> now])
      /\ hidden' = IF id <= passed THEN hidden \cup {Len(visits')} ELSE hidden
  BY DEF Visit
<1>2. Len(visits) \in Nat /\ Len(visits') = Len(visits) + 1 /\ visits'[Len(visits) + 1].id \in Int
  BY VisitAdds
<1>3. visits'[Len(visits) + 1].id = id
  <2> DEFINE e == [id |-> id, place |-> p, second |-> now]
  <2>1. e.id = id
    OBVIOUS
  <2>2. visits' = Append(visits, e) /\ visits \in Seq([id : Nat, place : Place, second : Second])
    BY <1>1 DEF TypeInv, TypeOK
  <2> HIDE DEF e, id
  <2>3. visits'[Len(visits) + 1] = e
    BY <2>2
  <2> QED
    BY <2>1, <2>3
<1> HIDE DEF id
<1>4. R \in SUBSET (0 .. Len(visits))
  <2>1. m_strLastID \in 0 .. Len(visits)
    BY DEF TypeInv, TypeOK
  <2>2. ASSUME NEW i \in 1 .. Len(rows)
        PROVE  Id(rows[i].visit) \in 0 .. Len(visits)
    <3>1. rows[i].visit \in Visits
      BY RowsType
    <3>2. Id(rows[i].visit) \in 1 .. rows[i].visit
      BY <3>1 DEF TypeInv, IdsRise
    <3> QED
      BY <1>2, <3>1, <3>2 DEF Visits
  <2> QED
    BY <2>1, <2>2
<1>5. m_strLastID \in R /\ \A i \in 1 .. Len(rows) : Id(rows[i].visit) \in R
  OBVIOUS
<1> HIDE DEF R
<1>6. passed \in Int /\ \A j \in R : j <= passed /\ j \in Int
  BY <1>2, <1>4, HighestIs
<1> HIDE DEF passed
<1>7. ~ (id <= passed) /\ id \in Int
  BY <1>1, <1>2, <1>3
<1>8. \A j \in R : j < id
  BY <1>6, <1>7
<1> QED
  BY <1>3, <1>5, <1>8

LEMMA VisitSkip ==
  ASSUME TypeInv, SkipInv, NEW p \in Place, Visit(p)
  PROVE  SkipInv'
<1>0. PICK n : n = Len(visits) + 1
  OBVIOUS
<1>1. /\ UNCHANGED <<m_bInit, m_strLastID, rows, told, skipped, start, strPreURL>>
      /\ hidden \subseteq hidden'
  BY DEF Visit, program
<1>2. /\ live' = live \cup {n}
      /\ \A v \in Visits : visits'[v] = visits[v]
  BY <1>0, VisitAdds
<1>3. ASSUME NEW v \in live' \ hidden'
      PROVE  \/ v \in live \ hidden /\ Id(v)' = Id(v)
             \/ /\ v = n
                /\ m_strLastID < Id(v)'
                /\ \A i \in 1 .. Len(rows) : Id(rows[i].visit) < Id(v)'
  <2>1. CASE v = n
    BY <1>0, <2>1, NewIdAbove DEF Id
  <2>2. CASE v # n
    BY <1>1, <1>2, <2>2 DEF Id, TypeInv, TypeOK
  <2> QED
    BY <2>1, <2>2
<1>4. /\ m_strLastID \in Int
      /\ \A v \in Visits' : Id(v)' \in Int
      /\ live' \subseteq Visits'
  <2>1. TypeInv'
    BY VisitTypeInv
  <2>2. \A v \in Visits' : Id(v)' \in 1 .. v
    BY <2>1 DEF TypeInv, IdsRise
  <2>3. live' \subseteq Visits'
    BY <2>1 DEF TypeInv, TypeOK
  <2> QED
    BY <2>2, <2>3, Numbers
<1>5. \A i \in 1 .. Len(rows) : Id(rows[i].visit)' = Id(rows[i].visit)
                              /\ Id(rows[i].visit) \in Int
  BY <1>1, <1>2, RowsType, Numbers DEF Id
<1>6. DatesTold'
  BY <1>1 DEF SkipInv, DatesTold, ToldDate
<1>7. RowsComplete'
  <2> SUFFICES ASSUME NEW v \in live' \ hidden', NEW i \in 1 .. Len(rows),
                      m_strLastID < Id(v)', Id(v)' <= Id(rows[i].visit)
               PROVE  \E j \in 1 .. Len(rows) : rows[j].visit = v
    BY <1>1, <1>5 DEF RowsComplete
  <2>1. v \in live \ hidden /\ Id(v)' = Id(v)
    BY <1>3, <1>4, <1>5
  <2> QED
    BY <2>1 DEF SkipInv, RowsComplete
<1>8. NothingSkipped'
  <2> SUFFICES ASSUME m_bInit, NEW v \in live' \ hidden', start < v, Id(v)' <= m_strLastID
               PROVE  \/ \E i \in 1 .. Len(told) : told[i].visit = v
                      \/ \E r \in skipped : r.visit = v /\ \E i \in 1 .. Len(told) : told[i].date = r.date
    BY <1>1 DEF NothingSkipped
  <2>1. v \in live \ hidden /\ Id(v)' = Id(v)
    BY <1>3, <1>4
  <2> QED
    BY <2>1 DEF SkipInv, NothingSkipped
<1> QED
  BY <1>6, <1>7, <1>8 DEF SkipInv

(* Deleting visits leaves less to be told. *)
LEMMA FewerVisits ==
  ASSUME SkipInv, live' \subseteq live, UNCHANGED <<program, visits, hidden>>
  PROVE  SkipInv'
<1>1. UNCHANGED <<m_bInit, m_strLastID, rows, told, skipped, start, strPreURL, visits, hidden>>
  BY DEF program
<1>2. DatesTold'
  BY <1>1 DEF SkipInv, DatesTold, ToldDate
<1>3. RowsComplete'
  BY <1>1 DEF SkipInv, RowsComplete, Id
<1>4. NothingSkipped'
  BY <1>1 DEF SkipInv, NothingSkipped, Id
<1> QED
  BY <1>2, <1>3, <1>4 DEF SkipInv

LEMMA InitializeSkip ==
  ASSUME TypeInv, OrderInv, SkipInv, Initialize
  PROVE  SkipInv'
<1>1. /\ rows' = <<>> /\ told' = <<>> /\ skipped' = {} /\ Len(<<>>) = 0
      /\ start' = Len(visits) /\ UNCHANGED <<visits, live, hidden>>
  BY DEF Initialize, OrderInv, NothingBeforeInit, browser
<1>2. \A v \in live' : ~ (start' < v)
  BY <1>1 DEF TypeInv, TypeOK, Visits
<1>3. DatesTold'
  BY DEF Initialize, SkipInv, DatesTold, ToldDate
<1> QED
  BY <1>1, <1>2, <1>3 DEF SkipInv, RowsComplete, NothingSkipped

(* A copy lacks newest visits only. *)
LEMMA SnapshotDown ==
  ASSUME TypeInv, NEW own, NEW S \in Snapshot(own),
         NEW v \in live, NEW w \in S, Id(v) <= Id(w)
  PROVE  v \in S
<1>1. CASE S = live
  BY <1>1
<1>2. CASE \E k \in 0 .. Len(visits) : S = {x \in live : Id(x) <= k}
  <2>1. PICK k \in 0 .. Len(visits) : S = {x \in live : Id(x) <= k}
    BY <1>2
  <2>2. w \in live /\ Id(w) <= k
    BY <2>1
  <2>3. Id(v) \in Int /\ Id(w) \in Int /\ k \in Int
    BY <2>2, Numbers DEF TypeInv, TypeOK
  <2>4. Id(v) <= k
    BY <2>2, <2>3
  <2> QED
    BY <2>1, <2>4
<1> QED
  BY <1>1, <1>2 DEF Snapshot

LEMMA UpdateURLSkip ==
  ASSUME TypeInv, SkipInv, UpdateURL
  PROVE  SkipInv'
<1>1. /\ UNCHANGED <<m_bInit, m_strLastID, told, skipped, start, visits, live, hidden>>
      /\ strPreURL' = 0
  BY DEF UpdateURL, browser
<1>2. PICK S \in Snapshot(inPlace) :
        /\ Newer(S) \in SUBSET live
        /\ \A i \in 1 .. Len(rows') : rows'[i].visit \in Newer(S)
        /\ \A v \in Newer(S) : \E i \in 1 .. Len(rows') : rows'[i].visit = v
  BY Query
<1>3. RowsComplete'
  <2> SUFFICES ASSUME NEW v \in live \ hidden, NEW i \in 1 .. Len(rows'),
                      m_strLastID < Id(v), Id(v) <= Id(rows'[i].visit)
               PROVE  \E j \in 1 .. Len(rows') : rows'[j].visit = v
    BY <1>1 DEF RowsComplete, Id
  <2>1. rows'[i].visit \in S
    BY <1>2 DEF Newer
  <2>2. v \in S
    BY <2>1, SnapshotDown
  <2>3. v \in Newer(S)
    BY <2>2 DEF Newer
  <2> QED
    BY <1>2, <2>3
<1>4. DatesTold'
  BY <1>1 DEF SkipInv, DatesTold, ToldDate
<1>5. NothingSkipped'
  BY <1>1 DEF SkipInv, NothingSkipped, Id
<1> QED
  BY <1>3, <1>4, <1>5 DEF SkipInv

LEMMA SendRowSkip ==
  ASSUME TypeInv, OrderInv, SkipInv, SendRow
  PROVE  SkipInv'
<1>0. PICK first : first = rows[1]
  OBVIOUS
<1>1. /\ UNCHANGED <<m_bInit, start, visits, live, hidden>>
      /\ Len(rows) \in Nat \ {0} /\ Len(told) \in Nat
      /\ m_strLastID' = Id(first.visit) /\ strPreURL' = first.date
      /\ Len(rows') = Len(rows) - 1
      /\ \A i \in 1 .. Len(rows') : rows'[i] = rows[i + 1]
  BY <1>0, Turn DEF SendRow, browser
<1>2. \/ /\ Len(told') = Len(told) + 1
         /\ \A i \in 1 .. Len(told) : told'[i] = told[i]
         /\ told'[Len(told) + 1] = first
         /\ skipped' = skipped
      \/ /\ first.date = strPreURL
         /\ told' = told
         /\ skipped' = skipped \cup {first}
  BY <1>0, Turn
<1>3. 1 \in 1 .. Len(rows) /\ first.visit \in Visits /\ first.date \in Second
  BY <1>0, <1>1, RowsType
<1>4. \A i \in 1 .. Len(told) : i \in 1 .. Len(told') /\ told'[i] = told[i]
  BY <1>1, <1>2
<1>5. \A d : ToldDate(d) => ToldDate(d)'
  BY <1>4 DEF ToldDate
<1>6. ToldDate(first.date)'
  <2>1. CASE told' = told /\ first.date = strPreURL
    <3>1. strPreURL # 0
      BY <1>3, <2>1, HistoryAssumption DEF Second
    <3> QED
      BY <2>1, <3>1, <1>5 DEF SkipInv, DatesTold
  <2>2. CASE Len(told') = Len(told) + 1 /\ told'[Len(told) + 1] = first
    <3>1. Len(told) + 1 \in 1 .. Len(told')
      BY <1>1, <2>2
    <3> QED
      BY <2>2, <3>1 DEF ToldDate
  <2> QED
    BY <1>2, <2>1, <2>2
<1>7. DatesTold'
  BY <1>1, <1>2, <1>5, <1>6 DEF SkipInv, DatesTold
<1>8. ASSUME NEW v \in live \ hidden, NEW i \in 1 .. Len(rows),
             m_strLastID < Id(v), Id(v) <= Id(rows[i].visit)
      PROVE  \E j \in 1 .. Len(rows) : rows[j].visit = v
  BY <1>8 DEF SkipInv, RowsComplete
<1>9. /\ m_strLastID \in Int /\ m_strLastID < Id(first.visit)
      /\ \A i \in 1 .. Len(rows) : Id(rows[i].visit) \in Int
      /\ \A v \in live : Id(v) \in Int
      /\ \A i, j \in 1 .. Len(rows) : i < j => Id(rows[i].visit) < Id(rows[j].visit)
  BY <1>0, <1>3, RowsType, Numbers DEF TypeInv, TypeOK, OrderInv, RowsInOrder
<1>10. RowsComplete'
  <2> SUFFICES ASSUME NEW v \in live \ hidden, NEW i \in 1 .. Len(rows'),
                      Id(first.visit) < Id(v), Id(v) <= Id(rows'[i].visit)
               PROVE  \E j \in 1 .. Len(rows') : rows'[j].visit = v
    BY <1>1 DEF RowsComplete, Id
  <2>1. i + 1 \in 1 .. Len(rows) /\ rows'[i] = rows[i + 1]
    BY <1>1
  <2>2. m_strLastID < Id(v)
    BY <1>0, <1>3, <1>9
  <2>3. PICK j \in 1 .. Len(rows) : rows[j].visit = v
    BY <1>8, <2>1, <2>2
  <2>4. j # 1
    BY <1>0, <1>9, <2>3
  <2>5. j - 1 \in 1 .. Len(rows') /\ (j - 1) + 1 = j
    BY <1>1, <2>4
  <2>6. rows'[j - 1] = rows[j]
    BY <1>1, <2>5
  <2> QED
    BY <2>3, <2>5, <2>6
<1>11. NothingSkipped'
  <2> SUFFICES ASSUME m_bInit, NEW v \in live \ hidden, start < v, Id(v) <= Id(first.visit)
               PROVE  \/ \E i \in 1 .. Len(told') : told'[i].visit = v
                      \/ \E r \in skipped' : r.visit = v /\ ToldDate(r.date)'
    BY <1>1 DEF NothingSkipped, ToldDate, Id
  <2>1. CASE Id(v) <= m_strLastID
    <3>1. \/ \E i \in 1 .. Len(told) : told[i].visit = v
          \/ \E r \in skipped : r.visit = v /\ ToldDate(r.date)
      BY <2>1 DEF SkipInv, NothingSkipped, ToldDate
    <3> QED
      BY <3>1, <1>2, <1>4, <1>5
  <2>2. CASE m_strLastID < Id(v)
    <3>1. PICK j \in 1 .. Len(rows) : rows[j].visit = v
      BY <1>0, <1>3, <1>8, <2>2
    <3>2. j = 1
      BY <1>0, <1>3, <1>9, <3>1
    <3>3. first.visit = v
      BY <1>0, <3>1, <3>2
    <3>4. CASE Len(told') = Len(told) + 1 /\ told'[Len(told) + 1] = first
      <4>1. Len(told) + 1 \in 1 .. Len(told')
        BY <1>1, <3>4
      <4> QED
        BY <3>3, <3>4, <4>1
    <3>5. CASE skipped' = skipped \cup {first}
      BY <1>6, <3>3, <3>5
    <3> QED
      BY <1>2, <3>4, <3>5
  <2> QED
    BY <1>9, <2>1, <2>2
<1> QED
  BY <1>7, <1>10, <1>11 DEF SkipInv

LEMMA RestartSkip ==
  ASSUME Restart
  PROVE  SkipInv'
<1>1. /\ rows' = <<>> /\ skipped' = {} /\ Len(<<>>) = 0
      /\ strPreURL' = 0 /\ m_bInit' = FALSE
  BY DEF Restart
<1> QED
  BY <1>1 DEF SkipInv, DatesTold, RowsComplete, NothingSkipped

LEMMA SkipStep == TypeInv /\ OrderInv /\ SkipInv /\ [Next]_vars => SkipInv'
<1> SUFFICES ASSUME TypeInv, OrderInv, SkipInv, [Next]_vars PROVE SkipInv'
  OBVIOUS
<1>1. ASSUME NEW p \in Place, Visit(p) PROVE SkipInv'
  BY <1>1, VisitSkip
<1>2. CASE Delete \/ Tick \/ UNCHANGED vars
  <2>1. live' \subseteq live /\ UNCHANGED <<program, visits, hidden>>
    BY <1>2 DEF Delete, Tick, vars, browser
  <2> QED
    BY <2>1, FewerVisits
<1>3. CASE Initialize
  BY <1>3, InitializeSkip
<1>4. CASE UpdateURL
  BY <1>4, UpdateURLSkip
<1>5. CASE SendRow
  BY <1>5, SendRowSkip
<1>6. CASE Restart
  BY <1>6, RestartSkip
<1> QED
  BY <1>1, <1>2, <1>3, <1>4, <1>5, <1>6 DEF Next

(* The program moves past no visit without having handed it over, except one *)
(* whose date it told already and one whose id it had passed before: what is *)
(* between the rows of a query is among them, however much of the database a *)
(* copy lacks (WebHistory.cpp:171).                                          *)
THEOREM NothingIsSkipped == Spec => []NothingSkipped
<1>1. SkipInv => NothingSkipped
  BY DEF SkipInv
<1> QED
  BY <1>1, TypeInit, TypeStep, OrderInit, OrderStep, SkipInit, SkipStep, PTL DEF Spec

=============================================================================
