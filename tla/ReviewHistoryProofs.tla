------------------------ MODULE ReviewHistoryProofs ------------------------
(***************************************************************************)
(* A history read beside reviews and a delete is a bounded query: what     *)
(* BoundedQueryProofs says of every query holds of it.                     *)
(***************************************************************************)
EXTENDS ReviewHistory, BoundedQueryProofs, SequenceTheorems

IndexOK == index \subseteq Entry

\* No request and no reader changes the index, and DynamoDB lists records and
\* siblings only.
LEMMA HistoryStepIsAQueryStep ==
    IndexOK /\ [HistoryNext]_historyVars => IndexOK' /\ [QueryNext]_queryVars
<1> SUFFICES ASSUME IndexOK, [HistoryNext]_historyVars
             PROVE  IndexOK' /\ [QueryNext]_queryVars
  OBVIOUS
<1>1. CASE TableChanges \/ UNCHANGED historyVars
  BY <1>1 DEF TableChanges, historyVars, queryVars, IndexOK
<1>2. ASSUME NEW r \in Reader, ReceiveHistory(r) \/ HistoryStep(r)
      PROVE  IndexOK' /\ QueryNext
  <2>1. StartQuery(r) \/ ReadPage(r) \/ ReadLastPage(r) \/ EndQuery(r)
    BY <1>2 DEF ReceiveHistory, HistoryStep
  <2>2. index' = index
    BY <2>1 DEF StartQuery, ReadPage, ReadLastPage, EndQuery
  <2> QED
    BY <2>1, <2>2 DEF QueryNext, QueryStep, IndexOK
<1>3. CASE PropagateReview \/ SiblingChanges
  <2>1. PICK e \in Entry : IndexChanges(Toggle(e))
    BY <1>3, QueryAssumption, HistoryAssumption DEF PropagateReview, SiblingChanges, Sibling
  <2>2. Toggle(e) \in SUBSET Entry
    BY DEF Toggle, IndexOK
  <2> QED
    BY <2>1, <2>2 DEF QueryNext, IndexChanges, IndexOK
<1> QED
  BY <1>1, <1>2, <1>3 DEF HistoryNext

\* The card is read and its reviews are listed by steps of BoundedQuery, and
\* nothing that requests do to the table disturbs a query but through the index.
THEOREM HistoryIsABoundedQuery == HistorySpec => QuerySpec
<1>1. HistoryInit => IndexOK /\ QueryInit
  <2>1. Sibling \in SUBSET Entry
    BY DEF Sibling
  <2> QED
    BY <2>1 DEF HistoryInit, QueryInit, IndexOK
<1> QED
  BY <1>1, HistoryStepIsAQueryStep, PTL DEF HistorySpec, QuerySpec

\* A history that is answered has every review that the index listed from its
\* start to its end, and none twice, whatever reviews and deletes do meanwhile.
THEOREM HistoriesAreComplete == HistorySpec => []AnswerIsComplete
BY HistoryIsABoundedQuery, AnswersAreComplete, PTL

\* A history is refused only for a limit that it reaches.
THEOREM HistoryRefusalsAreDue == HistorySpec => []RefusalIsDue
BY HistoryIsABoundedQuery, RefusalsAreDue, PTL

----------------------------------------------------------------------------
(* Lists in order *)

StrictOrder(S, before) ==
    /\ \A i \in S : <<i, i>> \notin before
    /\ \A i, j, k \in S : <<i, j>> \in before /\ <<j, k>> \in before => <<i, k>> \in before
    /\ \A i, j \in S : i = j \/ <<i, j>> \in before \/ <<j, i>> \in before

Sorted(s, S, before) ==
    /\ s \in [1..Cardinality(S) -> S]
    /\ \A m, n \in 1..Cardinality(S) : m < n => <<s[m], s[n]>> \in before

\* An element with all that come before it.
Upto(S, before, i) == {j \in S : j = i \/ <<j, i>> \in before}

Place(S, before, i) == Cardinality(Upto(S, before, i))

LEMMA UptoIsFinite ==
  ASSUME NEW S, IsFiniteSet(S), NEW before, NEW i \in S
  PROVE  /\ IsFiniteSet(Upto(S, before, i)) /\ Upto(S, before, i) \in SUBSET S
         /\ Place(S, before, i) \in 1..Cardinality(S)
<1>1. Upto(S, before, i) \in SUBSET S /\ i \in Upto(S, before, i)
  BY DEF Upto
<1>2. /\ IsFiniteSet(Upto(S, before, i)) /\ Place(S, before, i) <= Cardinality(S)
  BY <1>1, FS_Subset DEF Place
<1>3. Place(S, before, i) \in Nat /\ Place(S, before, i) # 0 /\ Cardinality(S) \in Nat
  BY <1>1, <1>2, FS_CardinalityType, FS_EmptySet DEF Place
<1> QED BY <1>1, <1>2, <1>3

LEMMA PlacesDiffer ==
  ASSUME NEW S, IsFiniteSet(S), NEW before, StrictOrder(S, before),
         NEW i \in S, NEW j \in S, <<i, j>> \in before
  PROVE  Place(S, before, i) < Place(S, before, j)
<1>1. Upto(S, before, i) \in SUBSET Upto(S, before, j)
  BY Zenon DEF Upto, StrictOrder
<1>2. j \in Upto(S, before, j) /\ j \notin Upto(S, before, i)
  BY Zenon DEF Upto, StrictOrder
<1>3. /\ Place(S, before, i) <= Place(S, before, j)
      /\ Place(S, before, j) = Place(S, before, i) => Upto(S, before, j) = Upto(S, before, i)
  BY <1>1, UptoIsFinite, FS_Subset DEF Place
<1>4. Place(S, before, i) \in Nat /\ Place(S, before, j) \in Nat
  BY UptoIsFinite, FS_CardinalityType DEF Place
<1> QED BY <1>2, <1>3, <1>4

\* A finite set has a list in order: each element at its place.
LEMMA SortedExists ==
  ASSUME NEW S, IsFiniteSet(S), NEW before, StrictOrder(S, before)
  PROVE  \E s : Sorted(s, S, before)
<1> DEFINE place == [i \in S |-> Place(S, before, i)]
           N == Cardinality(S)
           s == [n \in 1..N |-> CHOOSE i \in S : place[i] = n]
<1>1. N \in Nat /\ IsFiniteSet(1..N) /\ Cardinality(1..N) = N
  BY FS_CardinalityType, FS_Interval
<1>2. place \in [S -> 1..N]
  BY UptoIsFinite
<1>3. \A i, j \in S : place[i] = place[j] => i = j
  <2> SUFFICES ASSUME NEW i \in S, NEW j \in S, place[i] = place[j], i # j PROVE FALSE
    OBVIOUS
  <2>1. place[i] < place[j] \/ place[j] < place[i]
    BY PlacesDiffer DEF StrictOrder
  <2>2. place[i] \in Nat /\ place[j] \in Nat
    BY <1>2
  <2> QED BY <2>1, <2>2
<1> HIDE DEF place
<1>4. place \in Injection(S, 1..N)
  BY <1>2, <1>3 DEF Injection, IsInjective
<1>5. place \in Surjection(S, 1..N)
  BY <1>1, <1>4, FS_Injection
<1>6. \A n \in 1..N : s[n] \in S /\ place[s[n]] = n
  BY <1>5 DEF Surjection
<1>7. ASSUME NEW m \in 1..N, NEW n \in 1..N, m < n PROVE <<s[m], s[n]>> \in before
  <2>1. /\ s[m] \in S /\ s[n] \in S /\ s[m] # s[n]
        /\ Place(S, before, s[m]) = m /\ Place(S, before, s[n]) = n
    BY <1>6, <1>7 DEF place
  <2>2. ~(n < m)
    BY <1>1, <1>7
  <2>3. <<s[n], s[m]>> \notin before
    BY <2>1, <2>2, PlacesDiffer
  <2> QED BY <2>1, <2>3 DEF StrictOrder
<1>8. s \in [1..N -> S]
  BY <1>6
<1> HIDE DEF s
<1> QED BY <1>7, <1>8 DEF Sorted

LEMMA InOrderIsSorted ==
  ASSUME NEW S, IsFiniteSet(S), NEW before, StrictOrder(S, before)
  PROVE  Sorted(InOrder(S, before), S, before)
BY SortedExists DEF InOrder, Sorted

\* A list in order has every element of the set, at its place.
LEMMA SortedHasAll ==
  ASSUME NEW S, IsFiniteSet(S), NEW before, StrictOrder(S, before),
         NEW s, Sorted(s, S, before)
  PROVE  /\ \A i \in S : \E n \in 1..Cardinality(S) : s[n] = i
         /\ \A n \in 1..Cardinality(S) : s[n] \in S /\ Place(S, before, s[n]) = n
<1> DEFINE N == Cardinality(S)
<1>1. N \in Nat /\ IsFiniteSet(1..N) /\ Cardinality(1..N) = N
  BY FS_CardinalityType, FS_Interval
<1>2. s \in [1..N -> S] /\ \A m, n \in 1..N : m < n => <<s[m], s[n]>> \in before
  BY DEF Sorted
<1>3. \A m, n \in 1..N : s[m] = s[n] => m = n
  <2> SUFFICES ASSUME NEW m \in 1..N, NEW n \in 1..N, s[m] = s[n], m # n PROVE FALSE
    OBVIOUS
  <2>1. m < n \/ n < m
    BY <1>1
  <2> QED BY <1>2, <2>1 DEF StrictOrder
<1>4. s \in Injection(1..N, S)
  BY <1>2, <1>3 DEF Injection, IsInjective
<1>5. s \in Surjection(1..N, S)
  BY <1>1, <1>4, FS_Injection
<1>6. ASSUME NEW n \in 1..N PROVE Place(S, before, s[n]) = n
  <2> DEFINE f == [m \in 1..n |-> s[m]]
             U == Upto(S, before, s[n])
  <2>1. f \in [1..n -> U]
    <3> SUFFICES ASSUME NEW m \in 1..n PROVE s[m] \in U
      OBVIOUS
    <3>1. m \in 1..N /\ (m = n \/ m < n)
      BY <1>1
    <3> QED BY <1>2, <3>1 DEF Upto
  <2>2. \A m, k \in 1..n : f[m] = f[k] => m = k
    BY <1>1, <1>3
  <2>3. ASSUME NEW i \in U PROVE \E m \in 1..n : f[m] = i
    <3>1. i \in S /\ (i = s[n] \/ <<i, s[n]>> \in before)
      BY DEF Upto
    <3>2. PICK m \in 1..N : s[m] = i
      BY <1>5, <3>1 DEF Surjection
    <3>3. CASE m > n
      <4>1. <<s[n], i>> \in before /\ s[n] \in S
        BY <1>1, <1>2, <3>2, <3>3
      <4> QED BY <3>1, <4>1 DEF StrictOrder
    <3>4. CASE m <= n
      <4>1. m \in 1..n
        BY <1>1, <3>4
      <4> QED BY <3>2, <4>1
    <3> QED BY <1>1, <3>3, <3>4
  <2> HIDE DEF f, U
  <2>4. f \in Bijection(1..n, U)
    BY <2>1, <2>2, <2>3 DEF Bijection, Injection, Surjection, IsInjective
  <2>5. IsFiniteSet(1..n) /\ Cardinality(1..n) = n
    BY <1>1, FS_Interval
  <2>6. Cardinality(U) = n
    BY <2>4, <2>5, FS_Bijection DEF ExistsBijection
  <2> QED BY <2>6 DEF U, Place
<1>7. \A n \in 1..N : s[n] \in S
  BY <1>2
<1>8. \A i \in S : \E n \in 1..N : s[n] = i
  BY <1>5 DEF Surjection
<1> QED BY <1>6, <1>7, <1>8

----------------------------------------------------------------------------
(* The table holds the first events of the log *)

LEMMA LoggedAppends ==
  ASSUME TableIsOfTheLog, TableChanges
  PROVE  /\ log' \in Seq(Event) /\ events' \in Seq(Event)
         /\ \A m, n \in 1..Len(log') : log'[m].id = log'[n].id => m = n
         /\ Len(events') <= Len(log') /\ \A n \in 1..Len(events') : events'[n] = log'[n]
         /\ phase' = "open" => events' = log'
         /\ Logged \subseteq Logged'
<1>t. /\ log \in Seq(Event) /\ events \in Seq(Event)
      /\ \A m, n \in 1..Len(log) : log[m].id = log[n].id => m = n
      /\ Len(events) <= Len(log) /\ \A n \in 1..Len(events) : events[n] = log[n]
      /\ phase = "open" => events = log
  BY DEF TableIsOfTheLog
<1>k. PICK k \in Nat, l \in Nat : k = Len(events) /\ l = Len(log)
  BY <1>t, LenProperties
<1>1. ASSUME NEW i \in RequestId, NEW g \in Rating, NEW x \in 0..MaxRevision, AppendEvent(i, g, x)
      PROVE  /\ log' \in Seq(Event) /\ events' = log' /\ Len(log') = l + 1
             /\ \A n \in 1..l : log'[n] = log[n]
             /\ log'[l + 1].id = i /\ \A n \in 1..l : log[n].id # i
  <2>e. PICK e : e = [id |-> i, rating |-> g]
    OBVIOUS
  <2>1. e \in Event /\ e = [id |-> i, rating |-> g] /\ e.id = i
    BY <2>e DEF Event
  <2>2. /\ events = log /\ k = l /\ events' = Append(log, e)
        /\ \A n \in 1..l : log[n].id # i
    BY <1>t, <1>k, <1>1, <2>1 DEF AppendEvent
  <2>3. /\ Append(log, e) \in Seq(Event) /\ Len(Append(log, e)) = l + 1
        /\ \A n \in 1..l : Append(log, e)[n] = log[n]
        /\ Append(log, e)[l + 1] = e
    BY <1>t, <1>k, <2>1, AppendProperties
  <2>4. log' = events'
    BY <1>k, <2>2, <2>3 DEF TableChanges
  <2> QED BY <2>1, <2>2, <2>3, <2>4
<1>2. CASE \E i \in RequestId, g \in Rating, x \in 0..MaxRevision : AppendEvent(i, g, x)
  <2>1. PICK i \in RequestId, g \in Rating, x \in 0..MaxRevision : AppendEvent(i, g, x)
    BY <1>2
  <2>2. /\ log' \in Seq(Event) /\ events' = log' /\ Len(log') = l + 1
        /\ \A n \in 1..l : log'[n] = log[n]
        /\ log'[l + 1].id = i /\ \A n \in 1..l : log[n].id # i
    BY <1>1, <2>1
  <2>3. \A m, n \in 1..(l + 1) : log'[m].id = log'[n].id => m = n
    <3> SUFFICES ASSUME NEW m \in 1..(l + 1), NEW n \in 1..(l + 1), log'[m].id = log'[n].id
                 PROVE  m = n
      OBVIOUS
    <3>1. (m \in 1..l \/ m = l + 1) /\ (n \in 1..l \/ n = l + 1)
      BY <1>k
    <3> QED BY <1>t, <1>k, <2>2, <3>1
  <2>4. Logged \subseteq Logged'
    <3> SUFFICES ASSUME NEW n \in 1..l PROVE log[n].id \in Logged'
      BY <1>k DEF Logged
    <3>1. n \in 1..Len(log') /\ log'[n].id = log[n].id
      BY <1>k, <2>2
    <3> QED BY <3>1 DEF Logged
  <2> QED BY <1>k, <2>2, <2>3, <2>4
<1>3. CASE Close \/ DropNewest \/ Remove
  <2>1. phase' # "open"
    BY <1>3 DEF Close, DropNewest, Remove
  <2>2. /\ events' \in Seq(Event) /\ Len(events') \in Nat /\ Len(events') <= k
        /\ \A n \in 1..Len(events') : n \in 1..k /\ events'[n] = events[n]
    <3>1. CASE Close \/ Remove
      BY <1>t, <1>k, <3>1 DEF Close, Remove
    <3>2. CASE DropNewest
      <4>1. events' = SubSeq(events, 1, k - 1) /\ k # 0
        BY <1>t, <1>k, <3>2, EmptySeq DEF DropNewest
      <4>2. \A n \in 1..(k - 1) : events[n] \in Event
        BY <1>t, <1>k, ElementOfSeq
      <4>3. /\ SubSeq(events, 1, k - 1) \in Seq(Event)
            /\ Len(SubSeq(events, 1, k - 1)) = IF 1 <= k - 1 THEN (k - 1) - 1 + 1 ELSE 0
            /\ \A n \in 1..((k - 1) - 1 + 1) : SubSeq(events, 1, k - 1)[n] = events[1 + n - 1]
        BY <1>k, <4>2, SubSeqProperties
      <4>4. Len(SubSeq(events, 1, k - 1)) = k - 1
        BY <1>k, <4>1, <4>3
      <4> QED BY <1>k, <4>1, <4>3, <4>4
    <3> QED BY <1>3, <3>1, <3>2
  <2>3. log' = log
    BY <1>k, <2>2 DEF TableChanges
  <2> QED BY <1>t, <1>k, <2>1, <2>2, <2>3 DEF Logged
<1> QED BY <1>2, <1>3 DEF TableChanges, LogNext

\* A query has seen what the index listed when it began, and goes on with what
\* it has seen.
LEMMA SeenIsKept ==
  ASSUME QueryInductive, NEW r \in Reader, ReceiveHistory(r) \/ HistoryStep(r)
  PROVE  /\ UNCHANGED <<index, log, events, phase>>
         /\ \A v \in Reader : q'[v].pc \in {"reading", "answered"} =>
              \/ q'[v].ever = index
              \/ q[v].pc \in {"reading", "answered"} /\ q'[v].ever = q[v].ever
<1>t. q \in [Reader -> QueryLocal]
  BY DEF QueryInductive, QueryTypeOK
<1>1. UNCHANGED <<index, log, events, phase>>
  BY DEF ReceiveHistory, HistoryStep, StartQuery, ReadPage, ReadLastPage, EndQuery, logVars
<1> DEFINE Known(s) == s.pc \in {"reading", "answered"} =>
                         \/ s.ever = index
                         \/ q[r].pc \in {"reading", "answered"} /\ s.ever = q[r].ever
<1>2. ASSUME NEW s, q' = [q EXCEPT ![r] = s], Known(s)
      PROVE  \A v \in Reader : q'[v].pc \in {"reading", "answered"} =>
               \/ q'[v].ever = index
               \/ q[v].pc \in {"reading", "answered"} /\ q'[v].ever = q[v].ever
  <2> SUFFICES ASSUME NEW v \in Reader, q'[v].pc \in {"reading", "answered"}
               PROVE  \/ q'[v].ever = index
                      \/ q[v].pc \in {"reading", "answered"} /\ q'[v].ever = q[v].ever
    OBVIOUS
  <2>1. CASE v = r
    <3>1. q'[v] = s
      BY <1>t, <1>2, <2>1
    <3> QED BY <1>2, <2>1, <3>1
  <2>2. CASE v # r
    <3>1. q'[v] = q[v]
      BY <1>t, <1>2, <2>2
    <3> QED BY <3>1
  <2> QED BY <2>1, <2>2
<1>3. CASE ReceiveHistory(r)
  <2>1. PICK s : s = [IdleQuery EXCEPT !.pc = "reading", !.bytes = EmptyArray,
                                       !.always = index, !.ever = index]
    OBVIOUS
  <2>2. s.ever = index
    BY <2>1 DEF IdleQuery
  <2>3. q' = [q EXCEPT ![r] = s]
    BY <1>3, <2>1 DEF ReceiveHistory, StartQuery
  <2> HIDE DEF Known
  <2>4. Known(s)
    BY <2>2 DEF Known
  <2> QED BY <1>1, <1>2, <2>3, <2>4
<1>4. CASE EndQuery(r)
  <2>1. q' = [q EXCEPT ![r] = IdleQuery] /\ IdleQuery.pc = "idle"
    BY <1>4 DEF EndQuery, IdleQuery
  <2>2. Known(IdleQuery)
    BY <2>1
  <2> QED BY <1>1, <1>2, <2>1, <2>2
<1>5. ASSUME NEW page \in SUBSET Rest(r), NEW c, c = Collected(r, page \cap Wanted), Reading(r),
             \/ q' = Refuse(r) \/ q' = Answer(r, c) \/ \E last : q' = Continue(r, c, last)
      PROVE  \E s : q' = [q EXCEPT ![r] = s] /\ Known(s)
  <2>1. c \in QueryLocal /\ c.ever = q[r].ever /\ q[r].pc = "reading"
    BY <1>5, PageIsCollected DEF Reading
  <2>2. CASE q' = Refuse(r)
    <3>1. PICK l, s : l = q[r] /\ l \in QueryLocal /\ s = [l EXCEPT !.pc = "refused"]
      BY <1>t
    <3>2. s.pc = "refused"
      BY <3>1 DEF QueryLocal
    <3>3. q' = [q EXCEPT ![r] = s]
      BY <1>t, <2>2, <3>1 DEF Refuse
    <3> QED BY <3>2, <3>3
  <2>3. CASE q' = Answer(r, c)
    <3>1. PICK s : s = [c EXCEPT !.pc = "answered"]
      OBVIOUS
    <3>2. s.ever = c.ever
      BY <2>1, <3>1 DEF QueryLocal
    <3>3. q' = [q EXCEPT ![r] = s]
      BY <2>3, <3>1 DEF Answer
    <3> QED BY <2>1, <3>2, <3>3
  <2>4. CASE \E last : q' = Continue(r, c, last)
    <3>1. PICK last : q' = Continue(r, c, last)
      BY <2>4
    <3>2. PICK p, x, s : /\ q' = [q EXCEPT ![r] = s]
                         /\ s = [c EXCEPT !.pc = p, !.start = x]
      BY <3>1, Zenon DEF Continue
    <3>3. s.ever = c.ever
      BY <2>1, <3>2 DEF QueryLocal
    <3> QED BY <2>1, <3>2, <3>3
  <2> QED BY <1>5, <2>2, <2>3, <2>4
<1>6. CASE ReadPage(r) \/ ReadLastPage(r)
  <2>1. PICK page \in SUBSET Rest(r) :
          LET c == Collected(r, page \cap Wanted) IN
          q' = Refuse(r) \/ q' = Answer(r, c) \/ \E last : q' = Continue(r, c, last)
    <3>1. \A last : Page(r, last) \in SUBSET Rest(r)
      BY DEF Page
    <3>2. Rest(r) \in SUBSET Rest(r)
      OBVIOUS
    <3>3. CASE ReadPage(r)
      <4>1. PICK last \in Rest(r) :
              q' = IF TooLarge(Collected(r, Page(r, last) \cap Wanted)) THEN Refuse(r)
                   ELSE Continue(r, Collected(r, Page(r, last) \cap Wanted), last)
        BY <3>3 DEF ReadPage
      <4> QED BY <3>1, <4>1, Zenon
    <3>4. CASE ReadLastPage(r)
      <4>1. q' = IF TooLarge(Collected(r, Rest(r) \cap Wanted)) THEN Refuse(r)
                 ELSE Answer(r, Collected(r, Rest(r) \cap Wanted))
        BY <3>4 DEF ReadLastPage
      <4> QED BY <3>2, <4>1, Zenon
    <3> QED BY <1>6, <3>3, <3>4
  <2>2. Reading(r)
    BY <1>6 DEF ReadPage, ReadLastPage
  <2> HIDE DEF Known
  <2>3. \E s : q' = [q EXCEPT ![r] = s] /\ Known(s)
    BY <1>5, <2>1, <2>2
  <2> QED BY <1>1, <1>2, <2>3
<1> QED BY <1>3, <1>4, <1>6 DEF HistoryStep

LEMMA TableStaysOfTheLog ==
  TableIsOfTheLog /\ QueryInductive /\ [HistoryNext]_historyVars => TableIsOfTheLog'
<1> SUFFICES ASSUME TableIsOfTheLog, QueryInductive, [HistoryNext]_historyVars
             PROVE  TableIsOfTheLog'
  OBVIOUS
<1>t. Wanted = RequestId /\ q \in [Reader -> QueryLocal]
  BY HistoryAssumption DEF QueryInductive, QueryTypeOK
<1>1. CASE UNCHANGED historyVars
  BY <1>1 DEF historyVars, logVars, queryVars, TableIsOfTheLog, Logged
<1>2. CASE TableChanges
  <2>1. /\ log' \in Seq(Event) /\ events' \in Seq(Event)
        /\ \A m, n \in 1..Len(log') : log'[m].id = log'[n].id => m = n
        /\ Len(events') <= Len(log') /\ \A n \in 1..Len(events') : events'[n] = log'[n]
        /\ phase' = "open" => events' = log'
        /\ Logged \subseteq Logged'
    BY <1>2, LoggedAppends
  <2>2. index' = index /\ q' = q
    BY <1>2 DEF TableChanges, queryVars
  <2>3. /\ index \cap Wanted \subseteq Logged
        /\ \A r \in Reader : q[r].pc \in {"reading", "answered"} =>
              q[r].ever \cap Wanted \subseteq Logged
    BY DEF TableIsOfTheLog
  <2>4. /\ index' \cap Wanted \subseteq Logged'
        /\ \A r \in Reader : q'[r].pc \in {"reading", "answered"} =>
              q'[r].ever \cap Wanted \subseteq Logged'
    BY <2>1, <2>2, <2>3
  <2> QED BY <2>1, <2>4 DEF TableIsOfTheLog
<1>3. ASSUME UNCHANGED <<log, events, phase>>,
             index' \cap Wanted \subseteq Logged,
             \A r \in Reader : q'[r].pc \in {"reading", "answered"} =>
                q'[r].ever \cap Wanted \subseteq Logged
      PROVE  TableIsOfTheLog'
  BY <1>3 DEF TableIsOfTheLog, Logged
<1>4. ASSUME NEW r \in Reader, ReceiveHistory(r) \/ HistoryStep(r)
      PROVE  TableIsOfTheLog'
  <2>1. /\ UNCHANGED <<index, log, events, phase>>
        /\ \A v \in Reader : q'[v].pc \in {"reading", "answered"} =>
              \/ q'[v].ever = index
              \/ q[v].pc \in {"reading", "answered"} /\ q'[v].ever = q[v].ever
    BY <1>4, SeenIsKept
  <2>2. /\ index' \cap Wanted \subseteq Logged
        /\ \A v \in Reader : q'[v].pc \in {"reading", "answered"} =>
              q'[v].ever \cap Wanted \subseteq Logged
    BY <2>1 DEF TableIsOfTheLog
  <2> QED BY <1>3, <2>1, <2>2
<1>5. ASSUME NEW e \in Entry, IndexChanges(Toggle(e)), UNCHANGED <<log, events, phase>>,
             e \in Wanted /\ e \notin index => e \in Logged
      PROVE  TableIsOfTheLog'
  <2>1. /\ index' = Toggle(e)
        /\ q' = [r \in Reader |->
                   IF Reading(r) THEN [q[r] EXCEPT !.always = @ \cap Toggle(e),
                                                   !.ever = @ \cup Toggle(e)]
                   ELSE q[r]]
    BY <1>5 DEF IndexChanges, Observe
  <2>2. Toggle(e) \cap Wanted \subseteq Logged
    BY <1>5 DEF Toggle, TableIsOfTheLog
  <2>3. ASSUME NEW r \in Reader, q'[r].pc \in {"reading", "answered"}
        PROVE  q'[r].ever \cap Wanted \subseteq Logged
    <3>1. PICK l \in QueryLocal : l = q[r]
      BY <1>t
    <3>2. CASE Reading(r)
      <4>1. PICK s : s = [l EXCEPT !.always = l.always \cap Toggle(e),
                                   !.ever = l.ever \cup Toggle(e)]
        OBVIOUS
      <4>2. q'[r] = s
        BY <2>1, <3>1, <3>2, <4>1
      <4>3. s.ever = l.ever \cup Toggle(e)
        BY <4>1 DEF QueryLocal
      <4>4. l.ever \cap Wanted \subseteq Logged
        BY <3>1, <3>2 DEF TableIsOfTheLog, Reading
      <4> QED BY <2>2, <4>2, <4>3, <4>4
    <3>3. CASE ~Reading(r)
      <4>1. q'[r] = q[r]
        BY <2>1, <3>3
      <4> QED BY <2>3, <4>1 DEF TableIsOfTheLog
    <3> QED BY <3>2, <3>3
  <2> QED BY <1>3, <1>5, <2>1, <2>2, <2>3
<1>6. CASE PropagateReview
  <2>1. PICK i \in RequestId :
          /\ (\E n \in 1..Len(events) : events[n].id = i) <=> i \notin index
          /\ IndexChanges(Toggle(i)) /\ UNCHANGED <<log, events, phase>>
    BY <1>6 DEF PropagateReview, logVars
  <2>2. ASSUME i \notin index PROVE i \in Logged
    <3>1. PICK n \in 1..Len(events) : events[n].id = i
      BY <2>1, <2>2
    <3>2. n \in 1..Len(log) /\ log[n] = events[n]
      BY LenProperties DEF TableIsOfTheLog
    <3> QED BY <3>1, <3>2 DEF Logged
  <2>3. i \in Entry
    BY <1>t, QueryAssumption
  <2> QED BY <1>5, <2>1, <2>2, <2>3
<1>7. CASE SiblingChanges
  <2>1. PICK s \in Sibling : IndexChanges(Toggle(s)) /\ UNCHANGED <<log, events, phase>>
    BY <1>7 DEF SiblingChanges, logVars
  <2> QED BY <1>5, <2>1 DEF Sibling
<1> QED BY <1>1, <1>2, <1>4, <1>6, <1>7 DEF HistoryNext

----------------------------------------------------------------------------
(* A history is the log in order *)

LEMMA RevisionsNumberTheLog ==
  ASSUME TableIsOfTheLog
  PROVE  /\ \A n \in 1..Len(log) : Revision(log[n].id) = n
         /\ \A i \in Logged : Revision(i) \in 1..Len(log) /\ log[Revision(i)].id = i
<1>1. \A m, n \in 1..Len(log) : log[m].id = log[n].id => m = n
  BY DEF TableIsOfTheLog
<1>2. \A n \in 1..Len(log) : Revision(log[n].id) = n
  BY <1>1 DEF Revision
<1> QED BY <1>2 DEF Logged

LEMMA RevisionsAreAnOrder ==
  ASSUME TableIsOfTheLog, NEW S \in SUBSET Logged, S \subseteq RequestId
  PROVE  StrictOrder(S, ByRevision(S)) /\ StrictOrder(S, ByTime(S))
<1>1. \A i \in S : /\ Revision(i) \in Nat /\ Clock[i] \in Nat
                   /\ \A j \in S : Revision(i) = Revision(j) => i = j
  <2>1. Len(log) \in Nat
    BY LenProperties DEF TableIsOfTheLog
  <2>2. \A i \in S : Revision(i) \in 1..Len(log) /\ log[Revision(i)].id = i
    BY RevisionsNumberTheLog
  <2> QED BY <2>1, <2>2, HistoryAssumption
<1>2. \A i, j \in S : <<i, j>> \in ByRevision(S) <=> Revision(i) < Revision(j)
  BY DEF ByRevision
<1>3. StrictOrder(S, ByRevision(S))
  BY <1>1, <1>2 DEF StrictOrder
<1>4. \A i, j \in S : <<i, j>> \in ByTime(S) <=>
                        \/ Clock[i] < Clock[j]
                        \/ Clock[i] = Clock[j] /\ Revision(i) < Revision(j)
  BY DEF ByTime, Earlier
<1>5. StrictOrder(S, ByTime(S))
  <2>1. \A i \in S : <<i, i>> \notin ByTime(S)
    BY <1>1, <1>4
  <2>2. \A i, j, k \in S : <<i, j>> \in ByTime(S) /\ <<j, k>> \in ByTime(S) => <<i, k>> \in ByTime(S)
    BY <1>1, <1>4
  <2>3. ASSUME NEW i \in S, NEW j \in S, i # j
        PROVE  <<i, j>> \in ByTime(S) \/ <<j, i>> \in ByTime(S)
    <3>1. Revision(i) # Revision(j)
      BY <1>1, <2>3
    <3>2. PICK c \in Nat, d \in Nat, x \in Nat, y \in Nat :
            c = Clock[i] /\ d = Clock[j] /\ x = Revision(i) /\ y = Revision(j)
      BY <1>1
    <3>3. c < d \/ d < c \/ (c = d /\ x < y) \/ (d = c /\ y < x)
      BY <3>1, <3>2
    <3> QED BY <1>4, <3>2, <3>3
  <2> QED BY <2>1, <2>2, <2>3 DEF StrictOrder
<1> QED BY <1>3, <1>5

LEMMA SortedLength ==
  ASSUME NEW S, IsFiniteSet(S), NEW before, NEW s, Sorted(s, S, before)
  PROVE  Len(s) = Cardinality(S) /\ Cardinality(S) \in Nat
<1>1. s \in [1..Cardinality(S) -> S] /\ Cardinality(S) \in Nat
  BY FS_CardinalityType DEF Sorted
<1>2. s \in Seq(S)
  BY <1>1, SeqDef
<1> QED BY <1>1, <1>2, LenProperties

\* Sorting by time first does not matter to what History answers.
LEMMA HistoryIsSorted ==
  ASSUME TableIsOfTheLog, QueryInductive, NEW r \in Reader, q[r].pc = "answered"
  PROVE  /\ q[r].items \subseteq Logged /\ q[r].items \subseteq RequestId
         /\ IsFiniteSet(q[r].items)
         /\ Sorted(History(r), q[r].items, ByRevision(q[r].items))
<1> DEFINE S == q[r].items
           time == ListReviews(r)
           reviews == {time[n] : n \in 1..Len(time)}
<1>1. S \in SUBSET Wanted /\ S \subseteq q[r].ever /\ Wanted = RequestId
  BY HistoryAssumption DEF QueryInductive, QueryTypeOK, QueryLocal, AnswerIsComplete
<1>2. S \subseteq Logged
  BY <1>1 DEF TableIsOfTheLog
<1>3. IsFiniteSet(S)
  BY <1>1, EntriesAreFinite, QueryAssumption
<1>4. StrictOrder(S, ByTime(S)) /\ StrictOrder(S, ByRevision(S))
  BY <1>1, <1>2, RevisionsAreAnOrder
<1>5. Sorted(time, S, ByTime(S))
  BY <1>3, <1>4, InOrderIsSorted DEF ListReviews
<1> HIDE DEF time
<1>6. reviews = S
  <2>1. Len(time) = Cardinality(S)
    BY <1>3, <1>5, SortedLength
  <2>2. /\ \A i \in S : \E n \in 1..Len(time) : time[n] = i
        /\ \A n \in 1..Len(time) : time[n] \in S
    BY <1>3, <1>4, <1>5, <2>1, SortedHasAll
  <2> QED BY <2>2
<1>7. History(r) = InOrder(S, ByRevision(S))
  BY <1>6 DEF History, time
<1> QED BY <1>1, <1>2, <1>3, <1>4, <1>7, InOrderIsSorted

\* The k-th event of the log has the k - 1 before it in front of it.
LEMMA PlaceIsRevision ==
  ASSUME TableIsOfTheLog, NEW S \in SUBSET Logged, S \subseteq RequestId, IsFiniteSet(S),
         NEW i \in 1..Len(log), \A j \in 1..i : log[j].id \in S
  PROVE  Place(S, ByRevision(S), log[i].id) = i
<1> DEFINE U == Upto(S, ByRevision(S), log[i].id)
           f == [j \in 1..i |-> log[j].id]
<1>k. PICK k \in Nat : k = Len(log)
  BY LenProperties DEF TableIsOfTheLog
<1>1. \A j \in 1..i : j \in 1..k /\ Revision(log[j].id) = j
  BY <1>k, RevisionsNumberTheLog
<1>2. i \in 1..i
  BY <1>k
<1>3. ASSUME NEW j \in 1..i PROVE log[j].id \in U
  <2>1. j = i \/ j < i
    BY <1>k
  <2>2. log[j].id \in S /\ log[i].id \in S
    BY <1>2
  <2>3. Revision(log[j].id) = j /\ Revision(log[i].id) = i
    BY <1>1, <1>2
  <2> QED BY <2>1, <2>2, <2>3 DEF Upto, ByRevision
<1>4. ASSUME NEW e \in U PROVE \E j \in 1..i : log[j].id = e
  <2>1. e \in S /\ (e = log[i].id \/ Revision(e) < Revision(log[i].id))
    BY DEF Upto, ByRevision
  <2>2. Revision(e) \in 1..k /\ log[Revision(e)].id = e
    BY <1>k, <2>1, RevisionsNumberTheLog
  <2>3. Revision(log[i].id) = i
    BY <1>1, <1>2
  <2>4. Revision(e) \in 1..i
    BY <1>k, <2>1, <2>2, <2>3
  <2> QED BY <2>2, <2>4
<1>5. f \in [1..i -> U]
  BY <1>3
<1>6. \A j, m \in 1..i : f[j] = f[m] => j = m
  <2> SUFFICES ASSUME NEW j \in 1..i, NEW m \in 1..i, log[j].id = log[m].id PROVE j = m
    OBVIOUS
  <2> QED BY <1>1
<1>7. \A e \in U : \E j \in 1..i : f[j] = e
  BY <1>4
<1> HIDE DEF f, U
<1>8. f \in Bijection(1..i, U)
  BY <1>5, <1>6, <1>7 DEF Bijection, Injection, Surjection, IsInjective
<1>9. IsFiniteSet(1..i) /\ Cardinality(1..i) = i
  BY <1>k, FS_Interval
<1> QED BY <1>8, <1>9, FS_Bijection DEF ExistsBijection, U, Place

LEMMA HistoryFollows == TableIsOfTheLog /\ QueryInductive => HistoryFollowsTheLog
<1> SUFFICES ASSUME TableIsOfTheLog, QueryInductive, NEW r \in Reader, q[r].pc = "answered"
             PROVE  LET history == History(r) IN
                    /\ \A m, n \in 1..Len(history) :
                          m < n => Revision(history[m]) < Revision(history[n])
                    /\ \A k \in 1..Len(log) :
                          {log[i].id : i \in 1..k} \subseteq q[r].always =>
                             k <= Len(history) /\ \A i \in 1..k : history[i] = log[i].id
  BY DEF HistoryFollowsTheLog
<1> DEFINE S == q[r].items
           h == History(r)
           b == ByRevision(S)
<1>1. S \subseteq Logged /\ S \subseteq RequestId /\ IsFiniteSet(S) /\ Sorted(h, S, b)
  BY HistoryIsSorted
<1>2. StrictOrder(S, b)
  BY <1>1, RevisionsAreAnOrder
<1>3. Len(h) = Cardinality(S) /\ Len(h) \in Nat
  BY <1>1, SortedLength
<1>4. \A m, n \in 1..Len(h) : m < n => Revision(h[m]) < Revision(h[n])
  BY <1>1, <1>3 DEF Sorted, ByRevision
<1>5. ASSUME NEW k \in 1..Len(log), {log[i].id : i \in 1..k} \subseteq q[r].always
      PROVE  k <= Len(h) /\ \A i \in 1..k : h[i] = log[i].id
  <2>l. PICK l \in Nat : l = Len(log)
    BY LenProperties DEF TableIsOfTheLog
  <2>1. \A i \in 1..k : i \in 1..Len(log) /\ log[i].id \in S
    <3>1. \A i \in 1..k : log[i].id \in RequestId
      <4> SUFFICES ASSUME NEW i \in 1..k PROVE log[i].id \in RequestId
        OBVIOUS
      <4>1. log \in Seq(Event) /\ i \in 1..Len(log)
        BY <2>l DEF TableIsOfTheLog
      <4>2. log[i] \in Event
        BY <4>1, ElementOfSeq
      <4> QED BY <4>2 DEF Event
    <3>2. q[r].always \cap Wanted \subseteq S /\ Wanted = RequestId
      BY HistoryAssumption DEF QueryInductive, AnswerIsComplete
    <3> QED BY <1>5, <2>l, <3>1, <3>2
  <2>2. ASSUME NEW i \in 1..k PROVE i <= Len(h) /\ h[i] = log[i].id
    <3>1. Place(S, b, log[i].id) = i
      <4>1. \A j \in 1..i : log[j].id \in S
        BY <2>l, <2>1
      <4> QED BY <1>1, <2>1, <4>1, PlaceIsRevision
    <3>2. PICK n \in 1..Len(h) : h[n] = log[i].id
      BY <1>1, <1>2, <1>3, <2>1, SortedHasAll
    <3>3. Place(S, b, h[n]) = n
      BY <1>1, <1>2, <1>3, SortedHasAll
    <3> QED BY <1>3, <3>1, <3>2, <3>3
  <2>3. k \in 1..k
    BY <2>l
  <2> QED BY <2>2, <2>3
<1> QED BY <1>4, <1>5

LEMMA TableStarts == HistoryInit => TableIsOfTheLog
<1> SUFFICES ASSUME HistoryInit PROVE TableIsOfTheLog
  OBVIOUS
<1>1. /\ log = <<>> /\ events = <<>> /\ index \cap Wanted = {}
      /\ \A r \in Reader : q[r].pc = "idle"
  BY DEF HistoryInit, LogInit, Sibling, IdleQuery
<1>2. log \in Seq(Event) /\ events \in Seq(Event) /\ Len(log) = 0 /\ Len(events) = 0
  BY <1>1, EmptySeq
<1> QED BY <1>1, <1>2 DEF TableIsOfTheLog

\* A history is answered in revision order whatever the clocks of the reviews
\* said, and follows the log: reviews that the index listed throughout and that
\* are the first of the log are the first of the answer, with no gap.
THEOREM HistoriesFollowTheLog == HistorySpec => []HistoryFollowsTheLog
<1>1. HistorySpec => []QueryInductive
  BY HistoryIsABoundedQuery, QueriesAreInductive, PTL
<1>2. HistorySpec => []TableIsOfTheLog
  BY <1>1, TableStarts, TableStaysOfTheLog, PTL DEF HistorySpec
<1> QED BY <1>1, <1>2, HistoryFollows, PTL

=============================================================================
