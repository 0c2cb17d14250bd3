------------------------ MODULE BoundedQueryProofs ------------------------
(***************************************************************************)
(* Whatever the order and the sizes of the entries, the limits, and the    *)
(* changes of the index between two pages: a list that is answered is      *)
(* complete, and one that is refused has reached a limit.                  *)
(***************************************************************************)
EXTENDS BoundedQuery, FiniteSetTheorems, TLAPS

----------------------------------------------------------------------------
(* Finite sets of entries, and their sizes *)

LEMMA EntriesAreFinite ==
    ASSUME NEW s \in SUBSET Entry
    PROVE  IsFiniteSet(s) /\ Cardinality(s) \in Nat
BY FS_Subset, FS_CardinalityType, QueryAssumption

LEMMA NothingHasNoSize == Size[{}] = 0
<1>1. {} \in SUBSET Wanted /\ {} \cap {} = {} /\ {} \cup {} = {}
  OBVIOUS
<1>2. Size[{}] \in Nat /\ Size[{}] = Size[{}] + Size[{}]
  BY <1>1, QueryAssumption
<1>3. \A n \in Nat : n = n + n => n = 0
  OBVIOUS
<1> QED
  BY <1>2, <1>3

\* Entries that lie behind those collected add to their number and size.
LEMMA CollectMore ==
    ASSUME NEW items \in SUBSET Wanted, NEW found \in SUBSET Wanted, items \cap found = {}
    PROVE  /\ Cardinality(items \cup found) = Cardinality(items) + Cardinality(found)
           /\ Size[items \cup found] = Size[items] + Size[found]
<1>1. items \in SUBSET Entry /\ found \in SUBSET Entry
  BY QueryAssumption
<1>2. /\ IsFiniteSet(items) /\ Cardinality(items) \in Nat
      /\ IsFiniteSet(found) /\ Cardinality(found) \in Nat
  BY <1>1, EntriesAreFinite
<1>3. Cardinality(items \cup found)
        = Cardinality(items) + Cardinality(found) - Cardinality(items \cap found)
  BY <1>2, FS_Union
<1>4. Cardinality(items \cap found) = 0
  BY FS_EmptySet
<1>5. Size[items \cup found] = Size[items] + Size[found]
  BY QueryAssumption
<1> QED
  BY <1>2, <1>3, <1>4, <1>5

LEMMA MoreIsLarger ==
    ASSUME NEW t \in SUBSET Wanted, NEW s \in SUBSET t
    PROVE  Cardinality(s) <= Cardinality(t) /\ Size[s] <= Size[t]
<1>1. t \in SUBSET Entry
  BY QueryAssumption
<1>2. Cardinality(s) <= Cardinality(t)
  BY <1>1, EntriesAreFinite, FS_Subset
<1>3. s \in SUBSET Wanted /\ t \ s \in SUBSET Wanted /\ s \cap (t \ s) = {} /\ s \cup (t \ s) = t
  OBVIOUS
<1>4. Size[t] = Size[s] + Size[t \ s] /\ Size[s] \in Nat /\ Size[t \ s] \in Nat
  BY <1>3, QueryAssumption
<1> QED
  BY <1>2, <1>4

----------------------------------------------------------------------------
(* The invariant *)

LEMMA InitInductive == QueryInit => QueryInductive
<1> SUFFICES ASSUME QueryInit PROVE QueryInductive
  OBVIOUS
<1>1. IdleQuery \in QueryLocal /\ IdleQuery.pc = "idle"
  BY DEF IdleQuery, QueryLocal, QueryPc
<1>2. \A r \in Reader : q[r] = IdleQuery
  BY DEF QueryInit
<1>3. QueryTypeOK
  BY <1>1 DEF QueryInit, QueryTypeOK
<1> QED
  BY <1>1, <1>2, <1>3 DEF QueryInductive, AnswerIsComplete, RefusalIsDue, Collects

\* What the invariant says of one query.
Sound(s) ==
    /\ s.pc = "answered" =>
         /\ s.always \cap Wanted \subseteq s.items /\ s.items \subseteq s.ever
         /\ s.length = Cardinality(s.items) /\ s.length <= maxResultItems
    /\ s.pc = "refused" =>
         \/ Cardinality(s.ever \cap Wanted) > maxResultItems
         \/ EmptyArray + Size[s.ever \cap Wanted] > MaxResultBytes
         \/ Cardinality(s.ever) >= maxQueryPages

LEMMA InductiveByQuery ==
    QueryInductive <=>
        /\ index \subseteq Entry /\ q \in [Reader -> QueryLocal]
        /\ \A r \in Reader : Sound(q[r]) /\ Collects(q[r], index)
BY DEF QueryInductive, QueryTypeOK, AnswerIsComplete, RefusalIsDue, Sound

\* A step of one query is looked at on its own.
LEMMA OneQueryMoves ==
    ASSUME QueryInductive, NEW r \in Reader, NEW s \in QueryLocal,
           q' = [q EXCEPT ![r] = s], index' = index,
           Sound(s), Collects(s, index)
    PROVE  QueryInductive'
<1>1. q \in [Reader -> QueryLocal] /\ index \subseteq Entry
  BY InductiveByQuery
<1>2. q' \in [Reader -> QueryLocal] /\ index' \subseteq Entry
  BY <1>1
<1>3. \A p \in Reader : Sound(q'[p]) /\ Collects(q'[p], index')
  <2> TAKE p \in Reader
  <2>1. Sound(q[p]) /\ Collects(q[p], index)
    BY InductiveByQuery
  <2>2. q'[p] = IF p = r THEN s ELSE q[p]
    BY <1>1
  <2> QED
    BY <2>1, <2>2
<1>4. /\ AnswerIsComplete' /\ RefusalIsDue'
  BY <1>3 DEF AnswerIsComplete, RefusalIsDue, Sound
<1> QED
  BY <1>2, <1>3, <1>4 DEF QueryInductive, QueryTypeOK

LEMMA StartKeeps ==
    ASSUME QueryInductive, NEW r \in Reader, StartQuery(r)
    PROVE  QueryInductive'
<1> DEFINE s == [IdleQuery EXCEPT !.pc = "reading", !.bytes = EmptyArray,
                                  !.always = index, !.ever = index]
<1>1. index \subseteq Entry /\ Position \in [Entry -> Nat \ {0}]
  BY InductiveByQuery, QueryAssumption
<1>2. s \in QueryLocal
  BY <1>1 DEF IdleQuery, QueryLocal, QueryPc, EmptyArray
<1>3. /\ s.pc = "reading" /\ s.items = {} /\ s.length = 0 /\ s.bytes = EmptyArray
      /\ s.start = 0 /\ s.pageNumber = 0 /\ s.always = index /\ s.ever = index
  BY DEF IdleQuery
<1>4. Sound(s)
  BY <1>3 DEF Sound
<1>5. Collects(s, index)
  <2>1. Cardinality({}) = 0 /\ Size[{}] = 0 /\ maxResultItems \in Nat
    BY FS_EmptySet, NothingHasNoSize, QueryAssumption
  <2>2. s.length = Cardinality(s.items) /\ s.length <= maxResultItems
    BY <1>3, <2>1
  <2>3. s.bytes = EmptyArray + Size[s.items]
    <3>1. Size[s.items] = 0 /\ s.bytes = 2
      BY <1>3, <2>1, Zenon DEF EmptyArray
    <3> HIDE DEF s
    <3> QED
      BY <3>1 DEF EmptyArray
  <2>4. \A e \in index : ~(Position[e] <= s.start)
    BY <1>1, <1>3
  <2>5. {e \in s.ever : Position[e] <= s.start} = {}
    BY <1>3, <2>4
  <2> QED
    BY <1>3, <2>1, <2>2, <2>3, <2>4, <2>5 DEF Collects
<1> QED
  BY <1>2, <1>4, <1>5, OneQueryMoves DEF StartQuery

LEMMA EndKeeps ==
    ASSUME QueryInductive, NEW r \in Reader, EndQuery(r)
    PROVE  QueryInductive'
<1>1. IdleQuery \in QueryLocal /\ IdleQuery.pc = "idle"
  BY DEF IdleQuery, QueryLocal, QueryPc
<1>2. Sound(IdleQuery) /\ Collects(IdleQuery, index)
  BY <1>1 DEF Sound, Collects
<1> QED
  BY <1>1, <1>2, OneQueryMoves DEF EndQuery

\* A page behind the cursor adds its wanted entries, each once.
LEMMA PageIsCollected ==
    ASSUME QueryInductive, NEW r \in Reader, Reading(r), NEW page \in SUBSET Rest(r),
           NEW c, c = Collected(r, page \cap Wanted)
    PROVE  /\ c \in QueryLocal /\ c.pc = "reading"
           /\ c.always = q[r].always /\ c.ever = q[r].ever /\ c.start = q[r].start
           /\ c.items = q[r].items \cup (page \cap Wanted) /\ c.items \subseteq c.ever
           /\ c.length = Cardinality(c.items)
           /\ c.bytes = EmptyArray + Size[c.items]
           /\ c.pageNumber = q[r].pageNumber + 1
<1> DEFINE found == page \cap Wanted
           s == q[r]
<1>1. s \in QueryLocal /\ s.pc = "reading" /\ Collects(s, index) /\ index \subseteq Entry
  BY InductiveByQuery DEF Reading
<1>2. /\ s.items \in SUBSET Wanted /\ s.length \in Nat /\ s.bytes \in Nat /\ s.start \in Nat
      /\ s.pageNumber \in Nat /\ s.always \in SUBSET Entry /\ s.ever \in SUBSET Entry
  BY <1>1 DEF QueryLocal
<1>3. found \in SUBSET Wanted /\ found \subseteq s.ever
  BY <1>1 DEF Rest, Collects
<1>4. s.items \cap found = {}
  <2>1. \A e \in s.items : Position[e] <= s.start
    BY <1>1 DEF Collects
  <2>2. \A e \in found : Position[e] > s.start /\ Position[e] \in Nat
    BY <1>1, QueryAssumption DEF Rest
  <2> QED
    BY <1>2, <2>1, <2>2
<1>5. Cardinality(found) \in Nat /\ Size[found] \in Nat
  <2>1. found \in SUBSET Entry
    BY <1>3, QueryAssumption
  <2> QED
    BY <1>3, <2>1, EntriesAreFinite, QueryAssumption
<1>6. c = [s EXCEPT !.items = @ \cup found, !.length = @ + Cardinality(found),
                    !.bytes = @ + Size[found], !.pageNumber = @ + 1]
  BY DEF Collected
<1>7. /\ c.pc = s.pc /\ c.always = s.always /\ c.ever = s.ever /\ c.start = s.start
      /\ c.items = s.items \cup found /\ c.length = s.length + Cardinality(found)
      /\ c.bytes = s.bytes + Size[found] /\ c.pageNumber = s.pageNumber + 1
  BY <1>1, <1>6 DEF QueryLocal
<1>8. c \in QueryLocal
  <2> HIDE DEF found, s
  <2>1. /\ s.items \cup found \in SUBSET Wanted
        /\ s.length + Cardinality(found) \in Nat /\ s.bytes + Size[found] \in Nat
        /\ s.pageNumber + 1 \in Nat
    BY <1>2, <1>3, <1>5
  <2> QED
    BY <1>1, <1>6, <2>1 DEF QueryLocal
<1>9. /\ s.length = Cardinality(s.items) /\ s.bytes = EmptyArray + Size[s.items]
      /\ s.items \subseteq s.ever
  BY <1>1 DEF Collects
<1>10. /\ Cardinality(c.items) = Cardinality(s.items) + Cardinality(found)
       /\ Size[c.items] = Size[s.items] + Size[found]
  <2> HIDE DEF found, s
  <2>1. /\ Cardinality(s.items \cup found) = Cardinality(s.items) + Cardinality(found)
        /\ Size[s.items \cup found] = Size[s.items] + Size[found]
    BY <1>2, <1>3, <1>4, CollectMore
  <2> QED
    BY <1>7, <2>1, Zenon
<1>11. c.bytes = EmptyArray + Size[c.items]
  <2>1. Size[s.items] \in Nat
    BY <1>2, QueryAssumption
  <2> HIDE DEF found, s
  <2>2. EmptyArray + Size[s.items] + Size[found] = EmptyArray + (Size[s.items] + Size[found])
    BY <1>5, <2>1 DEF EmptyArray
  <2> QED
    BY <1>7, <1>9, <1>10, <2>2
<1> QED
  BY <1>1, <1>3, <1>7, <1>8, <1>9, <1>10, <1>11

\* What is too large to answer was too large already in the index.
LEMMA TooLargeIsRefused ==
    ASSUME QueryInductive, NEW r \in Reader, Reading(r), NEW page \in SUBSET Rest(r),
           TooLarge(Collected(r, page \cap Wanted)), q' = Refuse(r), index' = index
    PROVE  QueryInductive'
<1> DEFINE c == Collected(r, page \cap Wanted)
           s == [q[r] EXCEPT !.pc = "refused"]
           wanted == q[r].ever \cap Wanted
<1>1. /\ c.items \subseteq c.ever /\ c.ever = q[r].ever /\ c \in QueryLocal
      /\ c.length = Cardinality(c.items) /\ c.bytes = EmptyArray + Size[c.items]
  BY PageIsCollected
<1>2. q[r] \in QueryLocal
  BY InductiveByQuery
<1>3. s \in QueryLocal /\ s.pc = "refused" /\ s.ever = q[r].ever
  BY <1>2 DEF QueryLocal, QueryPc
<1>4. c.items \in SUBSET wanted /\ wanted \in SUBSET Wanted
  BY <1>1 DEF QueryLocal
<1>5. Cardinality(c.items) <= Cardinality(wanted) /\ Size[c.items] <= Size[wanted]
  <2> HIDE DEF c, wanted
  <2> QED
    BY <1>4, MoreIsLarger
<1>6. /\ Cardinality(wanted) \in Nat /\ Size[wanted] \in Nat
      /\ Cardinality(c.items) \in Nat /\ Size[c.items] \in Nat
  <2> HIDE DEF c, wanted
  <2>1. wanted \in SUBSET Entry /\ c.items \in SUBSET Entry /\ c.items \in SUBSET Wanted
    BY <1>4, QueryAssumption
  <2> QED
    BY <1>4, <2>1, EntriesAreFinite, QueryAssumption
<1>7. \/ Cardinality(wanted) > maxResultItems
      \/ EmptyArray + Size[wanted] > MaxResultBytes
  <2>1. c.length > maxResultItems \/ c.bytes > MaxResultBytes
    BY DEF TooLarge
  <2> HIDE DEF c, wanted
  <2> QED
    BY <1>1, <1>5, <1>6, <2>1, QueryAssumption DEF EmptyArray
<1>8. Sound(s) /\ Collects(s, index)
  BY <1>3, <1>7 DEF Sound, Collects
<1> QED
  BY <1>3, <1>8, OneQueryMoves DEF Refuse

\* A page that ends at an entry brings the cursor there and past at least one
\* entry more: enough of them, once the pages are used up.
LEMMA PageKeeps ==
    ASSUME QueryInductive, NEW r \in Reader, ReadPage(r)
    PROVE  QueryInductive'
<1>1. PICK last \in Rest(r) :
        q' = IF TooLarge(Collected(r, Page(r, last) \cap Wanted)) THEN Refuse(r)
             ELSE Continue(r, Collected(r, Page(r, last) \cap Wanted), last)
  BY DEF ReadPage
<1>2. Reading(r) /\ index' = index /\ Page(r, last) \in SUBSET Rest(r)
  BY DEF ReadPage, Page
<1> DEFINE page == Page(r, last)
           c == Collected(r, page \cap Wanted)
<1>3. CASE TooLarge(c)
  BY <1>1, <1>2, <1>3, TooLargeIsRefused
<1>4. CASE ~TooLarge(c)
  <2> DEFINE s == [c EXCEPT !.pc = IF c.pageNumber = maxQueryPages THEN "refused" ELSE "reading",
                            !.start = Position[last]]
             before == {e \in q[r].ever : Position[e] <= q[r].start}
             passed == {e \in q[r].ever : Position[e] <= Position[last]}
  <2>1. q' = [q EXCEPT ![r] = s]
    BY <1>1, <1>4 DEF Continue, LastEvaluated
  <2>2. /\ c \in QueryLocal /\ c.always = q[r].always /\ c.ever = q[r].ever
        /\ c.items = q[r].items \cup (page \cap Wanted) /\ c.items \subseteq c.ever
        /\ c.length = Cardinality(c.items) /\ c.bytes = EmptyArray + Size[c.items]
        /\ c.pageNumber = q[r].pageNumber + 1
    BY <1>2, PageIsCollected
  <2>3. /\ q[r] \in QueryLocal /\ q[r].pc = "reading" /\ Collects(q[r], index)
        /\ index \subseteq Entry
    BY <1>2, InductiveByQuery DEF Reading
  <2>4. /\ last \in index /\ last \in Entry /\ Position[last] \in Nat
        /\ Position[last] > q[r].start /\ q[r].start \in Nat
        /\ q[r].pageNumber \in Nat /\ q[r].ever \in SUBSET Entry
        /\ q[r].always \in SUBSET Entry /\ q[r].items \in SUBSET Wanted
    BY <2>3, QueryAssumption DEF Rest, QueryLocal
  <2>5. s \in QueryLocal
    BY <2>2, <2>4 DEF QueryLocal, QueryPc
  <2>6. /\ s.always = q[r].always /\ s.ever = q[r].ever /\ s.items = c.items
        /\ s.length = c.length /\ s.bytes = c.bytes /\ s.pageNumber = c.pageNumber
        /\ s.start = Position[last]
        /\ s.pc = IF c.pageNumber = maxQueryPages THEN "refused" ELSE "reading"
    BY <2>2 DEF QueryLocal
  <2>7. q[r].pageNumber + 1 <= Cardinality(passed)
    <3>1. before \in SUBSET Entry /\ passed \in SUBSET Entry
      BY <2>4
    <3>2. last \in passed /\ last \notin before
      BY <2>3, <2>4 DEF Collects
    <3>3. before \subseteq passed \ {last}
      <4> SUFFICES ASSUME NEW e \in before PROVE e \in passed \ {last}
        OBVIOUS
      <4>1. e \in Entry /\ Position[e] \in Nat /\ Position[e] <= q[r].start
        BY <2>4, QueryAssumption
      <4> QED
        BY <2>4, <3>2, <4>1
    <3>4. q[r].pageNumber <= Cardinality(before)
      BY <2>3 DEF Collects
    <3>5. IsFiniteSet(passed) /\ Cardinality(passed) \in Nat /\ Cardinality(before) \in Nat
      BY <3>1, EntriesAreFinite
    <3> HIDE DEF before, passed
    <3>6. Cardinality(passed \ {last}) = Cardinality(passed) - 1 /\ IsFiniteSet(passed \ {last})
      BY <3>2, <3>5, FS_RemoveElement
    <3>7. Cardinality(before) <= Cardinality(passed \ {last})
      BY <3>3, <3>6, FS_Subset
    <3> QED
      BY <2>4, <3>4, <3>5, <3>6, <3>7
  <2>8. \A e \in s.items : Position[e] <= s.start
    <3> TAKE e \in s.items
    <3>1. CASE e \in page
      BY <2>6, <3>1 DEF Page
    <3>2. CASE e \in q[r].items
      <4>1. Position[e] <= q[r].start /\ Position[e] \in Nat
        BY <2>3, <2>4, <3>2, QueryAssumption DEF Collects
      <4> QED
        BY <2>4, <2>6, <4>1
    <3> QED
      BY <2>2, <2>6, <3>1, <3>2
  <2>9. \A e \in s.always \cap Wanted : Position[e] <= s.start => e \in s.items
    <3> TAKE e \in s.always \cap Wanted
    <3> HAVE Position[e] <= s.start
    <3>1. e \in index /\ e \in Wanted /\ e \in q[r].always /\ Position[e] \in Nat
      BY <2>3, <2>4, <2>6, QueryAssumption DEF Collects
    <3>2. CASE Position[e] <= q[r].start
      BY <2>2, <2>3, <2>6, <3>1, <3>2 DEF Collects
    <3>3. CASE Position[e] > q[r].start
      <4>1. e \in page
        BY <2>6, <3>1, <3>3 DEF Page, Rest
      <4> QED
        BY <2>2, <2>6, <3>1, <4>1
    <3> QED
      BY <2>4, <3>1, <3>2, <3>3
  <2>10. c.length <= maxResultItems
    <3>1. c.length \in Nat /\ ~(c.length > maxResultItems)
      BY <1>4, <2>2 DEF TooLarge, QueryLocal
    <3> QED
      BY <3>1, QueryAssumption
  <2>11. Collects(s, index)
    <3>1. /\ s.items \subseteq s.ever /\ s.length = Cardinality(s.items)
          /\ s.bytes = EmptyArray + Size[s.items]
      BY <2>2, <2>6
    <3>2. s.always \subseteq index /\ index \subseteq s.ever
      BY <2>3, <2>6 DEF Collects
    <3>3. s.pageNumber <= Cardinality({e \in s.ever : Position[e] <= s.start})
      BY <2>2, <2>6, <2>7
    <3> HIDE DEF s
    <3> QED
      BY <2>6, <2>8, <2>9, <2>10, <3>1, <3>2, <3>3 DEF Collects
  <2>12. Sound(s)
    <3>1. CASE c.pageNumber = maxQueryPages
      <4>1. Cardinality(passed) <= Cardinality(q[r].ever) /\ Cardinality(passed) \in Nat
            /\ Cardinality(q[r].ever) \in Nat
        <5>1. passed \in SUBSET Entry /\ passed \subseteq q[r].ever
          BY <2>4
        <5> HIDE DEF passed
        <5> QED
          BY <2>4, <5>1, EntriesAreFinite, FS_Subset
      <4>2. Cardinality(s.ever) >= maxQueryPages
        <5> HIDE DEF s, c, passed
        <5> QED
          BY <2>2, <2>4, <2>6, <2>7, <3>1, <4>1, QueryAssumption
      <4> HIDE DEF s
      <4> QED
        BY <2>6, <3>1, <4>2 DEF Sound
    <3>2. CASE c.pageNumber # maxQueryPages
      BY <2>6, <3>2 DEF Sound
    <3> QED
      BY <3>1, <3>2
  <2> HIDE DEF s
  <2> QED
    BY <1>2, <2>1, <2>5, <2>11, <2>12, OneQueryMoves
<1> QED
  BY <1>3, <1>4

LEMMA LastPageKeeps ==
    ASSUME QueryInductive, NEW r \in Reader, ReadLastPage(r)
    PROVE  QueryInductive'
<1> DEFINE c == Collected(r, Rest(r) \cap Wanted)
<1>1. /\ Reading(r) /\ index' = index /\ Rest(r) \in SUBSET Rest(r)
      /\ q' = IF TooLarge(c) THEN Refuse(r) ELSE Answer(r, c)
  BY DEF ReadLastPage
<1>2. CASE TooLarge(c)
  BY <1>1, <1>2, TooLargeIsRefused
<1>3. CASE ~TooLarge(c)
  <2> DEFINE s == [c EXCEPT !.pc = "answered"]
  <2>1. q' = [q EXCEPT ![r] = s]
    BY <1>1, <1>3 DEF Answer
  <2>2. /\ c \in QueryLocal /\ c.always = q[r].always /\ c.ever = q[r].ever
        /\ c.items = q[r].items \cup (Rest(r) \cap Wanted) /\ c.items \subseteq c.ever
        /\ c.length = Cardinality(c.items) /\ c.bytes = EmptyArray + Size[c.items]
    BY <1>1, PageIsCollected
  <2>3. /\ q[r] \in QueryLocal /\ q[r].pc = "reading" /\ Collects(q[r], index)
        /\ index \subseteq Entry
    BY <1>1, InductiveByQuery DEF Reading
  <2>4. s \in QueryLocal
    BY <2>2 DEF QueryLocal, QueryPc
  <2>5. /\ s.always = q[r].always /\ s.ever = q[r].ever /\ s.items = c.items
        /\ s.length = c.length /\ s.bytes = c.bytes /\ s.pc = "answered"
    BY <2>2 DEF QueryLocal
  <2>6. s.always \cap Wanted \subseteq s.items
    <3> SUFFICES ASSUME NEW e \in s.always \cap Wanted PROVE e \in s.items
      OBVIOUS
    <3>1. e \in index /\ e \in Wanted /\ e \in q[r].always /\ Position[e] \in Nat
      BY <2>3, <2>5, QueryAssumption DEF Collects
    <3>2. CASE Position[e] <= q[r].start
      BY <2>2, <2>3, <2>5, <3>1, <3>2 DEF Collects
    <3>3. CASE Position[e] > q[r].start
      BY <2>2, <2>5, <3>1, <3>3 DEF Rest
    <3>4. q[r].start \in Nat
      BY <2>3 DEF QueryLocal
    <3> QED
      BY <3>1, <3>2, <3>3, <3>4
  <2>7. c.length <= maxResultItems
    <3>1. c.length \in Nat /\ ~(c.length > maxResultItems)
      BY <1>3, <2>2 DEF TooLarge, QueryLocal
    <3> QED
      BY <3>1, QueryAssumption
  <2>8. Sound(s) /\ Collects(s, index)
    <3> HIDE DEF s
    <3> QED
      BY <2>2, <2>5, <2>6, <2>7 DEF Sound, Collects
  <2> HIDE DEF s
  <2> QED
    BY <1>1, <2>1, <2>4, <2>8, OneQueryMoves
<1> QED
  BY <1>2, <1>3

\* The index changes under every query at once: what was always listed can only
\* shrink, and what was listed at some time only grow.
LEMMA IndexChangesKeep ==
    ASSUME QueryInductive, NEW listed \in SUBSET Entry, IndexChanges(listed)
    PROVE  QueryInductive'
<1>1. /\ index' = listed /\ q \in [Reader -> QueryLocal]
      /\ q' = [r \in Reader |->
                 IF Reading(r) THEN [q[r] EXCEPT !.always = @ \cap listed, !.ever = @ \cup listed]
                 ELSE q[r]]
  BY InductiveByQuery DEF IndexChanges, Observe
<1>2. ASSUME NEW r \in Reader
      PROVE  q'[r] \in QueryLocal /\ Sound(q'[r]) /\ Collects(q'[r], listed)
  <2> DEFINE s == q[r]
             t == [s EXCEPT !.always = @ \cap listed, !.ever = @ \cup listed]
  <2>1. s \in QueryLocal /\ Sound(s) /\ Collects(s, index)
    BY <1>2, InductiveByQuery
  <2>2. CASE ~Reading(r)
    <3>1. q'[r] = s /\ s.pc # "reading"
      BY <1>1, <1>2, <2>2 DEF Reading
    <3> HIDE DEF s
    <3> QED
      BY <2>1, <3>1 DEF Collects
  <2>3. CASE Reading(r)
    <3>1. q'[r] = t /\ s.pc = "reading"
      BY <1>1, <1>2, <2>3 DEF Reading
    <3>2. /\ t.pc = "reading" /\ t.items = s.items /\ t.length = s.length
          /\ t.bytes = s.bytes /\ t.start = s.start /\ t.pageNumber = s.pageNumber
          /\ t.always = s.always \cap listed /\ t.ever = s.ever \cup listed
      BY <2>1, <3>1 DEF QueryLocal
    <3>3. t \in QueryLocal
      BY <2>1 DEF QueryLocal
    <3> DEFINE passed == {e \in s.ever : Position[e] <= s.start}
               nowPassed == {e \in t.ever : Position[e] <= t.start}
    <3>4. s.pageNumber <= Cardinality(nowPassed)
      <4>1. passed \subseteq nowPassed /\ passed \in SUBSET Entry /\ nowPassed \in SUBSET Entry
        BY <2>1, <3>2 DEF QueryLocal
      <4>2. s.pageNumber <= Cardinality(passed) /\ s.pageNumber \in Nat
        BY <2>1, <3>1 DEF Collects, QueryLocal
      <4> HIDE DEF passed, nowPassed
      <4>3. Cardinality(passed) <= Cardinality(nowPassed) /\ Cardinality(passed) \in Nat
            /\ Cardinality(nowPassed) \in Nat
        BY <4>1, EntriesAreFinite, FS_Subset
      <4> QED
        BY <4>2, <4>3
    <3>5. Sound(t)
      BY <3>2 DEF Sound
    <3>6. Collects(t, listed)
      <4>1. /\ t.items \subseteq t.ever /\ t.always \subseteq listed /\ listed \subseteq t.ever
            /\ t.length = Cardinality(t.items) /\ t.length <= maxResultItems
            /\ t.bytes = EmptyArray + Size[t.items]
            /\ \A e \in t.items : Position[e] <= t.start
            /\ \A e \in t.always \cap Wanted : Position[e] <= t.start => e \in t.items
        <5> HIDE DEF t
        <5> QED
          BY <2>1, <3>1, <3>2 DEF Collects
      <4> HIDE DEF t
      <4> QED
        BY <3>2, <3>4, <4>1 DEF Collects
    <3> QED
      BY <3>1, <3>3, <3>5, <3>6
  <2> QED
    BY <2>2, <2>3
<1>3. q' \in [Reader -> QueryLocal]
  <2>1. \A r \in Reader : q'[r] \in QueryLocal
    BY <1>2
  <2>2. q' = [r \in Reader |-> q'[r]]
    BY <1>1
  <2> QED
    BY <2>1, <2>2
<1>4. AnswerIsComplete' /\ RefusalIsDue'
  BY <1>2 DEF AnswerIsComplete, RefusalIsDue, Sound
<1>5. \A r \in Reader : Collects(q'[r], index')
  BY <1>1, <1>2
<1> QED
  BY <1>1, <1>3, <1>4, <1>5 DEF QueryInductive, QueryTypeOK

----------------------------------------------------------------------------
(* Theorems *)

LEMMA NextInductive == QueryInductive /\ [QueryNext]_queryVars => QueryInductive'
<1> SUFFICES ASSUME QueryInductive, [QueryNext]_queryVars
             PROVE  QueryInductive'
  OBVIOUS
<1>1. ASSUME NEW r \in Reader, QueryStep(r)
      PROVE  QueryInductive'
  BY <1>1, StartKeeps, PageKeeps, LastPageKeeps, EndKeeps DEF QueryStep
<1>2. ASSUME NEW listed \in SUBSET Entry, IndexChanges(listed)
      PROVE  QueryInductive'
  BY <1>2, IndexChangesKeep
<1>3. CASE UNCHANGED queryVars
  BY <1>3 DEF QueryInductive, QueryTypeOK, AnswerIsComplete, RefusalIsDue, Collects, queryVars
<1> QED
  BY <1>1, <1>2, <1>3 DEF QueryNext

\* The invariant of the cursor holds whatever happens to the index.
THEOREM QueriesAreInductive == QuerySpec => []QueryInductive
BY InitInductive, NextInductive, PTL DEF QuerySpec

\* A list that is answered is complete and has nothing twice, for any order of
\* the entries, any pages and any changes of the index in between.
THEOREM AnswersAreComplete == QuerySpec => []AnswerIsComplete
<1>1. QueryInductive => AnswerIsComplete
  BY DEF QueryInductive
<1> QED
  BY <1>1, QueriesAreInductive, PTL

\* No list is refused that has not reached a limit.
THEOREM RefusalsAreDue == QuerySpec => []RefusalIsDue
<1>1. QueryInductive => RefusalIsDue
  BY DEF QueryInductive
<1> QED
  BY <1>1, QueriesAreInductive, PTL

=============================================================================
