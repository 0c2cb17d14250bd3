------------------------- MODULE UploadQuotaProofs -------------------------
(* The upload budget holds for any limits and any number of uploads, and what *)
(* is stored was reserved from it. *)
EXTENDS UploadQuota, FiniteSetTheorems, TLAPS

LEMMA IdleUploadType == IdleUpload \in UploadLocal
  BY LimitsAssumption DEF IdleUpload, UploadLocal, UploadPc, Status, Day

LEMMA NothingYetType == NothingYet \in Counters
  BY DEF NothingYet, Counters

LEMMA PlusType == ASSUME NEW c \in Counters, NEW size \in 1..MaxSize
                  PROVE  /\ Plus(c, size) \in Counters
                         /\ Plus(c, size).uploads = c.uploads + 1
                         /\ Plus(c, size).bytes = c.bytes + size
  BY LimitsAssumption DEF Plus, Counters

LEMMA DayOfType == ASSUME TypeOK, NEW u \in Uploader PROVE DayOf(u) \in Day
  BY DEF TypeOK, DayOf, UploadLocal

\* A step of one upload, given its new local state m.
LEMMA UploadStepType ==
  ASSUME TypeOK, NEW u \in Uploader, NEW m \in UploadLocal, uw' = [uw EXCEPT ![u] = m],
         m.pc = "put" => m.dated /\ m.size \in 1..MaxSize,
         today' \in Day, budget' \in [Day -> Counters], stored' \in [Day -> Counters]
  PROVE  TypeOK'
<1>1. uw' \in [Uploader -> UploadLocal]
  BY DEF TypeOK
<1>2. \A v \in Uploader : uw'[v].pc = "put" => uw'[v].dated /\ uw'[v].size \in 1..MaxSize
  BY DEF TypeOK
<1> QED BY <1>1, <1>2 DEF TypeOK

LEMMA AnswerType ==
  ASSUME TypeOK, NEW u \in Uploader, NEW s \in Status, uw' = Answer(u, s),
         today' \in Day, budget' \in [Day -> Counters], stored' \in [Day -> Counters]
  PROVE  TypeOK'
<1>1. PICK l \in UploadLocal : l = uw[u]
  BY DEF TypeOK
<1>2. "done" \in UploadPc
  BY DEF UploadPc
<1>3. PICK m : m = [l EXCEPT !.pc = "done", !.status = s]
  OBVIOUS
<1>4. m \in UploadLocal /\ m.pc = "done"
  BY <1>2, <1>3 DEF UploadLocal
<1>5. uw' = [uw EXCEPT ![u] = m]
  BY <1>1, <1>3 DEF Answer
<1> QED BY <1>4, <1>5, UploadStepType

LEMMA ReserveType ==
  ASSUME TypeOK, NEW u \in Uploader, Reserve(u)
  PROVE  TypeOK'
<1>1. PICK l \in UploadLocal : l = uw[u]
  BY DEF TypeOK
<1>2. DayOf(u) \in Day /\ l.size \in 1..MaxSize
  BY <1>1, DayOfType DEF Reserve
<1>3. budget' \in [Day -> Counters]
  BY <1>1, <1>2, PlusType DEF Reserve, TypeOK
<1>4. PICK p \in {"put", "reserve", "done"} :
        uw' = [uw EXCEPT ![u] = [uw[u] EXCEPT !.pc = p, !.day = DayOf(u), !.dated = TRUE,
                                              !.status = IF p = "done" THEN 500 ELSE 0]]
  BY Zenon DEF Reserve
<1>5. PICK s \in {0, 500} : s = IF p = "done" THEN 500 ELSE 0
  OBVIOUS
<1>6. PICK d : d = DayOf(u)
  OBVIOUS
<1>7. PICK m : m = [l EXCEPT !.pc = p, !.day = d, !.dated = TRUE, !.status = s]
  OBVIOUS
<1>8. p \in UploadPc /\ s \in Status
  BY DEF UploadPc, Status
<1>9. m \in UploadLocal
  BY <1>2, <1>6, <1>7, <1>8 DEF UploadLocal
<1>10. m.dated /\ m.size = l.size
  BY <1>7 DEF UploadLocal
<1>11. uw' = [uw EXCEPT ![u] = m]
  BY <1>1, <1>4, <1>5, <1>6, <1>7
<1> QED BY <1>2, <1>3, <1>11, <1>9, <1>10, UploadStepType DEF Reserve, TypeOK

\* Every variable stays in its type, and only bounded sizes are ever stored.
THEOREM QuotaTypeCorrect == Spec => []TypeOK
<1>1. Init => TypeOK
  BY IdleUploadType, NothingYetType, LimitsAssumption DEF Init, TypeOK, IdleUpload, Day
<1>2. TypeOK /\ [Next]_vars => TypeOK'
  <2> SUFFICES ASSUME TypeOK, [Next]_vars PROVE TypeOK'
    OBVIOUS
  <2>1. CASE UNCHANGED vars
    BY <2>1 DEF vars, TypeOK
  <2>2. CASE NextDay
    BY <2>2, LimitsAssumption DEF NextDay, TypeOK, Day
  <2>3. ASSUME NEW u \in Uploader, UploadNext(u) PROVE TypeOK'
    <3>1. CASE ReceiveUpload(u)
      <4>1. PICK size \in 1..(MaxSize + 1) :
              uw' = [uw EXCEPT ![u] = [IdleUpload EXCEPT !.pc = "reserve", !.size = size]]
        BY <3>1 DEF ReceiveUpload
      <4>2. PICK m : m = [IdleUpload EXCEPT !.pc = "reserve", !.size = size]
        OBVIOUS
      <4>3. "reserve" \in UploadPc /\ size \in 0..(MaxSize + 1)
        BY LimitsAssumption DEF UploadPc
      <4>4. m \in UploadLocal /\ m.pc = "reserve"
        BY <4>2, <4>3, IdleUploadType DEF UploadLocal
      <4> QED BY <3>1, <4>1, <4>2, <4>4, UploadStepType DEF ReceiveUpload, TypeOK
    <3>2. CASE Reserve(u)
      BY <3>2, ReserveType
    <3>3. CASE ReserveRefused(u)
      <4>1. PICK l \in UploadLocal, d \in Day : l = uw[u] /\ d = DayOf(u)
        BY DayOfType DEF TypeOK
      <4>2. PICK m : m = [l EXCEPT !.pc = "done", !.day = d, !.dated = TRUE, !.status = 429]
        OBVIOUS
      <4>3. "done" \in UploadPc /\ 429 \in Status
        BY DEF UploadPc, Status
      <4>4. m \in UploadLocal /\ m.pc = "done"
        BY <4>2, <4>3, ZenonT(60) DEF UploadLocal
      <4>5. uw' = [uw EXCEPT ![u] = m]
        BY <3>3, <4>1, <4>2 DEF ReserveRefused
      <4> QED BY <3>3, <4>4, <4>5, UploadStepType DEF ReserveRefused, TypeOK
    <3>4. CASE UploadFails(u)
      BY <3>4, AnswerType DEF UploadFails, TypeOK, Status
    <3>5. CASE PutObject(u)
      <4>1. uw[u].day \in Day /\ uw[u].size \in 1..MaxSize
        BY <3>5 DEF PutObject, TypeOK, UploadLocal
      <4>2. stored' \in [Day -> Counters]
        BY <3>5, <4>1, PlusType DEF PutObject, TypeOK
      <4>3. 201 \in Status /\ 500 \in Status
        BY DEF Status
      <4> QED BY <3>5, <4>2, <4>3, AnswerType DEF PutObject, TypeOK
    <3>6. CASE EndUpload(u)
      <4>1. IdleUpload.pc = "idle"
        BY DEF IdleUpload
      <4> QED BY <3>6, <4>1, IdleUploadType, UploadStepType DEF EndUpload, TypeOK
    <3> QED BY <2>3, <3>1, <3>2, <3>3, <3>4, <3>5, <3>6 DEF UploadNext
  <2> QED BY <2>1, <2>2, <2>3 DEF Next
<1> QED BY <1>1, <1>2, PTL DEF Spec

----------------------------------------------------------------------------
(* The budget *)

\* No day's budget is ever exceeded, whatever the limits and however many
\* uploads reserve at once: Reserve tests and charges in one update.
THEOREM BudgetIsNeverExceeded == Spec => []BudgetHolds
<1>1. Init => BudgetHolds
  BY LimitsAssumption DEF Init, BudgetHolds, NothingYet
<1>2. TypeOK /\ BudgetHolds /\ [Next]_vars => BudgetHolds'
  <2> SUFFICES ASSUME TypeOK, BudgetHolds, [Next]_vars PROVE BudgetHolds'
    OBVIOUS
  <2>1. CASE \E u \in Uploader : Reserve(u)
    <3>1. PICK u \in Uploader : Reserve(u)
      BY <2>1
    <3>2. PICK e \in Day, size \in 1..MaxSize : e = DayOf(u) /\ size = uw[u].size
      BY <3>1, DayOfType DEF Reserve
    <3>3. budget' = [budget EXCEPT ![e] = Plus(budget[e], size)]
          /\ Fits(budget[e], size)
      BY <3>1, <3>2 DEF Reserve
    <3>4. budget[e] \in Counters
      BY <3>2 DEF TypeOK
    <3>5. Plus(budget[e], size).uploads <= MaxUploads
          /\ Plus(budget[e], size).bytes <= MaxBytes
      <4>1. /\ budget[e].uploads \in Nat /\ budget[e].bytes \in Nat
            /\ Plus(budget[e], size).uploads = budget[e].uploads + 1
            /\ Plus(budget[e], size).bytes = budget[e].bytes + size
        BY <3>4, PlusType DEF Counters
      <4> QED BY <3>3, <4>1, LimitsAssumption DEF Fits
    <3> QED BY <3>3, <3>5 DEF BudgetHolds, TypeOK
  <2>2. CASE ~\E u \in Uploader : Reserve(u)
    <3>1. budget' = budget
      BY <2>2 DEF Next, UploadNext, vars, NextDay, ReceiveUpload, ReserveRefused,
                  UploadFails, PutObject, EndUpload
    <3> QED BY <3>1 DEF BudgetHolds
  <2> QED BY <2>1, <2>2
<1> QED BY <1>1, <1>2, QuotaTypeCorrect, PTL DEF Spec

----------------------------------------------------------------------------
(* Refusals *)

\* A budget that does not fit an upload never fits it again: no action ever
\* lowers a day's counters, and UploadFails in particular gives nothing back.
LEMMA CountersGrow ==
  ASSUME TypeOK, [Next]_vars, NEW d \in Day
  PROVE  /\ budget[d].uploads \in Nat /\ budget[d].bytes \in Nat
         /\ budget'[d].uploads \in Nat /\ budget'[d].bytes \in Nat
         /\ budget[d].uploads <= budget'[d].uploads
         /\ budget[d].bytes <= budget'[d].bytes
<1>1. budget[d].uploads \in Nat /\ budget[d].bytes \in Nat
  BY DEF TypeOK, Counters
<1>2. CASE \E u \in Uploader : Reserve(u)
  <2>1. PICK u \in Uploader : Reserve(u)
    BY <1>2
  <2>2. PICK e \in Day, size \in 1..MaxSize : e = DayOf(u) /\ size = uw[u].size
    BY <2>1, DayOfType DEF Reserve
  <2>3. budget' = [budget EXCEPT ![e] = Plus(budget[e], size)]
    BY <2>1, <2>2 DEF Reserve
  <2>4. /\ budget[e] \in Counters
        /\ Plus(budget[e], size).uploads = budget[e].uploads + 1
        /\ Plus(budget[e], size).bytes = budget[e].bytes + size
    BY <2>2, PlusType DEF TypeOK
  <2>5. CASE d = e
    <3>1. budget'[d] = Plus(budget[e], size)
      BY <2>3, <2>5 DEF TypeOK
    <3> QED BY <1>1, <2>4, <2>5, <3>1, LimitsAssumption
  <2>6. CASE d # e
    <3>1. budget'[d] = budget[d]
      BY <2>3, <2>6 DEF TypeOK
    <3> QED BY <1>1, <3>1
  <2> QED BY <2>5, <2>6
<1>3. CASE ~\E u \in Uploader : Reserve(u)
  <2>1. budget' = budget
    BY <1>3, ZenonT(60) DEF Next, UploadNext, vars, NextDay, ReceiveUpload, ReserveRefused,
                UploadFails, PutObject, EndUpload
  <2> QED BY <1>1, <2>1
<1> QED BY <1>2, <1>3

\* An upload that takes no step keeps its refusal's reason.
LEMMA RefusalStays ==
  ASSUME TypeOK, [Next]_vars, NEW d \in Day, NEW size \in 0..(MaxSize + 1),
         ~Fits(budget[d], size)
  PROVE  ~Fits(budget'[d], size)
<1>1. size \in Nat /\ MaxBytes \in Nat /\ MaxUploads \in Nat
  BY LimitsAssumption
<1> QED BY <1>1, CountersGrow DEF Fits

\* A 429 tells the truth for the rest of the day: the upload did not fit when it
\* was refused, and nothing that other uploads do makes room for it.
THEOREM RefusalsAreFinal == Spec => []RefusedMeansFull
<1>1. Init => RefusedMeansFull
  BY DEF Init, RefusedMeansFull, IdleUpload
<1>2. TypeOK /\ RefusedMeansFull /\ [Next]_vars => RefusedMeansFull'
  <2> SUFFICES ASSUME TypeOK, RefusedMeansFull, [Next]_vars,
                      NEW v \in Uploader, uw'[v].pc = "done", uw'[v].status = 429
               PROVE  ~Fits(budget'[uw'[v].day], uw'[v].size)
    BY DEF RefusedMeansFull
  <2>1. CASE uw'[v] = uw[v]
    <3>1. uw[v].day \in Day /\ uw[v].size \in 0..(MaxSize + 1)
      BY DEF TypeOK, UploadLocal
    <3>2. ~Fits(budget[uw[v].day], uw[v].size)
      BY <2>1 DEF RefusedMeansFull
    <3> QED BY <2>1, <3>1, <3>2, RefusalStays
  <2>2. CASE uw'[v] # uw[v]
    <3>1. UploadNext(v)
      <4>1. PICK u \in Uploader : UploadNext(u)
        BY <2>2 DEF Next, NextDay, vars
      <4>2. \E m : uw' = [uw EXCEPT ![u] = m]
        <5>1. CASE ReceiveUpload(u) \/ EndUpload(u)
          BY <5>1, ZenonT(60) DEF ReceiveUpload, EndUpload
        <5>2. CASE Reserve(u) \/ ReserveRefused(u)
          BY <5>2, ZenonT(60) DEF Reserve, ReserveRefused
        <5>3. CASE UploadFails(u) \/ PutObject(u)
          BY <5>3, ZenonT(60) DEF UploadFails, PutObject, Answer
        <5> QED BY <4>1, <5>1, <5>2, <5>3 DEF UploadNext
      <4>3. u = v
        BY <2>2, <4>2 DEF TypeOK
      <4> QED BY <4>1, <4>3
    <3>2. uw[v] \in UploadLocal
      BY DEF TypeOK
    <3>3. ASSUME NEW s, uw' = Answer(v, s) PROVE s = 429
      <4>1. uw'[v] = [uw[v] EXCEPT !.pc = "done", !.status = s]
        BY <3>3 DEF Answer, TypeOK
      <4> QED BY <3>2, <4>1 DEF UploadLocal
    <3>4. ReserveRefused(v)
      <4>1. ~ReceiveUpload(v)
        <5> SUFFICES ASSUME ReceiveUpload(v) PROVE FALSE
          OBVIOUS
        <5>1. PICK size \in 1..(MaxSize + 1) :
                uw' = [uw EXCEPT ![v] = [IdleUpload EXCEPT !.pc = "reserve", !.size = size]]
          BY DEF ReceiveUpload
        <5>2. PICK m : m = [IdleUpload EXCEPT !.pc = "reserve", !.size = size]
          OBVIOUS
        <5>3. m.pc = "reserve"
          BY <5>2, IdleUploadType DEF UploadLocal
        <5> QED BY <5>1, <5>2, <5>3 DEF TypeOK
      <4>2. ~Reserve(v)
        <5> SUFFICES ASSUME Reserve(v) PROVE FALSE
          OBVIOUS
        <5>1. PICK p \in {"put", "reserve", "done"} :
                uw'[v] = [uw[v] EXCEPT !.pc = p, !.day = DayOf(v), !.dated = TRUE,
                                       !.status = IF p = "done" THEN 500 ELSE 0]
          BY DEF Reserve, TypeOK
        <5>2. PICK s \in {0, 500} : s = IF p = "done" THEN 500 ELSE 0
          OBVIOUS
        <5>3. PICK m : m = uw'[v]
          OBVIOUS
        <5>4. m.status = s
          BY <3>2, <5>1, <5>2, <5>3 DEF UploadLocal
        <5> QED BY <5>2, <5>3, <5>4
      <4>3. ~UploadFails(v) /\ ~PutObject(v)
        BY <3>3 DEF UploadFails, PutObject
      <4>4. ~EndUpload(v)
        BY DEF EndUpload, TypeOK, IdleUpload
      <4> QED BY <3>1, <4>1, <4>2, <4>3, <4>4 DEF UploadNext
    <3>5. /\ uw'[v] = [uw[v] EXCEPT !.pc = "done", !.day = DayOf(v), !.dated = TRUE,
                                    !.status = 429]
          /\ budget' = budget /\ ~Fits(budget[DayOf(v)], uw[v].size)
      BY <3>4 DEF ReserveRefused, TypeOK
    <3>6. PICK l, m, d : l \in UploadLocal /\ l = uw[v] /\ m = uw'[v] /\ d = DayOf(v)
      BY <3>2
    <3>7. m.day = d /\ m.size = l.size
      BY <3>5, <3>6 DEF UploadLocal
    <3> QED BY <3>5, <3>6, <3>7
  <2> QED BY <2>1, <2>2
<1> QED BY <1>1, <1>2, QuotaTypeCorrect, PTL DEF Spec

----------------------------------------------------------------------------
(* Shares of a budget that do not overlap *)

LEMMA UnitsAreFinite ==
  ASSUME NEW n \in Nat, NEW S \in SUBSET (1..n)
  PROVE  IsFiniteSet(S) /\ Cardinality(S) \in Nat /\ Cardinality(S) <= n
<1>1. IsFiniteSet(1..n) /\ Cardinality(1..n) = n
  BY FS_Interval
<1> QED BY <1>1, FS_Subset, FS_CardinalityType

\* What was stored fits into the budget.
LEMMA CoveredFits ==
  ASSUME NEW n \in Nat, NEW used, NEW P, NEW share, Covered(n, used, P, share)
  PROVE  used <= n
  BY UnitsAreFinite DEF Covered

\* The budget may grow, uploads may give up, and sizes of others do not matter.
LEMMA CoveredKeeps ==
  ASSUME NEW n \in Nat, NEW m \in Nat, n <= m, NEW used, NEW P, NEW Q \in SUBSET P,
         NEW share, NEW share2, \A u \in Q : share2[u] = share[u],
         Covered(n, used, P, share)
  PROVE  Covered(m, used, Q, share2)
<1>1. PICK S \in SUBSET (1..n), R \in [P -> SUBSET (1..n)] :
        /\ Cardinality(S) = used
        /\ \A u \in P : Cardinality(R[u]) = share[u] /\ R[u] \cap S = {}
        /\ \A u, v \in P : u # v => R[u] \cap R[v] = {}
  BY DEF Covered
<1>2. 1..n \subseteq 1..m
  OBVIOUS
<1> DEFINE T == [u \in Q |-> R[u]]
<1>3. S \in SUBSET (1..m) /\ T \in [Q -> SUBSET (1..m)] /\ \A u \in Q : T[u] = R[u]
  BY <1>1, <1>2
<1> HIDE DEF T
<1>4. \A u \in Q : Cardinality(T[u]) = share2[u] /\ T[u] \cap S = {}
  BY <1>1, <1>3
<1>5. \A u, v \in Q : u # v => T[u] \cap T[v] = {}
  BY <1>1, <1>3
<1> QED BY <1>1, <1>3, <1>4, <1>5 DEF Covered

\* A reservation takes the units that its update adds to the counter.
LEMMA CoveredReserves ==
  ASSUME NEW n \in Nat, NEW k \in Nat, NEW used, NEW P, NEW share, NEW share2, NEW u,
         u \notin P, share2[u] = k, \A v \in P : share2[v] = share[v],
         Covered(n, used, P, share)
  PROVE  Covered(n + k, used, P \cup {u}, share2)
<1>1. PICK S \in SUBSET (1..n), R \in [P -> SUBSET (1..n)] :
        /\ Cardinality(S) = used
        /\ \A v \in P : Cardinality(R[v]) = share[v] /\ R[v] \cap S = {}
        /\ \A v, w \in P : v # w => R[v] \cap R[w] = {}
  BY DEF Covered
<1> DEFINE new == (n + 1)..(n + k)
           T == [v \in P \cup {u} |-> IF v = u THEN new ELSE R[v]]
<1>2. Cardinality(new) = k
  BY FS_Interval
<1>3. 1..n \subseteq 1..(n + k) /\ new \subseteq 1..(n + k) /\ new \cap (1..n) = {}
  OBVIOUS
<1>4. T[u] = new /\ \A v \in P : T[v] = R[v]
  OBVIOUS
<1>5. S \in SUBSET (1..(n + k)) /\ T \in [P \cup {u} -> SUBSET (1..(n + k))]
  BY <1>1, <1>3
<1> HIDE DEF new, T
<1>6. \A v \in P \cup {u} : Cardinality(T[v]) = share2[v] /\ T[v] \cap S = {}
  BY <1>1, <1>2, <1>3, <1>4
<1>7. \A v, w \in P \cup {u} : v # w => T[v] \cap T[w] = {}
  BY <1>1, <1>3, <1>4
<1> QED BY <1>1, <1>5, <1>6, <1>7 DEF Covered

\* What an upload stores was its share.
LEMMA CoveredStores ==
  ASSUME NEW n \in Nat, NEW used \in Nat, NEW P, NEW share, NEW u \in P,
         Covered(n, used, P, share)
  PROVE  Covered(n, used + share[u], P \ {u}, share)
<1>1. PICK S \in SUBSET (1..n), R \in [P -> SUBSET (1..n)] :
        /\ Cardinality(S) = used
        /\ \A v \in P : Cardinality(R[v]) = share[v] /\ R[v] \cap S = {}
        /\ \A v, w \in P : v # w => R[v] \cap R[w] = {}
  BY DEF Covered
<1> DEFINE T == [v \in P \ {u} |-> R[v]]
<1>2. S \cup R[u] \in SUBSET (1..n) /\ T \in [P \ {u} -> SUBSET (1..n)]
  BY <1>1
<1>3. Cardinality(S \cup R[u]) = used + share[u]
  <2>1. /\ IsFiniteSet(S) /\ IsFiniteSet(R[u]) /\ S \cap R[u] = {}
        /\ Cardinality(S) \in Nat /\ Cardinality(R[u]) \in Nat
    BY <1>1, UnitsAreFinite
  <2>2. Cardinality(S \cup R[u]) = Cardinality(S) + Cardinality(R[u]) - Cardinality(S \cap R[u])
    BY <2>1, FS_Union
  <2>3. Cardinality(S \cap R[u]) = 0
    BY <2>1, FS_EmptySet
  <2> QED BY <1>1, <2>1, <2>2, <2>3
<1>4. \A v \in P \ {u} : Cardinality(T[v]) = share[v] /\ T[v] \cap (S \cup R[u]) = {}
  BY <1>1
<1>5. \A v, w \in P \ {u} : v # w => T[v] \cap T[w] = {}
  BY <1>1
<1> HIDE DEF T
<1> QED BY <1>2, <1>3, <1>4, <1>5 DEF Covered

Ones == [u \in Uploader |-> 1]

Sizes == [u \in Uploader |-> uw[u].size]

LEMMA ApartAgain ==
  ASSUME NEW d \in Day,
         Covered(budget'[d].uploads, stored'[d].uploads, Pending(d)', Ones),
         Covered(budget'[d].bytes, stored'[d].bytes, Pending(d)', Sizes')
  PROVE  IsApart(d)'
  BY DEF IsApart, Covered, Ones, Sizes

LEMMA CountersType ==
  ASSUME TypeOK, NEW d \in Day
  PROVE  /\ budget[d].uploads \in Nat /\ budget[d].bytes \in Nat
         /\ stored[d].uploads \in Nat /\ stored[d].bytes \in Nat
  BY DEF TypeOK, Counters

\* A day on whose budget nothing is stored, and on which no upload passes to
\* its put, stays so.
LEMMA ApartKeeps ==
  ASSUME TypeOK, TypeOK', [Next]_vars, NEW d \in Day, IsApart(d),
         stored'[d] = stored[d], Pending(d)' \subseteq Pending(d),
         \A u \in Pending(d)' : uw'[u].size = uw[u].size
  PROVE  IsApart(d)'
<1>1. \A u \in Pending(d)' : Ones[u] = Ones[u] /\ Sizes'[u] = Sizes[u]
  BY DEF Pending, Sizes
<1>2. /\ Covered(budget[d].uploads, stored[d].uploads, Pending(d), Ones)
      /\ Covered(budget[d].bytes, stored[d].bytes, Pending(d), Sizes)
  BY DEF IsApart, Ones, Sizes
<1>3. Covered(budget'[d].uploads, stored[d].uploads, Pending(d)', Ones)
  BY <1>1, <1>2, CountersGrow, CoveredKeeps
<1>4. Covered(budget'[d].bytes, stored[d].bytes, Pending(d)', Sizes')
  BY <1>1, <1>2, CountersGrow, CoveredKeeps
<1> QED BY <1>3, <1>4, ApartAgain

LEMMA ReserveTakesApart ==
  ASSUME TypeOK, TypeOK', ReservationsAreApart, [Next]_vars, NEW u \in Uploader, Reserve(u)
  PROVE  ReservationsAreApart'
<1> SUFFICES ASSUME NEW d \in Day PROVE IsApart(d)'
  BY DEF ReservationsAreApart
<1>e. PICK e \in Day, k \in 1..MaxSize : e = DayOf(u) /\ k = uw[u].size
  BY DayOfType DEF Reserve
<1>1. PICK p \in {"put", "reserve", "done"} :
        uw' = [uw EXCEPT ![u] = [uw[u] EXCEPT !.pc = p, !.day = DayOf(u), !.dated = TRUE,
                                              !.status = IF p = "done" THEN 500 ELSE 0]]
  BY Zenon DEF Reserve
<1>2. /\ uw'[u].pc = p /\ uw'[u].day = e /\ uw'[u].size = k
      /\ \A v \in Uploader \ {u} : uw'[v] = uw[v]
  <2>1. PICK l, s, m :
          /\ l \in UploadLocal /\ l = uw[u] /\ m = uw'[u] /\ s = (IF p = "done" THEN 500 ELSE 0)
    BY DEF TypeOK
  <2>2. m = [l EXCEPT !.pc = p, !.day = e, !.dated = TRUE, !.status = s]
    BY <1>1, <1>e, <2>1 DEF TypeOK
  <2>3. m.pc = p /\ m.day = e /\ m.size = l.size
    BY <2>2 DEF UploadLocal
  <2> QED BY <1>1, <1>e, <2>1, <2>3 DEF TypeOK
<1>3. uw[u].pc = "reserve" /\ stored' = stored /\ budget' = [budget EXCEPT ![e] = Plus(@, k)]
  BY <1>e DEF Reserve
<1>4. IsApart(d) /\ u \notin Pending(d)
  BY <1>3 DEF ReservationsAreApart, Pending
<1>5. CASE ~(p = "put" /\ d = e)
  <2>1. Pending(d)' \subseteq Pending(d) /\ \A v \in Pending(d)' : uw'[v].size = uw[v].size
    BY <1>2, <1>5 DEF Pending
  <2> QED BY <1>3, <1>4, <2>1, ApartKeeps
<1>6. CASE p = "put" /\ d = e
  <2>1. Pending(d)' = Pending(d) \cup {u}
    BY <1>2, <1>6 DEF Pending
  <2>2. /\ Ones[u] = 1 /\ Sizes'[u] = k
        /\ \A v \in Pending(d) : Ones[v] = Ones[v] /\ Sizes'[v] = Sizes[v]
    BY <1>2, <1>4 DEF Pending, Ones, Sizes
  <2>3. /\ Covered(budget[d].uploads, stored[d].uploads, Pending(d), Ones)
        /\ Covered(budget[d].bytes, stored[d].bytes, Pending(d), Sizes)
    BY <1>4 DEF IsApart, Ones, Sizes
  <2>4. /\ budget'[d].uploads = budget[d].uploads + 1
        /\ budget'[d].bytes = budget[d].bytes + k
    <3>1. budget'[d] = Plus(budget[d], k)
      BY <1>3, <1>6 DEF TypeOK
    <3> QED BY <1>e, <3>1, PlusType DEF TypeOK
  <2>5. k \in Nat
    BY LimitsAssumption
  <2>6. Covered(budget'[d].uploads, stored[d].uploads, Pending(d)', Ones)
    BY <1>4, <2>1, <2>2, <2>3, <2>4, CountersType, CoveredReserves
  <2>7. Covered(budget'[d].bytes, stored[d].bytes, Pending(d)', Sizes')
    BY <1>4, <2>1, <2>2, <2>3, <2>4, <2>5, CountersType, CoveredReserves
  <2> QED BY <1>3, <2>6, <2>7, ApartAgain
<1> QED BY <1>5, <1>6

LEMMA PutStoresShare ==
  ASSUME TypeOK, TypeOK', ReservationsAreApart, [Next]_vars, NEW u \in Uploader, PutObject(u)
  PROVE  ReservationsAreApart'
<1> SUFFICES ASSUME NEW d \in Day PROVE IsApart(d)'
  BY DEF ReservationsAreApart
<1>e. PICK e \in Day, k \in 1..MaxSize : e = uw[u].day /\ k = uw[u].size
  BY DEF PutObject, TypeOK, UploadLocal
<1>1. /\ uw[u].pc = "put" /\ budget' = budget
      /\ stored' = [stored EXCEPT ![e] = Plus(@, k)]
  BY <1>e DEF PutObject
<1>2. uw'[u].pc = "done" /\ \A v \in Uploader \ {u} : uw'[v] = uw[v]
  <2>1. PICK s : uw' = [uw EXCEPT ![u] = [uw[u] EXCEPT !.pc = "done", !.status = s]]
    BY DEF PutObject, Answer
  <2>2. PICK l, m : l \in UploadLocal /\ l = uw[u] /\ m = uw'[u]
    BY DEF TypeOK
  <2>3. m = [l EXCEPT !.pc = "done", !.status = s]
    BY <2>1, <2>2 DEF TypeOK
  <2>4. m.pc = "done"
    BY <2>3 DEF UploadLocal
  <2> QED BY <2>1, <2>2, <2>4 DEF TypeOK
<1>3. Pending(d)' = Pending(d) \ {u}
  BY <1>2 DEF Pending
<1>4. IsApart(d) /\ \A v \in Pending(d)' : uw'[v].size = uw[v].size
  BY <1>2 DEF ReservationsAreApart, Pending
<1>5. CASE d # e
  <2>1. stored'[d] = stored[d]
    BY <1>1, <1>5 DEF TypeOK
  <2> QED BY <1>3, <1>4, <2>1, ApartKeeps
<1>6. CASE d = e
  <2>1. u \in Pending(d) /\ Ones[u] = 1 /\ Sizes[u] = k
    BY <1>1, <1>e, <1>6 DEF Pending, Ones, Sizes
  <2>2. /\ Covered(budget[d].uploads, stored[d].uploads, Pending(d), Ones)
        /\ Covered(budget[d].bytes, stored[d].bytes, Pending(d), Sizes)
    BY <1>4 DEF IsApart, Ones, Sizes
  <2>3. /\ stored'[d].uploads = stored[d].uploads + Ones[u]
        /\ stored'[d].bytes = stored[d].bytes + Sizes[u]
    <3>1. stored'[d] = Plus(stored[d], k)
      BY <1>1, <1>6 DEF TypeOK
    <3> QED BY <1>e, <2>1, <3>1, PlusType DEF TypeOK
  <2>4. Covered(budget[d].uploads, stored'[d].uploads, Pending(d)', Ones)
    <3>1. stored[d].uploads \in Nat /\ budget[d].uploads \in Nat
      BY CountersType
    <3>2. Covered(budget[d].uploads, stored[d].uploads + Ones[u], Pending(d) \ {u}, Ones)
      BY <2>1, <2>2, <3>1, CoveredStores
    <3> QED BY <1>3, <2>3, <3>2
  <2>5. Covered(budget[d].bytes, stored'[d].bytes, Pending(d)', Sizes)
    <3>1. stored[d].bytes \in Nat /\ budget[d].bytes \in Nat
      BY CountersType
    <3>2. Covered(budget[d].bytes, stored[d].bytes + Sizes[u], Pending(d) \ {u}, Sizes)
      BY <2>1, <2>2, <3>1, CoveredStores
    <3> QED BY <1>3, <2>3, <3>2
  <2>6. Covered(budget[d].bytes, stored'[d].bytes, Pending(d)', Sizes')
    <3>1. \A v \in Pending(d)' : Sizes'[v] = Sizes[v]
      BY <1>4 DEF Pending, Sizes
    <3>2. budget[d].bytes <= budget[d].bytes
      BY CountersType
    <3> QED BY <2>5, <3>1, <3>2, CountersType, CoveredKeeps
  <2> QED BY <1>1, <2>4, <2>6, ApartAgain
<1> QED BY <1>5, <1>6

\* No other step stores anything or lets an upload pass to its put.
LEMMA OthersKeepApart ==
  ASSUME TypeOK, TypeOK', ReservationsAreApart, [Next]_vars,
         ~\E u \in Uploader : Reserve(u) \/ PutObject(u)
  PROVE  ReservationsAreApart'
<1>1. stored' = stored
  BY DEF Next, UploadNext, vars, NextDay, ReceiveUpload, ReserveRefused, UploadFails, EndUpload
<1>2. ASSUME NEW v \in Uploader, uw'[v].pc = "put" PROVE uw'[v] = uw[v]
  <2>1. CASE uw' = uw
    BY <2>1
  <2>2. CASE uw' # uw
    <3>1. PICK u \in Uploader : ReceiveUpload(u) \/ ReserveRefused(u) \/ UploadFails(u) \/ EndUpload(u)
      BY <2>2 DEF Next, UploadNext, vars, NextDay
    <3>2. PICK m : uw' = [uw EXCEPT ![u] = m] /\ m.pc # "put"
      <4>1. PICK l \in UploadLocal : l = uw[u]
        BY DEF TypeOK
      <4>2. CASE ReceiveUpload(u)
        <5>1. PICK size : uw' = [uw EXCEPT ![u] = [IdleUpload EXCEPT !.pc = "reserve", !.size = size]]
          BY <4>2 DEF ReceiveUpload
        <5>2. PICK m : m = [IdleUpload EXCEPT !.pc = "reserve", !.size = size]
          OBVIOUS
        <5>3. m.pc = "reserve"
          BY <5>2, IdleUploadType DEF UploadLocal
        <5> QED BY <5>1, <5>2, <5>3
      <4>3. CASE ReserveRefused(u)
        <5>1. PICK m, d : /\ d = DayOf(u)
                          /\ m = [l EXCEPT !.pc = "done", !.day = d, !.dated = TRUE, !.status = 429]
          BY Zenon
        <5>2. m.pc = "done"
          BY <5>1 DEF UploadLocal
        <5> QED BY <4>1, <4>3, <5>1, <5>2, ZenonT(60) DEF ReserveRefused
      <4>4. CASE UploadFails(u)
        <5>1. PICK m : m = [l EXCEPT !.pc = "done", !.status = 500]
          OBVIOUS
        <5>2. m.pc = "done"
          BY <5>1 DEF UploadLocal
        <5> QED BY <4>1, <4>4, <5>1, <5>2, ZenonT(60) DEF UploadFails, Answer
      <4>5. CASE EndUpload(u)
        <5>1. uw' = [uw EXCEPT ![u] = IdleUpload] /\ IdleUpload.pc = "idle"
          BY <4>5 DEF EndUpload, IdleUpload
        <5>2. "idle" # "put"
          OBVIOUS
        <5> QED BY <5>1, <5>2
      <4> QED BY <3>1, <4>2, <4>3, <4>4, <4>5
    <3> QED BY <1>2, <3>2 DEF TypeOK
  <2> QED BY <2>1, <2>2
<1>3. ASSUME NEW d \in Day PROVE IsApart(d)'
  <2>1. Pending(d)' \subseteq Pending(d) /\ \A v \in Pending(d)' : uw'[v].size = uw[v].size
    BY <1>2 DEF Pending
  <2> QED BY <1>1, <2>1, ApartKeeps DEF ReservationsAreApart
<1> QED BY <1>3 DEF ReservationsAreApart

LEMMA ApartInit == Init => ReservationsAreApart
<1> SUFFICES ASSUME Init, NEW d \in Day PROVE IsApart(d)
  BY DEF ReservationsAreApart
<1>1. /\ budget[d].uploads = 0 /\ budget[d].bytes = 0
      /\ stored[d].uploads = 0 /\ stored[d].bytes = 0
  BY DEF Init, NothingYet
<1>2. Pending(d) = {}
  BY DEF Init, Pending, IdleUpload
<1>3. \A share : Covered(0, 0, {}, share)
  <2>1. {} \in SUBSET (1..0) /\ [u \in {} |-> {}] \in [{} -> SUBSET (1..0)]
    OBVIOUS
  <2>2. Cardinality({}) = 0
    BY FS_EmptySet
  <2> QED BY <2>1, <2>2 DEF Covered
<1> QED BY <1>1, <1>2, <1>3 DEF IsApart

\* The inductive invariant: every upload that has reserved and may still store
\* has a part of its day's budget that no other upload has.
THEOREM ReservationsStayApart == Spec => []ReservationsAreApart
<1>1. Init => ReservationsAreApart
  BY ApartInit
<1>2. TypeOK /\ TypeOK' /\ ReservationsAreApart /\ [Next]_vars => ReservationsAreApart'
  BY ReserveTakesApart, PutStoresShare, OthersKeepApart
<1> QED BY <1>1, <1>2, QuotaTypeCorrect, PTL DEF Spec

\* What is stored on a day's budget was reserved from it, for any number of
\* uploads and any sizes, also when it is stored after midnight.
THEOREM StoredStaysReserved == Spec => []StoredIsReserved
<1>1. TypeOK /\ ReservationsAreApart => StoredIsReserved
  <2> SUFFICES ASSUME TypeOK, ReservationsAreApart, NEW d \in Day
               PROVE  /\ stored[d].uploads <= budget[d].uploads
                      /\ stored[d].bytes <= budget[d].bytes
    BY DEF StoredIsReserved
  <2>1. IsApart(d)
    BY DEF ReservationsAreApart
  <2> QED BY <2>1, CountersType, CoveredFits DEF IsApart
<1> QED BY <1>1, QuotaTypeCorrect, ReservationsStayApart, PTL

=============================================================================
