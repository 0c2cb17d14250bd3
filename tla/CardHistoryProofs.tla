------------------------- MODULE CardHistoryProofs -------------------------
(***************************************************************************)
(* The history of a card stays whole, for any number of invocations and of *)
(* requests: HistoryInductive is an inductive invariant of CardReviews.    *)
(***************************************************************************)
EXTENDS CardReviewsProofs, SequenceTheorems, FiniteSetTheorems

----------------------------------------------------------------------------
(* What a card may do while an invocation is between two of its calls *)

\* The card only moves forward, and moves at all only to a new revision or
\* under the deletion marker.
CardAdvances ==
    card'.exists =>
        /\ card.exists
        /\ card.revision <= card'.revision
        /\ card.deleting => card'.deleting
        /\ ~card'.deleting /\ card'.revision = card.revision =>
             card'.head = card.head /\ card'.schedule = card.schedule

LEMMA DraftFrame ==
  ASSUME TypeOK, TypeOK', CardAdvances,
         NEW w \in ReviewWorker, DraftIsCurrent(w), rw'[w] = rw[w]
  PROVE  DraftIsCurrent(w)'
<1>1. /\ card.revision \in Nat /\ card'.revision \in Nat
      /\ rw[w].expected \in Nat
  BY RevisionAssumption DEF TypeOK, Card, ReviewLocal
<1> QED BY <1>1 DEF DraftIsCurrent, CardAdvances

\* A marked card with an empty chain stays so until it is gone.
EmptyStaysEmpty ==
    card'.exists => /\ card.exists
                    /\ card.deleting /\ card.head = None =>
                         card'.deleting /\ card'.head = None

LEMMA CleanupFrame ==
  ASSUME NEW d \in DeleteWorker, CleanupIsOnTrack(d), dw'[d] = dw[d],
         EmptyStaysEmpty, Committed \subseteq Committed'
  PROVE  CleanupIsOnTrack(d)'
  BY DEF CleanupIsOnTrack, EmptyStaysEmpty

\* Marking and editing a card touch nothing that the history is about.
LEMMA HistoryFrame ==
  ASSUME TypeOK, HistoryIsWhole, UNCHANGED <<reviews, committed>>,
         card'.exists = card.exists, card'.head = card.head,
         card'.schedule = card.schedule, card'.revision = card.revision,
         card.deleting => card'.deleting
  PROVE  HistoryIsWhole' /\ CardAdvances /\ EmptyStaysEmpty /\ Committed' = Committed
<1>1. HistoryIsIntact'
  <2>1. PICK k \in 0..Len(committed) : Stored(k)
    BY DEF HistoryIsWhole, HistoryIsIntact
  <2>2. Stored(k)'
    BY <2>1 DEF Stored, IdAt
  <2> QED BY <2>2 DEF HistoryIsIntact
<1>2. HistoryIsWhole'
  BY <1>1 DEF HistoryIsWhole, RecordsAreLinked, IdAt, OneReviewPerRequest,
              EveryRatingCountsOnce, Ratings
<1>3. CardAdvances
  <2>1. card.revision <= card.revision
    BY RevisionAssumption DEF TypeOK, Card
  <2> QED BY <2>1 DEF CardAdvances
<1>4. EmptyStaysEmpty /\ Committed' = Committed
  BY DEF EmptyStaysEmpty, Committed
<1> QED BY <1>2, <1>3, <1>4

LEMMA HistoryInit == Init => HistoryInductive
<1> SUFFICES ASSUME Init PROVE HistoryInductive
  OBVIOUS
<1> USE DEF Init
<1>1. Len(committed) = 0 /\ card.schedule = <<>> /\ card.revision = 0 /\ card.head = None
      /\ card.exists /\ ~card.deleting /\ reviews = {}
  BY DEF NewCard, GoneCard
<1>2. HistoryIsIntact
  BY <1>1 DEF HistoryIsIntact, Stored, IdAt
<1>3. EveryRatingCountsOnce
  BY <1>1 DEF EveryRatingCountsOnce, Ratings
<1>4. RecordsAreLinked /\ OneReviewPerRequest
  BY <1>1 DEF RecordsAreLinked, OneReviewPerRequest
<1>5. \A i \in 1..Len(committed) : committed[i].id \in RequestId
  BY <1>1
<1>6. \A w \in ReviewWorker : DraftIsCurrent(w)
  BY DEF DraftIsCurrent, IdleReview
<1>7. \A d \in DeleteWorker : CleanupIsOnTrack(d)
  BY DEF CleanupIsOnTrack, IdleDelete
<1> QED BY <1>2, <1>3, <1>4, <1>5, <1>6, <1>7 DEF HistoryInductive, HistoryIsWhole

----------------------------------------------------------------------------
(* The steps of a review *)

LEMMA ReplayedIsReturned ==
  ASSUME NEW w \in ReviewWorker, rw[w] \in ReviewLocal, NEW r
  PROVE  Replay(w, r).pc \in {"readback", "done"}
<1>1. /\ [rw[w] EXCEPT !.pc = "readback", !.review = r, !.status = 0].pc = "readback"
      /\ [rw[w] EXCEPT !.pc = "done", !.status = 409].pc = "done"
  BY DEF ReviewLocal
<1> QED BY <1>1 DEF Replay

LEMMA AnswerEnds ==
  ASSUME TypeOK, NEW w \in ReviewWorker, NEW s, rw' = Answer(w, s)
  PROVE  DraftIsCurrent(w)'
<1>1. rw'[w] = [rw[w] EXCEPT !.pc = "done", !.status = s] /\ rw[w] \in ReviewLocal
  BY DEF Answer, TypeOK
<1>2. rw'[w].pc = "done"
  BY <1>1 DEF ReviewLocal
<1> QED BY <1>2 DEF DraftIsCurrent

\* Every step of a review but its save leaves the table alone, and brings its
\* invocation to a step where its draft, if it has one, is current.
LEMMA ReviewReadsHistory ==
  ASSUME TypeOK, TypeOK', HistoryInductive, NEW w \in ReviewWorker, ReviewNext(w),
         ~SaveCommits(w)
  PROVE  HistoryInductive'
<1>1. UNCHANGED <<card, reviews, dw, committed>>
  BY DEF ReviewNext, ReviewStep, ReceiveReview, LookUp, ReadCard, SaveFails,
         Recheck, ReadBack, ReviewReadFails, EndReview
<1>2. /\ HistoryIsWhole' /\ CardAdvances /\ EmptyStaysEmpty /\ Committed' = Committed
  BY <1>1, HistoryFrame DEF HistoryInductive
<1>3. ASSUME NEW d \in DeleteWorker PROVE CleanupIsOnTrack(d)'
  BY <1>1, <1>2, CleanupFrame DEF HistoryInductive
<1>4. ASSUME NEW v \in ReviewWorker, v # w PROVE DraftIsCurrent(v)'
  <2>1. \E m : rw' = [rw EXCEPT ![w] = m]
    <3>1. CASE ReceiveReview(w) \/ EndReview(w)
      BY <3>1, ZenonT(60) DEF ReceiveReview, EndReview
    <3>2. CASE LookUp(w) \/ Recheck(w)
      BY <3>2 DEF LookUp, Recheck
    <3>3. CASE ReadCard(w) \/ ReadBack(w)
      BY <3>3 DEF ReadCard, ReadBack, Answer
    <3>4. CASE SaveFails(w) \/ ReviewReadFails(w)
      BY <3>4 DEF SaveFails, ReviewReadFails, Answer
    <3> QED BY <3>1, <3>2, <3>3, <3>4 DEF ReviewNext, ReviewStep
  <2>2. rw'[v] = rw[v]
    BY <1>4, <2>1 DEF TypeOK
  <2> QED BY <1>2, <2>2, DraftFrame DEF HistoryInductive
<1>5. DraftIsCurrent(w)'
  <2>1. rw[w] \in ReviewLocal /\ DraftIsCurrent(w)
    BY DEF TypeOK, HistoryInductive
  <2>2. CASE ReceiveReview(w)
    BY <2>2 DEF ReceiveReview, TypeOK, DraftIsCurrent, IdleReview, ValidRevision
  <2>3. CASE LookUp(w)
    <3>1. \/ rw'[w] = [rw[w] EXCEPT !.pc = "card"]
          \/ \E r \in reviews : rw'[w] = Replay(w, r)
      BY <2>3 DEF LookUp, TypeOK
    <3>2. CASE rw'[w] = [rw[w] EXCEPT !.pc = "card"]
      <4>1. rw'[w].pc = "card" /\ rw'[w].id = rw[w].id /\ rw'[w].expected = rw[w].expected
        BY <2>1, <3>2 DEF ReviewLocal
      <4> QED BY <2>1, <2>3, <4>1 DEF LookUp, DraftIsCurrent
    <3> QED BY <2>1, <3>1, <3>2, ReplayedIsReturned DEF DraftIsCurrent
  <2>4. CASE ReadCard(w)
    <3>1. CASE card.exists /\ card.revision = rw[w].expected
      <4>1. rw'[w] = [rw[w] EXCEPT !.pc = "save", !.review = Draft(w)]
        BY <2>4, <3>1 DEF ReadCard, TypeOK
      <4>2. /\ rw'[w].pc = "save" /\ rw'[w].id = rw[w].id
            /\ rw'[w].expected = rw[w].expected /\ rw'[w].review = Draft(w)
        <5> DEFINE l == rw[w]
                   m == rw'[w]
                   r == Draft(w)
        <5>1. l \in ReviewLocal /\ m = [l EXCEPT !.pc = "save", !.review = r]
          BY <2>1, <4>1
        <5> HIDE DEF l, m, r
        <5>2. m.pc = "save" /\ m.id = l.id /\ m.expected = l.expected /\ m.review = r
          BY <5>1 DEF ReviewLocal
        <5> QED BY <5>2 DEF l, m, r
      <4>3. /\ rw[w].id \in RequestId /\ rw[w].expected # MaxRevision
            /\ rw[w].expected \in Nat
        BY <2>1, <2>4 DEF ReadCard, DraftIsCurrent, ReviewLocal
      <4>4. /\ Draft(w).id = rw[w].id /\ Draft(w).revision = rw[w].expected + 1
            /\ Draft(w).previous = card.head /\ Draft(w).before = card.schedule
        BY <4>3 DEF Draft, Succ
      <4> QED BY <1>1, <3>1, <4>2, <4>3, <4>4 DEF DraftIsCurrent
    <3>2. CASE ~(card.exists /\ card.revision = rw[w].expected)
      <4>1. \E s : rw' = Answer(w, s)
        BY <2>4, <3>2 DEF ReadCard
      <4> QED BY <4>1, AnswerEnds
    <3> QED BY <3>1, <3>2
  <2>5. CASE SaveFails(w)
    <3>1. \/ rw'[w] = [rw[w] EXCEPT !.pc = "recheck", !.status = 409]
          \/ rw'[w] = [rw[w] EXCEPT !.pc = "recheck", !.status = 500]
      BY <2>5 DEF SaveFails, TypeOK
    <3>2. /\ rw'[w].pc = "recheck" /\ rw'[w].id = rw[w].id
          /\ rw'[w].expected = rw[w].expected
      <4> DEFINE l == rw[w]
                 m == rw'[w]
      <4>1. l \in ReviewLocal /\ \E s : m = [l EXCEPT !.pc = "recheck", !.status = s]
        BY <2>1, <3>1, ZenonT(60)
      <4> HIDE DEF l, m
      <4>2. m.pc = "recheck" /\ m.id = l.id /\ m.expected = l.expected
        BY <4>1 DEF ReviewLocal
      <4> QED BY <4>2 DEF l, m
    <3> QED BY <2>1, <2>5, <3>2 DEF SaveFails, DraftIsCurrent
  <2>6. CASE Recheck(w)
    <3>1. \/ rw'[w] = [rw[w] EXCEPT !.pc = "done"]
          \/ \E r \in reviews : rw'[w] = Replay(w, r)
      BY <2>6 DEF Recheck, TypeOK
    <3>2. CASE rw'[w] = [rw[w] EXCEPT !.pc = "done"]
      <4>1. rw'[w].pc = "done"
        BY <2>1, <3>2 DEF ReviewLocal
      <4> QED BY <4>1 DEF DraftIsCurrent
    <3> QED BY <2>1, <3>1, <3>2, ReplayedIsReturned DEF DraftIsCurrent
  <2>7. CASE ReadBack(w)
    <3>1. \/ \E s : rw' = Answer(w, s)
          \/ rw'[w] = [rw[w] EXCEPT !.pc = "done", !.status = 200, !.seen = card.revision]
      BY <2>7 DEF ReadBack, TypeOK
    <3>2. CASE rw'[w] = [rw[w] EXCEPT !.pc = "done", !.status = 200, !.seen = card.revision]
      <4>1. rw'[w].pc = "done"
        BY <2>1, <3>2 DEF ReviewLocal
      <4> QED BY <4>1 DEF DraftIsCurrent
    <3> QED BY <3>1, <3>2, AnswerEnds
  <2>8. CASE ReviewReadFails(w)
    BY <2>8, AnswerEnds DEF ReviewReadFails
  <2>9. CASE EndReview(w)
    BY <2>9 DEF EndReview, TypeOK, IdleReview, DraftIsCurrent
  <2> QED BY <2>2, <2>3, <2>4, <2>5, <2>6, <2>7, <2>8, <2>9 DEF ReviewNext, ReviewStep
<1> QED BY <1>2, <1>3, <1>4, <1>5 DEF HistoryInductive

\* After its save an invocation holds no draft any more.
LEMMA SaveEnds ==
  ASSUME TypeOK, NEW w \in ReviewWorker, DraftIsCurrent(w), SaveCommits(w)
  PROVE  DraftIsCurrent(w)'
<1>1. /\ rw[w].pc = "save"
      /\ \/ rw'[w] = [rw[w] EXCEPT !.pc = "readback"]
         \/ rw'[w] = [rw[w] EXCEPT !.pc = "recheck", !.status = 500]
  BY DEF SaveCommits, TypeOK
<1> DEFINE l == rw[w]
           m == rw'[w]
<1>2. /\ l \in ReviewLocal
      /\ \/ m = [l EXCEPT !.pc = "readback"]
         \/ m = [l EXCEPT !.pc = "recheck", !.status = 500]
  BY <1>1 DEF TypeOK
<1> HIDE DEF l, m
<1>3. (m.pc = "readback" \/ m.pc = "recheck") /\ m.id = l.id /\ m.expected = l.expected
  BY <1>2, ZenonT(60) DEF ReviewLocal
<1> QED BY <1>1, <1>3 DEF DraftIsCurrent, l, m

\* The save: its conditions hold, so the draft extends the history by one.
LEMMA SaveExtendsHistory ==
  ASSUME TypeOK, TypeOK', HistoryInductive, NEW w \in ReviewWorker, SaveCommits(w)
  PROVE  HistoryInductive'
<1>n. PICK n : n = Len(committed)
  OBVIOUS
<1>r. PICK r : r = rw[w].review
  OBVIOUS
<1>1. /\ card.exists /\ ~card.deleting /\ card.revision = rw[w].expected
      /\ \A s \in reviews : s.id # r.id
      /\ card' = CardAfter(r) /\ reviews' = PutReview(r)
      /\ committed' = Append(committed, r)
      /\ rw[w].pc = "save" /\ dw' = dw
  BY <1>r DEF SaveCommits, SaveAllowed
<1>2. /\ r.id = rw[w].id /\ r.id \in RequestId
      /\ r.revision = rw[w].expected + 1
      /\ r.previous = card.head /\ r.before = card.schedule
  BY <1>1, <1>r DEF HistoryInductive, DraftIsCurrent
<1>3. /\ n \in Nat /\ committed \in Seq(Review) /\ r \in Review
      /\ card \in Card /\ card' \in Card
      /\ card.revision \in Nat /\ card.revision = n /\ r.revision = n + 1
  <2>1. committed \in Seq(Review) /\ card \in Card /\ card' \in Card
    BY DEF TypeOK
  <2>2. rw[w] \in ReviewLocal
    BY DEF TypeOK
  <2>3. r \in Review
    BY <2>2, <1>r DEF ReviewLocal
  <2>4. n \in Nat
    BY <2>1, <1>n, LenProperties
  <2>5. card.revision = n
    BY <1>1, <1>n DEF HistoryInductive, HistoryIsWhole, EveryRatingCountsOnce
  <2> QED BY <2>1, <2>3, <2>4, <2>5, <1>1, <1>2
<1>4. /\ Len(committed') = n + 1
      /\ committed'[n + 1] = r
      /\ \A i \in 1..n : committed'[i] = committed[i]
  BY <1>1, <1>3, <1>n, AppendProperties
<1>5. /\ reviews = {committed[i] : i \in 1..n}
      /\ card.head = IdAt(n)
  <2>1. PICK k \in 0..n : Stored(k)
    BY <1>n DEF HistoryInductive, HistoryIsWhole, HistoryIsIntact
  <2>2. k = n
    BY <1>1, <1>n, <2>1 DEF Stored
  <2> QED BY <2>1, <2>2 DEF Stored
<1>6. /\ card'.exists /\ ~card'.deleting
      /\ card'.revision = n + 1 /\ card'.head = r.id
      /\ card'.schedule = Append(card.schedule, r.rating)
  <2> DEFINE c == card
             d == card'
  <2>1. /\ c \in Card /\ c.exists /\ ~c.deleting
        /\ d = [c EXCEPT !.schedule = Append(r.before, r.rating), !.revision = r.revision,
                         !.correct = r.rating # Again, !.accessed = r.id, !.head = r.id]
    BY <1>1, <1>3 DEF CardAfter
  <2> HIDE DEF c, d
  <2>2. /\ d.exists = c.exists /\ d.deleting = c.deleting /\ d.revision = r.revision
        /\ d.head = r.id /\ d.schedule = Append(r.before, r.rating)
    BY <2>1 DEF Card
  <2> QED BY <1>2, <1>3, <2>1, <2>2 DEF c, d
<1>7. \A i \in 1..n : committed[i].id # r.id
  <2> SUFFICES ASSUME NEW i \in 1..n PROVE committed[i].id # r.id
    OBVIOUS
  <2>1. committed[i] \in reviews
    BY <1>5
  <2> QED BY <1>1, <2>1
<1>8. HistoryIsIntact'
  <2>1. reviews' = {committed'[i] : i \in 1..(n + 1)}
    <3>1. reviews' = reviews \cup {r}
      BY <1>1 DEF PutReview
    <3>2. 1..(n + 1) = 1..n \cup {n + 1}
      BY <1>3
    <3>3. {committed'[i] : i \in 1..(n + 1)} = {committed[i] : i \in 1..n} \cup {r}
      BY <3>2, <1>4
    <3> QED BY <3>1, <3>3, <1>5
  <2>2. card'.head = IdAt(n + 1)'
    BY <1>3, <1>4, <1>6 DEF IdAt
  <2>3. Stored(n + 1)'
    BY <2>1, <2>2, <1>4, <1>6 DEF Stored
  <2>4. n + 1 \in 0..Len(committed')
    BY <1>3, <1>4
  <2> QED BY <2>3, <2>4 DEF HistoryIsIntact
<1>9. RecordsAreLinked'
  <2> SUFFICES ASSUME NEW i \in 1..(n + 1)
               PROVE  committed'[i].revision = i /\ committed'[i].previous = IdAt(i - 1)'
    BY <1>4 DEF RecordsAreLinked
  <2>1. IdAt(i - 1)' = IdAt(i - 1)
    BY <1>3, <1>4 DEF IdAt
  <2>2. CASE i \in 1..n
    BY <2>1, <2>2, <1>4, <1>n DEF HistoryInductive, HistoryIsWhole, RecordsAreLinked
  <2>3. CASE i = n + 1
    BY <2>1, <2>3, <1>2, <1>3, <1>4, <1>5
  <2> QED BY <2>2, <2>3, <1>3
<1>10. OneReviewPerRequest'
  BY <1>3, <1>4, <1>7, <1>n DEF HistoryInductive, HistoryIsWhole, OneReviewPerRequest
<1>11. \A i \in 1..Len(committed') : committed'[i].id \in RequestId
  BY <1>2, <1>3, <1>4, <1>n DEF HistoryInductive, HistoryIsWhole
<1>12. EveryRatingCountsOnce'
  <2>1. card.schedule = Ratings(n)
    BY <1>1, <1>n DEF HistoryInductive, HistoryIsWhole, EveryRatingCountsOnce
  <2>2. \A m \in 0..n : Ratings(m)' = Ratings(m)
    BY <1>3, <1>4 DEF Ratings
  <2>3. card'.schedule = Ratings(n + 1)'
    <3>1. /\ card.schedule \in Seq(Rating) /\ r.rating \in Rating
      BY <1>3 DEF Card, Review
    <3>2. card.schedule = [i \in 1..n |-> committed'[i].rating]
      BY <2>1, <1>4 DEF Ratings
    <3>3. Append(card.schedule, r.rating) = [i \in 1..(n + 1) |-> committed'[i].rating]
      <4>1. Len(card.schedule) = n
        BY <1>3, <3>1, <3>2, LenProperties
      <4>2. /\ Append(card.schedule, r.rating) \in Seq(Rating)
            /\ Len(Append(card.schedule, r.rating)) = n + 1
        BY <3>1, <4>1, AppendProperties
      <4>3. \A i \in 1..(n + 1) : Append(card.schedule, r.rating)[i] = committed'[i].rating
        BY <1>3, <1>4, <3>1, <3>2, <4>1, AppendProperties
      <4> QED BY <4>2, <4>3, LenProperties
    <3> QED BY <1>6, <3>3 DEF Ratings
  <2>4. \A i \in 1..(n + 1) : committed'[i].before = Ratings(i - 1)'
    <3> SUFFICES ASSUME NEW i \in 1..(n + 1)
                 PROVE  committed'[i].before = Ratings(i - 1)
      BY <1>3, <2>2
    <3>1. CASE i \in 1..n
      BY <3>1, <1>4, <1>n DEF HistoryInductive, HistoryIsWhole, EveryRatingCountsOnce
    <3>2. CASE i = n + 1
      BY <3>2, <1>2, <1>3, <1>4, <2>1
    <3> QED BY <3>1, <3>2, <1>3
  <2> QED BY <1>4, <1>6, <2>3, <2>4 DEF EveryRatingCountsOnce
<1>13. HistoryIsWhole'
  BY <1>8, <1>9, <1>10, <1>11, <1>12 DEF HistoryIsWhole
<1>14. CardAdvances
  BY <1>1, <1>3, <1>6 DEF CardAdvances
<1>15. EmptyStaysEmpty
  BY <1>1, <1>6 DEF EmptyStaysEmpty
<1>16. Committed \subseteq Committed'
  BY <1>3, <1>4, <1>n DEF Committed
<1>17. ASSUME NEW d \in DeleteWorker PROVE CleanupIsOnTrack(d)'
  BY <1>1, <1>15, <1>16, CleanupFrame DEF HistoryInductive
<1>18. ASSUME NEW v \in ReviewWorker PROVE DraftIsCurrent(v)'
  <2>1. CASE v # w
    <3>1. rw'[v] = rw[v]
      BY <2>1 DEF TypeOK, SaveCommits
    <3> QED BY <1>14, <3>1, DraftFrame DEF HistoryInductive
  <2>2. CASE v = w
    BY <2>2, SaveEnds DEF HistoryInductive
  <2> QED BY <2>1, <2>2
<1> QED BY <1>13, <1>17, <1>18 DEF HistoryInductive

----------------------------------------------------------------------------
(* The steps of a delete *)

LEMMA AtHeadOnTrack ==
  ASSUME TypeOK, NEW d \in DeleteWorker, NEW h, dw' = AtHead(d, h),
         h = None /\ card'.exists => card'.deleting /\ card'.head = None
  PROVE  CleanupIsOnTrack(d)'
<1>1. dw'[d].pc = IF h = None THEN "remove" ELSE "read"
  BY DEF AtHead, TypeOK, IdleDelete
<1> QED BY <1>1 DEF CleanupIsOnTrack

LEMMA AnswerOnTrack ==
  ASSUME TypeOK, NEW d \in DeleteWorker, NEW s, dw' = AnswerDelete(d, s)
  PROVE  CleanupIsOnTrack(d)'
<1>1. dw'[d] = [dw[d] EXCEPT !.pc = "done", !.status = s] /\ dw[d] \in DeleteLocal
  BY DEF AnswerDelete, TypeOK
<1>2. dw'[d].pc = "done"
  BY <1>1 DEF DeleteLocal
<1> QED BY <1>2 DEF CleanupIsOnTrack

\* What a step of delete d has to show, once the table and its own part are done.
LEMMA DeleteStepFrame ==
  ASSUME TypeOK, TypeOK', HistoryInductive, NEW d \in DeleteWorker,
         DeleteNext(d), HistoryIsWhole', CardAdvances, EmptyStaysEmpty,
         Committed' = Committed, CleanupIsOnTrack(d)'
  PROVE  HistoryInductive'
<1>1. rw' = rw
  BY DEF DeleteNext, DeleteStep, ReceiveDelete, MarkDeleting, ReadHead, Trim,
         RemoveCard, DeleteFails, EndDelete
<1>2. ASSUME NEW w \in ReviewWorker PROVE DraftIsCurrent(w)'
  BY <1>1, DraftFrame DEF HistoryInductive
<1>3. ASSUME NEW c \in DeleteWorker PROVE CleanupIsOnTrack(c)'
  <2>1. CASE c # d
    <3>1. \A h, s : /\ dw' = AtHead(d, h) => dw'[c] = dw[c]
                    /\ dw' = AnswerDelete(d, s) => dw'[c] = dw[c]
      BY <2>1 DEF TypeOK, AtHead, AnswerDelete
    <3>2. dw'[c] = dw[c]
      <4>1. CASE ReceiveDelete(d) \/ ReadHead(d) \/ EndDelete(d)
        BY <2>1, <3>1, <4>1 DEF ReceiveDelete, ReadHead, EndDelete, TypeOK
      <4>2. CASE MarkDeleting(d) \/ Trim(d) \/ RemoveCard(d) \/ DeleteFails(d)
        BY <3>1, <4>2 DEF MarkDeleting, Trim, RemoveCard, DeleteFails
      <4> QED BY <4>1, <4>2 DEF DeleteNext, DeleteStep
    <3> QED BY <3>2, CleanupFrame DEF HistoryInductive
  <2> QED BY <2>1
<1> QED BY <1>2, <1>3 DEF HistoryInductive

LEMMA MarkKeepsHistory ==
  ASSUME TypeOK, TypeOK', HistoryInductive, NEW d \in DeleteWorker, MarkDeleting(d)
  PROVE  HistoryInductive'
<1>1. card \in Card
  BY DEF TypeOK
<1>2. /\ card'.exists = card.exists /\ card'.head = card.head
      /\ card'.schedule = card.schedule /\ card'.revision = card.revision
      /\ card.deleting => card'.deleting
      /\ card.exists => card'.deleting
  BY <1>1 DEF MarkDeleting, Card
<1>3. HistoryIsWhole' /\ CardAdvances /\ EmptyStaysEmpty /\ Committed' = Committed
  BY <1>2, HistoryFrame DEF MarkDeleting, HistoryInductive
<1>4. CleanupIsOnTrack(d)'
  <2>1. CASE dw' = AnswerDelete(d, 500)
    BY <2>1, AnswerOnTrack
  <2>2. CASE dw' # AnswerDelete(d, 500)
    BY <1>2, <2>2, AtHeadOnTrack DEF MarkDeleting
  <2> QED BY <2>1, <2>2
<1>5. DeleteNext(d)
  BY DEF DeleteNext, DeleteStep
<1> QED BY <1>3, <1>4, <1>5, DeleteStepFrame

\* The loop's transaction removes the newest stored record, whose previous
\* pointer names the one below it.
LEMMA TrimTakesNewest ==
  ASSUME TypeOK, TypeOK', HistoryInductive, NEW d \in DeleteWorker, Trim(d)
  PROVE  \E k \in 1..Len(committed) :
           /\ Stored(k) /\ Stored(k - 1)'
           /\ dw[d].review = committed[k]
           /\ reviews' = {s \in reviews : s.id # committed[k].id}
<1>r. PICK r : r = dw[d].review
  OBVIOUS
<1>1. /\ card.exists /\ card.deleting /\ card.head = r.id
      /\ r \in Committed
      /\ \E s \in reviews : s.id = r.id
      /\ card' = [card EXCEPT !.head = r.previous]
      /\ reviews' = {s \in reviews : s.id # r.id}
      /\ committed' = committed
  BY <1>r DEF Trim, TrimAllowed, HistoryInductive, CleanupIsOnTrack
<1>2. /\ card'.exists /\ card'.deleting /\ card'.head = r.previous
      /\ card'.schedule = card.schedule /\ card'.revision = card.revision
      /\ card.revision \in Nat
  BY <1>1 DEF TypeOK, Card
<1>n. PICK n : n = Len(committed)
  OBVIOUS
<1>3. n \in Nat
  BY <1>n, LenProperties DEF TypeOK
<1>4. PICK k \in 0..n : Stored(k)
  BY <1>n DEF HistoryInductive, HistoryIsWhole, HistoryIsIntact
<1>5. reviews = {committed[i] : i \in 1..k} /\ card.head = IdAt(k)
  BY <1>4 DEF Stored
<1>6. k \in 1..n
  <2>1. k # 0
    BY <1>1, <1>5
  <2> QED BY <2>1, <1>3
<1>7. \A i, j \in 1..n : committed[i].id = committed[j].id => i = j
  BY <1>n DEF HistoryInductive, HistoryIsWhole, OneReviewPerRequest
<1>8. r = committed[k]
  <2>1. PICK j \in 1..n : r = committed[j]
    BY <1>1, <1>n DEF Committed
  <2>2. committed[j].id = committed[k].id
    <3>1. IdAt(k) = committed[k].id
      BY <1>3, <1>6 DEF IdAt
    <3> QED BY <1>1, <1>5, <2>1, <3>1
  <2> QED BY <1>6, <1>7, <2>1, <2>2
<1>9. r.previous = IdAt(k - 1)
  BY <1>6, <1>8, <1>n DEF HistoryInductive, HistoryIsWhole, RecordsAreLinked
<1>10. reviews' = {committed[i] : i \in 1..(k - 1)}
  <2>1. \A i \in 1..k : committed[i].id # r.id <=> i \in 1..(k - 1)
    <3> SUFFICES ASSUME NEW i \in 1..k
                 PROVE  committed[i].id # committed[k].id <=> i \in 1..(k - 1)
      BY <1>8
    <3>1. k \in 1..n /\ i \in 1..n
      BY <1>3, <1>6
    <3>2. committed[i].id = committed[k].id => i = k
      BY <1>7, <3>1
    <3> QED BY <1>3, <3>1, <3>2
  <2>2. reviews' = {s \in {committed[i] : i \in 1..k} : s.id # r.id}
    BY <1>1, <1>5
  <2>3. 1..(k - 1) \subseteq 1..k
    BY <1>6
  <2> QED BY <2>1, <2>2, <2>3
<1>11. Stored(k - 1)'
  <2>1. IdAt(k - 1)' = IdAt(k - 1)
    BY <1>1 DEF IdAt
  <2> QED BY <1>1, <1>2, <1>9, <1>10, <2>1 DEF Stored
<1> QED BY <1>1, <1>4, <1>6, <1>8, <1>11, <1>n, <1>r

LEMMA TrimShortensChain ==
  ASSUME TypeOK, TypeOK', HistoryInductive, NEW d \in DeleteWorker, Trim(d)
  PROVE  HistoryInductive'
<1>k. PICK k \in 1..Len(committed) : Stored(k - 1)' /\ dw[d].review = committed[k]
  BY TrimTakesNewest
<1>r. PICK r : r = dw[d].review
  OBVIOUS
<1>1. /\ card.exists /\ card.deleting /\ card.head = r.id
      /\ card' = [card EXCEPT !.head = r.previous]
      /\ committed' = committed
  BY <1>r DEF Trim, TrimAllowed, HistoryInductive, CleanupIsOnTrack
<1>2. /\ card'.exists /\ card'.deleting /\ card'.head = r.previous
      /\ card'.schedule = card.schedule /\ card'.revision = card.revision
      /\ card.revision \in Nat
  BY <1>1 DEF TypeOK, Card
<1>11. HistoryIsIntact'
  <2>1. k - 1 \in 0..Len(committed')
    BY <1>1
  <2> QED BY <1>k, <2>1 DEF HistoryIsIntact
<1>12. HistoryIsWhole'
  BY <1>1, <1>2, <1>11 DEF HistoryInductive, HistoryIsWhole, RecordsAreLinked, IdAt,
                          OneReviewPerRequest, EveryRatingCountsOnce, Ratings
<1>13. CardAdvances
  BY <1>1, <1>2 DEF CardAdvances
<1>14. EmptyStaysEmpty
  <2>1. committed[k].id \in RequestId
    BY DEF HistoryInductive, HistoryIsWhole
  <2> QED BY <1>k, <1>r, <1>1, <1>2, <2>1, NoneAssumption DEF EmptyStaysEmpty
<1>15. CleanupIsOnTrack(d)'
  <2>1. CASE dw' = AnswerDelete(d, 500)
    BY <2>1, AnswerOnTrack
  <2>2. CASE dw' = AtHead(d, r.previous)
    BY <1>2, <2>2, AtHeadOnTrack
  <2> QED BY <2>1, <2>2, <1>r DEF Trim
<1>16. DeleteNext(d) /\ Committed' = Committed
  BY <1>1 DEF DeleteNext, DeleteStep, Committed
<1> QED BY <1>12, <1>13, <1>14, <1>15, <1>16, DeleteStepFrame

LEMMA RemoveLeavesNothing ==
  ASSUME TypeOK, TypeOK', HistoryInductive, NEW d \in DeleteWorker, RemoveCard(d)
  PROVE  HistoryInductive'
<1>1. /\ card.exists => card.deleting /\ card.head = None
      /\ reviews' = reviews /\ committed' = committed
  BY DEF RemoveCard, HistoryInductive, CleanupIsOnTrack
<1>n. PICK n : n = Len(committed)
  OBVIOUS
<1>2. PICK k \in 0..n : Stored(k)
  BY <1>n DEF HistoryInductive, HistoryIsWhole, HistoryIsIntact
<1>3. k = 0
  <2>1. CASE card.exists
    <3>1. IdAt(k) = None
      BY <1>1, <1>2, <2>1 DEF Stored
    <3>2. ASSUME k # 0 PROVE FALSE
      <4>1. n \in Nat
        BY <1>n, LenProperties DEF TypeOK
      <4>2. k \in 1..n
        BY <3>2, <4>1
      <4>3. committed[k].id \in RequestId
        BY <1>n, <4>2 DEF HistoryInductive, HistoryIsWhole
      <4> QED BY <3>1, <3>2, <4>3, NoneAssumption DEF IdAt
    <3> QED BY <3>2
  <2>2. CASE ~card.exists
    BY <1>2, <2>2 DEF Stored
  <2> QED BY <2>1, <2>2
<1>4. ~card'.exists /\ card'.head = None
  <2>1. CASE card' = GoneCard
    BY <2>1 DEF GoneCard
  <2>2. CASE card' # GoneCard
    BY <1>2, <1>3, <2>2 DEF RemoveCard, Stored, IdAt
  <2> QED BY <2>1, <2>2
<1>5. HistoryIsIntact'
  <2>1. Stored(0)'
    BY <1>1, <1>2, <1>3, <1>4 DEF Stored, IdAt
  <2> QED BY <1>1, <1>2, <1>3, <1>n, <2>1 DEF HistoryIsIntact
<1>6. HistoryIsWhole'
  BY <1>1, <1>4, <1>5 DEF HistoryInductive, HistoryIsWhole, RecordsAreLinked, IdAt,
                          OneReviewPerRequest, EveryRatingCountsOnce, Ratings
<1>7. CardAdvances /\ EmptyStaysEmpty
  BY <1>4 DEF CardAdvances, EmptyStaysEmpty
<1>8. CleanupIsOnTrack(d)'
  BY AnswerOnTrack DEF RemoveCard
<1>9. DeleteNext(d) /\ Committed' = Committed
  BY <1>1 DEF DeleteNext, DeleteStep, Committed
<1> QED BY <1>6, <1>7, <1>8, <1>9, DeleteStepFrame

\* The other steps of a delete only read the table.
LEMMA DeleteReadsHistory ==
  ASSUME TypeOK, TypeOK', HistoryInductive, NEW d \in DeleteWorker,
         ReceiveDelete(d) \/ ReadHead(d) \/ DeleteFails(d) \/ EndDelete(d)
  PROVE  HistoryInductive'
<1>1. UNCHANGED <<card, reviews, committed>>
  BY DEF ReceiveDelete, ReadHead, DeleteFails, EndDelete
<1>2. HistoryIsWhole' /\ CardAdvances /\ EmptyStaysEmpty /\ Committed' = Committed
  BY <1>1, HistoryFrame DEF HistoryInductive
<1>3. dw[d] \in DeleteLocal
  BY DEF TypeOK
<1>4. CleanupIsOnTrack(d)'
  <2>1. CASE ReceiveDelete(d)
    <3>1. dw'[d] = [dw[d] EXCEPT !.pc = "mark"]
      BY <2>1 DEF ReceiveDelete, TypeOK
    <3>2. dw'[d].pc = "mark"
      BY <1>3, <3>1 DEF DeleteLocal
    <3> QED BY <3>2 DEF CleanupIsOnTrack
  <2>2. CASE ReadHead(d)
    <3>1. CASE dw' = AnswerDelete(d, 500)
      BY <3>1, AnswerOnTrack
    <3>2. CASE dw' # AnswerDelete(d, 500)
      <4>1. PICK r \in reviews : /\ r.id = dw[d].head
                                 /\ dw' = [dw EXCEPT ![d] = [@ EXCEPT !.pc = "trim", !.review = r]]
        BY <2>2, <3>2 DEF ReadHead
      <4>2. dw'[d] = [dw[d] EXCEPT !.pc = "trim", !.review = r]
        BY <4>1 DEF TypeOK
      <4>3. dw'[d].pc = "trim" /\ dw'[d].review = r /\ dw'[d].head = dw[d].head
        BY <1>3, <4>2 DEF DeleteLocal
      <4>4. r \in Committed
        BY DEF HistoryInductive, HistoryIsWhole, HistoryIsIntact, Stored, Committed
      <4> QED BY <1>2, <4>1, <4>3, <4>4 DEF CleanupIsOnTrack
    <3> QED BY <3>1, <3>2
  <2>3. CASE DeleteFails(d)
    BY <2>3, AnswerOnTrack DEF DeleteFails
  <2>4. CASE EndDelete(d)
    BY <2>4 DEF EndDelete, TypeOK, IdleDelete, CleanupIsOnTrack
  <2> QED BY <2>1, <2>2, <2>3, <2>4
<1>5. DeleteNext(d)
  BY DEF DeleteNext, DeleteStep
<1> QED BY <1>2, <1>4, <1>5, DeleteStepFrame

----------------------------------------------------------------------------
(* The steps of an edit *)

LEMMA EditKeepsHistory ==
  ASSUME TypeOK, TypeOK', HistoryInductive, NEW e \in EditWorker, EditNext(e)
  PROVE  HistoryInductive'
<1>1. UNCHANGED <<reviews, rw, dw, committed>>
  BY DEF EditNext, EditStep, ReceiveEdit, EditWrites, EditRefused, EditFails, EndEdit
<1>2. card' = card \/ card' = EditedCard(e)
  BY DEF EditNext, EditStep, ReceiveEdit, EditWrites, EditRefused, EditFails, EndEdit
<1>3. /\ card'.exists = card.exists /\ card'.head = card.head
      /\ card'.schedule = card.schedule /\ card'.revision = card.revision
      /\ card.deleting => card'.deleting
  BY <1>2, ZenonT(60) DEF EditedCard, TypeOK, Card
<1>4. HistoryIsWhole' /\ CardAdvances /\ EmptyStaysEmpty /\ Committed' = Committed
  BY <1>1, <1>3, HistoryFrame DEF HistoryInductive
<1>5. \A w \in ReviewWorker : DraftIsCurrent(w)'
  BY <1>1, <1>4, DraftFrame DEF HistoryInductive
<1>6. \A d \in DeleteWorker : CleanupIsOnTrack(d)'
  BY <1>1, <1>4, CleanupFrame DEF HistoryInductive
<1> QED BY <1>4, <1>5, <1>6 DEF HistoryInductive

----------------------------------------------------------------------------
(* The theorems *)

LEMMA HistoryStep ==
  ASSUME TypeOK, TypeOK', HistoryInductive, [Next]_vars
  PROVE  HistoryInductive'
<1>1. CASE UNCHANGED vars
  <2>1. HistoryIsWhole'
    BY <1>1, HistoryFrame DEF vars, HistoryInductive
  <2> QED BY <1>1, <2>1 DEF vars, HistoryInductive, DraftIsCurrent, CleanupIsOnTrack, Committed
<1>2. CASE \E w \in ReviewWorker : ReviewNext(w)
  <2>1. PICK w \in ReviewWorker : ReviewNext(w)
    BY <1>2
  <2>2. CASE SaveCommits(w)
    BY <2>2, SaveExtendsHistory
  <2>3. CASE ~SaveCommits(w)
    BY <2>1, <2>3, ReviewReadsHistory
  <2> QED BY <2>2, <2>3
<1>3. CASE \E d \in DeleteWorker : DeleteNext(d)
  BY <1>3, MarkKeepsHistory, TrimShortensChain, RemoveLeavesNothing, DeleteReadsHistory
     DEF DeleteNext, DeleteStep
<1>4. CASE \E e \in EditWorker : EditNext(e)
  BY <1>4, EditKeepsHistory
<1> QED BY <1>1, <1>2, <1>3, <1>4 DEF Next

\* What the history is and what the invocations rely on hold in every state.
THEOREM HistoryHolds == Spec => []HistoryInductive
<1>1. Init => HistoryInductive
  BY HistoryInit
<1>2. TypeOK /\ TypeOK' /\ HistoryInductive /\ [Next]_vars => HistoryInductive'
  BY HistoryStep
<1> QED BY <1>1, <1>2, TypeCorrect, PTL DEF Spec

\* The chain from last_review_id is whole: SaveReview and DeleteReviews leave no
\* gap and no orphan, however many invocations interleave, retry or die.
THEOREM HistoryStaysIntact == Spec => []HistoryIsIntact
<1>1. HistoryInductive => HistoryIsIntact
  BY DEF HistoryInductive, HistoryIsWhole
<1> QED BY <1>1, HistoryHolds, PTL

\* Revisions and previous pointers number and link the history without a gap.
THEOREM RecordsStayLinked == Spec => []RecordsAreLinked
<1>1. HistoryInductive => RecordsAreLinked
  BY DEF HistoryInductive, HistoryIsWhole
<1> QED BY <1>1, HistoryHolds, PTL

\* A request id is applied at most once.
THEOREM RequestsApplyOnce == Spec => []OneReviewPerRequest
<1>1. HistoryInductive => OneReviewPerRequest
  BY DEF HistoryInductive, HistoryIsWhole
<1> QED BY <1>1, HistoryHolds, PTL

\* No rating is lost and none counts twice in the schedule on the card.
THEOREM RatingsCountOnce == Spec => []EveryRatingCountsOnce
<1>1. HistoryInductive => EveryRatingCountsOnce
  BY DEF HistoryInductive, HistoryIsWhole
<1> QED BY <1>1, HistoryHolds, PTL

----------------------------------------------------------------------------
(* Records leave the table newest first *)

\* Only Trim takes a record out of the table: a save finds no record of its id
\* to replace.
LEMMA OnlyTrimRemoves ==
  ASSUME TypeOK, [Next]_vars, ~(\E d \in DeleteWorker : Trim(d))
  PROVE  reviews \subseteq reviews'
<1>1. CASE \E w \in ReviewWorker : SaveCommits(w)
  BY <1>1 DEF SaveCommits, SaveAllowed, PutReview
<1>2. CASE ~\E w \in ReviewWorker : SaveCommits(w)
  <2>1. reviews' = reviews
    BY <1>2, ZenonT(60) DEF Next, vars, ReviewNext, ReviewStep, ReceiveReview, LookUp, ReadCard, SaveFails,
         Recheck, ReadBack, ReviewReadFails, EndReview,
         DeleteNext, DeleteStep, ReceiveDelete, MarkDeleting, ReadHead, RemoveCard,
         DeleteFails, EndDelete,
         EditNext, EditStep, ReceiveEdit, EditWrites, EditRefused, EditFails, EndEdit
  <2> QED BY <2>1
<1> QED BY <1>1, <1>2

\* A stored record is never changed, and leaves only a marked card, from its
\* head, the newest one first.
THEOREM RecordsLeaveInOrder == Spec => RecordsLeaveNewestFirst
<1> DEFINE Leaves == \A r \in reviews : r \notin reviews' =>
                        /\ card.deleting /\ card.head = r.id
                        /\ \A s \in reviews : s.revision <= r.revision
<1>1. TypeOK /\ TypeOK' /\ HistoryInductive /\ [Next]_vars => [Leaves]_vars
  <2> SUFFICES ASSUME TypeOK, TypeOK', HistoryInductive, [Next]_vars,
                      NEW r \in reviews, r \notin reviews'
               PROVE  /\ card.deleting /\ card.head = r.id
                      /\ \A s \in reviews : s.revision <= r.revision
    OBVIOUS
  <2>1. PICK d \in DeleteWorker : Trim(d)
    BY OnlyTrimRemoves
  <2>2. PICK k \in 1..Len(committed) :
          /\ Stored(k) /\ reviews' = {s \in reviews : s.id # committed[k].id}
    BY <2>1, TrimTakesNewest
  <2>n. Len(committed) \in Nat
    BY LenProperties DEF TypeOK
  <2>3. reviews = {committed[i] : i \in 1..k} /\ card.head = committed[k].id
    BY <2>2, <2>n DEF Stored, IdAt
  <2>4. PICK i \in 1..k : r = committed[i]
    BY <2>3
  <2>5. i = k
    <3>1. committed[i].id = committed[k].id
      BY <2>2, <2>4
    <3>2. i \in 1..Len(committed) /\ k \in 1..Len(committed)
      BY <2>n
    <3> QED BY <3>1, <3>2 DEF HistoryInductive, HistoryIsWhole, OneReviewPerRequest
  <2>6. \A j \in 1..k : committed[j].revision = j
    BY <2>n DEF HistoryInductive, HistoryIsWhole, RecordsAreLinked
  <2>7. \A s \in reviews : s.revision <= r.revision
    BY <2>3, <2>4, <2>5, <2>6
  <2>8. card.deleting
    BY <2>1 DEF Trim, TrimAllowed
  <2> QED BY <2>3, <2>4, <2>5, <2>7, <2>8
<1> QED BY <1>1, TypeCorrect, HistoryHolds, PTL DEF Spec, RecordsLeaveNewestFirst

----------------------------------------------------------------------------
(* The table implements the review log *)

Event(r) == [id |-> r.id, rating |-> r.rating]

\* The events of the refinement mapping, and what they are.
Events == [n \in 1..Cardinality(reviews) |->
             [id |-> RecordAt(n).id, rating |-> RecordAt(n).rating]]
EventsUpTo(k) == [n \in 1..k |-> Event(committed[n])]

Phase == IF ~card.exists THEN "gone" ELSE IF card.deleting THEN "closing" ELSE "open"

EventsOK == \A k \in 0..Len(committed) : Stored(k) => Events = EventsUpTo(k)

LEMMA EventsAreCommitted == TypeOK /\ HistoryInductive => EventsOK
<1> SUFFICES ASSUME TypeOK, HistoryInductive, NEW k \in 0..Len(committed), Stored(k)
             PROVE  Events = EventsUpTo(k)
  BY DEF EventsOK
<1>n. Len(committed) \in Nat
  BY LenProperties DEF TypeOK
<1>1. reviews = {committed[i] : i \in 1..k}
  BY DEF Stored
<1>2. \A i \in 1..k : committed[i].revision = i
  BY <1>n DEF HistoryInductive, HistoryIsWhole, RecordsAreLinked
<1>3. Cardinality(reviews) = k
  <2> DEFINE f == [i \in 1..k |-> committed[i]]
  <2>1. f \in [1..k -> reviews]
    BY <1>1
  <2>2. \A i, j \in 1..k : f[i] = f[j] => i = j
    BY <1>2
  <2>3. \A r \in reviews : \E i \in 1..k : f[i] = r
    BY <1>1
  <2> HIDE DEF f
  <2>4. f \in Bijection(1..k, reviews)
    BY <2>1, <2>2, <2>3 DEF Bijection, Injection, Surjection, IsInjective
  <2>5. ExistsBijection(1..k, reviews)
    BY <2>4 DEF ExistsBijection
  <2>6. IsFiniteSet(1..k) /\ Cardinality(1..k) = k
    BY FS_Interval
  <2> QED BY <2>5, <2>6, FS_Bijection
<1>4. ASSUME NEW n \in 1..k PROVE RecordAt(n) = committed[n]
  BY <1>1, <1>2, <1>4 DEF RecordAt
<1> QED BY <1>3, <1>4 DEF Events, EventsUpTo, Event

LEMMA EventsAreSequence ==
  ASSUME NEW k \in Nat
  PROVE  /\ EventsUpTo(k) \in Seq({Event(committed[n]) : n \in 1..k})
         /\ Len(EventsUpTo(k)) = k
         /\ k = 0 <=> EventsUpTo(k) = << >>
<1>1. EventsUpTo(k) \in [1..k -> {Event(committed[n]) : n \in 1..k}]
  BY DEF EventsUpTo
<1>2. EventsUpTo(k) \in Seq({Event(committed[n]) : n \in 1..k})
  BY <1>1, SeqDef
<1>3. Len(EventsUpTo(k)) = k
  BY <1>1, <1>2, LenProperties
<1> QED BY <1>2, <1>3, EmptySeq

LEMMA LogStarts == Init => Log!LogInit
<1> SUFFICES ASSUME Init PROVE Log!LogInit
  OBVIOUS
<1>1. card.schedule = <<>> /\ card.exists /\ ~card.deleting
  BY DEF Init, NewCard, GoneCard
<1>3. Events = <<>>
  <2>1. Cardinality(reviews) = 0
    BY FS_EmptySet DEF Init
  <2>2. DOMAIN Events = {}
    BY <2>1 DEF Events
  <2> QED BY <2>1 DEF Events
<1> QED BY <1>1, <1>3 DEF Log!LogInit, Events

\* A save is the request's event, appended to the log.
LEMMA SaveAppendsEvent ==
  ASSUME TypeOK, TypeOK', HistoryInductive, HistoryInductive', EventsOK, EventsOK',
         NEW w \in ReviewWorker, SaveCommits(w)
  PROVE  Log!LogNext
<1>n. PICK n : n = Len(committed)
  OBVIOUS
<1>r. PICK r : r = rw[w].review
  OBVIOUS
<1>e. PICK e : e = rw[w].expected
  OBVIOUS
<1>1. /\ card.exists /\ ~card.deleting /\ card.revision = e
      /\ \A s \in reviews : s.id # r.id
      /\ card' = CardAfter(r) /\ committed' = Append(committed, r)
      /\ rw[w].pc = "save"
  BY <1>r, <1>e DEF SaveCommits, SaveAllowed
<1>2. /\ r.id \in RequestId /\ r.before = card.schedule
      /\ r \in Review /\ e \in 0..MaxRevision
  BY <1>1, <1>r, <1>e DEF HistoryInductive, DraftIsCurrent, TypeOK, ReviewLocal
<1>3. n \in Nat /\ e = n
  BY <1>1, <1>n, LenProperties DEF TypeOK, HistoryInductive, HistoryIsWhole,
                                   EveryRatingCountsOnce
<1>4. /\ Len(committed') = n + 1 /\ committed'[n + 1] = r
      /\ \A i \in 1..n : committed'[i] = committed[i]
  BY <1>1, <1>2, <1>3, <1>n, AppendProperties DEF TypeOK
<1>5. card'.exists /\ ~card'.deleting /\ card'.schedule = Append(card.schedule, r.rating)
  <2> DEFINE c == card
             d == card'
  <2>1. /\ c \in Card /\ c.exists /\ ~c.deleting
        /\ d = [c EXCEPT !.schedule = Append(r.before, r.rating), !.revision = r.revision,
                         !.correct = r.rating # Again, !.accessed = r.id, !.head = r.id]
    BY <1>1 DEF CardAfter, TypeOK
  <2> HIDE DEF c, d
  <2>2. /\ d.exists = c.exists /\ d.deleting = c.deleting
        /\ d.schedule = Append(r.before, r.rating)
    BY <2>1 DEF Card
  <2> QED BY <1>2, <2>1, <2>2 DEF c, d
<1>6. Stored(n) /\ Stored(n + 1)'
  <2>1. PICK k \in 0..Len(committed) : Stored(k)
    BY DEF HistoryInductive, HistoryIsWhole, HistoryIsIntact
  <2>2. PICK j \in 0..Len(committed') : Stored(j)'
    BY DEF HistoryInductive, HistoryIsWhole, HistoryIsIntact
  <2>3. j = n + 1
    BY <1>4, <1>5, <2>2 DEF Stored
  <2> QED BY <1>1, <1>n, <2>1, <2>2, <2>3 DEF Stored
<1>7. Events = EventsUpTo(n)
  BY <1>3, <1>6, <1>n DEF EventsOK
<1>8. Events' = EventsUpTo(n + 1)'
  BY <1>3, <1>4, <1>6 DEF EventsOK
<1>9. Events' = Append(Events, Event(r))
  <2> DEFINE S == {Event(committed[i]) : i \in 1..n}
             T == S \cup {Event(r)}
             E == EventsUpTo(n)
             F == EventsUpTo(n + 1)'
  <2>1. E \in [1..n -> T] /\ F \in [1..(n + 1) -> T]
    <3>1. \A i \in 1..(n + 1) : Event(committed[i])' \in T
      <4> SUFFICES ASSUME NEW i \in 1..(n + 1) PROVE Event(committed'[i]) \in T
        BY DEF Event
      <4>1. i \in 1..n \/ i = n + 1
        BY <1>3
      <4> QED BY <1>4, <4>1
    <3> QED BY <3>1 DEF EventsUpTo
  <2>2. /\ \A i \in 1..n : F[i] = E[i]
        /\ F[n + 1] = Event(r)
    BY <1>3, <1>4 DEF EventsUpTo, Event
  <2>3. E \in Seq(T) /\ Len(E) = n /\ Event(r) \in T
    BY <1>3, <2>1, SeqDef, LenProperties
  <2> HIDE DEF E, F, T, S
  <2>4. /\ Append(E, Event(r)) \in Seq(T) /\ Len(Append(E, Event(r))) = n + 1
        /\ \A i \in 1..n : Append(E, Event(r))[i] = E[i]
        /\ Append(E, Event(r))[n + 1] = Event(r)
    BY <2>3, AppendProperties
  <2>5. Append(E, Event(r)) \in [1..(n + 1) -> T]
    BY <2>4, LenProperties
  <2>6. \A i \in 1..(n + 1) : F[i] = Append(E, Event(r))[i]
    <3> SUFFICES ASSUME NEW i \in 1..(n + 1) PROVE F[i] = Append(E, Event(r))[i]
      OBVIOUS
    <3>1. i \in 1..n \/ i = n + 1
      BY <1>3
    <3> QED BY <2>2, <2>4, <3>1
  <2>7. F = Append(E, Event(r))
    <3>1. F \in Seq(T) /\ Len(F) = n + 1
      BY <1>3, <2>1, SeqDef, LenProperties
    <3> QED BY <2>4, <2>6, <3>1, SeqEqual
  <2> QED BY <1>7, <1>8, <2>7 DEF E, F
<1>10. Len(Events) = n /\ \A i \in 1..n : Events[i].id # r.id
  <2>1. Len(Events) = n
    BY <1>3, <1>7, EventsAreSequence
  <2>2. \A i \in 1..n : Events[i].id = committed[i].id /\ committed[i] \in reviews
    BY <1>6, <1>7 DEF EventsUpTo, Event, Stored
  <2> QED BY <1>1, <2>1, <2>2
<1>11. Log!AppendEvent(r.id, r.rating, e)
  BY <1>1, <1>3, <1>5, <1>9, <1>10 DEF Log!AppendEvent, Events, Event
<1>12. r.rating \in Rating
  BY <1>2 DEF Review
<1> QED BY <1>2, <1>11, <1>12 DEF Log!LogNext

\* A trim drops the newest event.
LEMMA TrimDropsEvent ==
  ASSUME TypeOK, TypeOK', HistoryInductive, HistoryInductive', EventsOK, EventsOK',
         NEW d \in DeleteWorker, Trim(d)
  PROVE  Log!LogNext
<1>1. PICK k \in 1..Len(committed) : Stored(k) /\ Stored(k - 1)'
  BY TrimTakesNewest
<1>2. committed' = committed /\ Len(committed) \in Nat
  BY LenProperties DEF Trim, TypeOK
<1>3. Events = EventsUpTo(k)
  BY <1>1, <1>2 DEF EventsOK
<1>4. Events' = EventsUpTo(k - 1)
  <2>1. Events' = EventsUpTo(k - 1)'
    BY <1>1, <1>2 DEF EventsOK
  <2> QED BY <1>2, <2>1 DEF EventsUpTo
<1>5. /\ EventsUpTo(k) \in Seq({Event(committed[n]) : n \in 1..k})
      /\ Len(EventsUpTo(k)) = k /\ EventsUpTo(k) # << >>
  <2>1. k \in Nat /\ k # 0
    BY <1>2
  <2> QED BY <2>1, EventsAreSequence
<1>6. EventsUpTo(k - 1) = SubSeq(EventsUpTo(k), 1, k - 1)
  <2>1. \A n \in 1..(k - 1) : EventsUpTo(k)[n] = Event(committed[n])
    BY <1>2 DEF EventsUpTo
  <2>2. SubSeq(EventsUpTo(k), 1, k - 1) = [n \in 1..(k - 1) |-> EventsUpTo(k)[n]]
    BY <1>2, <1>5
  <2> QED BY <2>1, <2>2 DEF EventsUpTo
<1>7. /\ card.exists /\ card.deleting
      /\ card' = [card EXCEPT !.head = dw[d].review.previous]
  BY DEF Trim, TrimAllowed
<1>8. card'.exists /\ card'.deleting /\ card'.schedule = card.schedule
  BY <1>7 DEF TypeOK, Card
<1>9. Log!DropNewest
  BY <1>3, <1>4, <1>5, <1>6, <1>7, <1>8 DEF Log!DropNewest, Events
<1> QED BY <1>9 DEF Log!LogNext

LEMMA RemoveEndsLog ==
  ASSUME TypeOK, TypeOK', HistoryInductive, HistoryInductive', EventsOK, EventsOK',
         NEW d \in DeleteWorker, RemoveCard(d), card.exists
  PROVE  Log!LogNext
<1>1. /\ card.deleting /\ card.head = None
      /\ card' = GoneCard /\ reviews' = reviews /\ committed' = committed
  BY DEF RemoveCard, HistoryInductive, CleanupIsOnTrack
<1>2. ~card'.exists /\ card'.schedule = <<>>
  BY <1>1 DEF GoneCard
<1>3. reviews = {}
  <2>1. PICK k \in 0..Len(committed') : Stored(k)'
    BY DEF HistoryInductive, HistoryIsWhole, HistoryIsIntact
  <2>2. k = 0
    BY <1>2, <2>1 DEF Stored
  <2>3. reviews' = {committed'[i] : i \in 1..0}
    BY <2>1, <2>2 DEF Stored
  <2> QED BY <1>1, <2>3
<1>4. Events = <<>> /\ Events' = Events
  <2>1. Cardinality(reviews) = 0
    BY <1>3, FS_EmptySet
  <2> QED BY <1>1, <2>1 DEF Events, RecordAt
<1>5. Log!Remove
  BY <1>1, <1>2, <1>4 DEF Log!Remove, Events
<1> QED BY <1>5 DEF Log!LogNext

LEMMA LogStutters ==
  ASSUME reviews' = reviews, card'.schedule = card.schedule, card'.exists = card.exists,
         card'.deleting = card.deleting \/ (card.exists /\ card'.deleting)
  PROVE  [Log!LogNext]_(Log!logVars)
<1>1. Events' = Events
  BY DEF Events, RecordAt
<1>2. CASE card.exists /\ ~card.deleting /\ card'.deleting
  BY <1>1, <1>2 DEF Log!LogNext, Log!Close, Events
<1>3. CASE ~(card.exists /\ ~card.deleting /\ card'.deleting)
  <2>1. Phase' = Phase
    BY <1>3 DEF Phase
  <2> QED BY <1>1, <2>1 DEF Log!logVars, Events, Phase
<1> QED BY <1>2, <1>3

LEMMA LogStep ==
  ASSUME TypeOK, TypeOK', HistoryInductive, HistoryInductive', EventsOK, EventsOK',
         [Next]_vars
  PROVE  [Log!LogNext]_(Log!logVars)
<1>1. CASE \E w \in ReviewWorker : SaveCommits(w)
  BY <1>1, SaveAppendsEvent
<1>2. CASE \E d \in DeleteWorker : Trim(d)
  BY <1>2, TrimDropsEvent
<1>3. CASE \E d \in DeleteWorker : RemoveCard(d)
  <2>1. CASE card.exists
    BY <1>3, <2>1, RemoveEndsLog
  <2>2. CASE ~card.exists
    BY <1>3, <2>2, LogStutters DEF RemoveCard
  <2> QED BY <2>1, <2>2
<1>4. CASE \E d \in DeleteWorker : MarkDeleting(d)
  <2>1. /\ reviews' = reviews
        /\ card' = card \/ (card.exists /\ card' = [card EXCEPT !.deleting = TRUE])
    BY <1>4 DEF MarkDeleting
  <2>2. /\ card'.schedule = card.schedule /\ card'.exists = card.exists
        /\ card'.deleting = card.deleting \/ (card.exists /\ card'.deleting)
    BY <2>1 DEF TypeOK, Card
  <2> QED BY <2>1, <2>2, LogStutters
<1>5. CASE \E e \in EditWorker : EditWrites(e)
  <2>1. PICK e \in EditWorker : EditWrites(e)
    BY <1>5
  <2>2. reviews' = reviews /\ card' = EditedCard(e) /\ card \in Card
    BY <2>1 DEF EditWrites, TypeOK
  <2>3. /\ card'.schedule = card.schedule /\ card'.exists = card.exists
        /\ card'.deleting = card.deleting
    BY <2>2, ZenonT(60) DEF EditedCard, Card
  <2> QED BY <2>2, <2>3, LogStutters
<1>6. CASE UNCHANGED <<card, reviews>>
  BY <1>6, LogStutters
<1> QED BY <1>1, <1>2, <1>3, <1>4, <1>5, <1>6, ZenonT(60)
        DEF Next, vars, ReviewNext, ReviewStep, ReceiveReview, LookUp, ReadCard, SaveFails,
            Recheck, ReadBack, ReviewReadFails, EndReview,
            DeleteNext, DeleteStep, ReceiveDelete, ReadHead, DeleteFails, EndDelete,
            EditNext, EditStep, ReceiveEdit, EditRefused, EditFails, EndEdit

\* What the table holds of a card is a review log: every save appends its event
\* once, a deletion closes the log and takes it apart newest first, and no
\* crash, retry or interleaving shows.
THEOREM TableImplementsLog == Spec => ImplementsReviewLog
<1>1. Init => Log!LogInit
  BY LogStarts
<1>2. TypeOK /\ TypeOK' /\ HistoryInductive /\ HistoryInductive' /\ EventsOK /\ EventsOK'
        /\ [Next]_vars => [Log!LogNext]_(Log!logVars)
  BY LogStep
<1> QED BY <1>1, <1>2, EventsAreCommitted, TypeCorrect, HistoryHolds, PTL
        DEF Spec, ImplementsReviewLog, Log!LogSpec

=============================================================================
