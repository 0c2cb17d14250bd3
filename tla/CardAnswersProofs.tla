------------------------- MODULE CardAnswersProofs -------------------------
(***************************************************************************)
(* What the handlers of one card answer is true, and reviews and edits     *)
(* leave each other's attributes alone, for any number of invocations and  *)
(* of requests: AnswersInductive is an inductive invariant of CardReviews. *)
(***************************************************************************)
EXTENDS CardHistoryProofs

----------------------------------------------------------------------------
(* The new local state of an invocation, attribute by attribute *)

LEMMA ReviewFields ==
  ASSUME NEW l \in ReviewLocal, NEW p, NEW s
  PROVE  LET m == [l EXCEPT !.pc = p, !.status = s] IN
         /\ m.pc = p /\ m.status = s /\ m.id = l.id /\ m.rating = l.rating
         /\ m.expected = l.expected /\ m.review = l.review
         /\ m.seen = l.seen /\ m.late = l.late
  BY DEF ReviewLocal

LEMMA ReviewGotoFields ==
  ASSUME NEW l \in ReviewLocal, NEW p
  PROVE  LET m == [l EXCEPT !.pc = p] IN
         /\ m.pc = p /\ m.status = l.status /\ m.id = l.id /\ m.rating = l.rating
         /\ m.expected = l.expected /\ m.review = l.review
         /\ m.seen = l.seen /\ m.late = l.late
  BY DEF ReviewLocal

LEMMA ReviewDraftFields ==
  ASSUME NEW l \in ReviewLocal, NEW r
  PROVE  LET m == [l EXCEPT !.pc = "save", !.review = r] IN
         /\ m.pc = "save" /\ m.status = l.status /\ m.id = l.id /\ m.rating = l.rating
         /\ m.expected = l.expected /\ m.review = r
         /\ m.seen = l.seen /\ m.late = l.late
  BY DEF ReviewLocal

LEMMA ReviewFoundFields ==
  ASSUME NEW l \in ReviewLocal, NEW r
  PROVE  LET m == [l EXCEPT !.pc = "readback", !.review = r, !.status = 0] IN
         /\ m.pc = "readback" /\ m.status = 0 /\ m.id = l.id /\ m.rating = l.rating
         /\ m.expected = l.expected /\ m.review = r
         /\ m.seen = l.seen /\ m.late = l.late
  BY DEF ReviewLocal

LEMMA ReviewSeenFields ==
  ASSUME NEW l \in ReviewLocal, NEW n
  PROVE  LET m == [l EXCEPT !.pc = "done", !.status = 200, !.seen = n] IN
         /\ m.pc = "done" /\ m.status = 200 /\ m.id = l.id /\ m.rating = l.rating
         /\ m.expected = l.expected /\ m.review = l.review
         /\ m.seen = n /\ m.late = l.late
  BY DEF ReviewLocal

----------------------------------------------------------------------------
(* How the card may change under an invocation's feet *)

\* What every invocation may rely on: a deletion is not taken back, a migrated
\* card stays migrated, and what was committed stays committed.
CardForward ==
    /\ card'.exists => card.exists
    /\ card'.exists /\ card.deleting => card'.deleting
    /\ card'.exists /\ Migrated => Migrated'
    /\ Committed \subseteq Committed'

LEMMA SaveFields ==
  ASSUME TypeOK, NEW w \in ReviewWorker, SaveCommits(w)
  PROVE  LET r == rw[w].review IN
         /\ card.exists /\ ~card.deleting /\ r \in Review
         /\ card'.exists /\ ~card'.deleting
         /\ card'.schedule = Append(r.before, r.rating) /\ card'.schedule # <<>>
         /\ card'.content = card.content
         /\ card'.accessed = r.id /\ card'.correct = (r.rating # Again)
         /\ committed' = Append(committed, r)
         /\ Len(committed') = Len(committed) + 1
         /\ committed'[Len(committed) + 1] = r
         /\ \A i \in 1..Len(committed) : committed'[i] = committed[i]
<1> DEFINE r == rw[w].review
           c == card
           d == card'
<1>1. r \in Review
  BY DEF TypeOK, ReviewLocal
<1>2. /\ c \in Card /\ c.exists /\ ~c.deleting
      /\ d = [c EXCEPT !.schedule = Append(r.before, r.rating), !.revision = r.revision,
                       !.correct = r.rating # Again, !.accessed = r.id, !.head = r.id]
      /\ committed' = Append(committed, r)
  BY DEF SaveCommits, SaveAllowed, CardAfter, TypeOK
<1>3. r.before \in Seq(Rating) /\ r.rating \in Rating /\ committed \in Seq(Review)
  BY <1>1 DEF Review, TypeOK
<1> HIDE DEF r, c, d
<1>4. /\ d.exists = c.exists /\ d.deleting = c.deleting
      /\ d.schedule = Append(r.before, r.rating) /\ d.content = c.content
      /\ d.accessed = r.id
  BY <1>2 DEF Card
<1>5. d.correct = (r.rating # Again)
  BY <1>2, Zenon DEF Card
<1>6. Append(r.before, r.rating) # <<>>
  BY <1>3, AppendProperties
<1>7. /\ Len(committed') = Len(committed) + 1
      /\ committed'[Len(committed) + 1] = r
      /\ \A i \in 1..Len(committed) : committed'[i] = committed[i]
  BY <1>1, <1>2, <1>3, AppendProperties
<1> QED BY <1>1, <1>2, <1>4, <1>5, <1>6, <1>7 DEF r, c, d

LEMMA EditFields ==
  ASSUME TypeOK, NEW e \in EditWorker, EditWrites(e)
  PROVE  /\ card.exists /\ card'.exists /\ card'.deleting = card.deleting
         /\ card'.schedule = card.schedule
         /\ card'.content = ew[e].content /\ lastEdit' = ew[e].content
         /\ Migrated => card'.accessed = card.accessed /\ card'.correct = card.correct
<1> DEFINE c == card
           d == card'
           l == ew[e]
<1>1. c \in Card /\ c.exists /\ lastEdit' = l.content
  BY DEF EditWrites, EditAllowed, TypeOK
<1>2. CASE AssumesMigrated(l.attempt)
  <2>1. d = [c EXCEPT !.content = l.content]
    BY <1>2 DEF EditWrites, EditedCard
  <2> HIDE DEF c, d, l
  <2>2. /\ d.exists = c.exists /\ d.deleting = c.deleting /\ d.schedule = c.schedule
        /\ d.content = l.content /\ d.accessed = c.accessed /\ d.correct = c.correct
    BY <1>1, <2>1, ZenonT(30) DEF Card
  <2> QED BY <1>1, <2>2 DEF c, d, l
<1>3. CASE ~AssumesMigrated(l.attempt)
  <2>1. PICK a : d = [c EXCEPT !.content = l.content, !.correct = l.correct, !.accessed = a]
    BY <1>3 DEF EditWrites, EditedCard
  <2>2. ~Migrated
    <3>1. Migrated = AssumesMigrated(l.attempt)
      BY DEF EditWrites, EditAllowed
    <3> QED BY <1>3, <3>1
  <2> HIDE DEF c, d, l
  <2>3. /\ d.exists = c.exists /\ d.deleting = c.deleting /\ d.schedule = c.schedule
        /\ d.content = l.content
    BY <1>1, <2>1, ZenonT(30) DEF Card
  <2> QED BY <1>1, <2>2, <2>3 DEF c, d, l
<1> QED BY <1>2, <1>3

\* The steps of a delete do not touch what a reader sees of a card that stays.
LEMMA DeleteFields ==
  ASSUME TypeOK, NEW d \in DeleteWorker, DeleteNext(d), card'.exists
  PROVE  /\ card.exists /\ (card.deleting => card'.deleting)
         /\ card'.schedule = card.schedule /\ card'.content = card.content
         /\ card'.accessed = card.accessed /\ card'.correct = card.correct
<1> DEFINE c == card
           k == card'
<1>1. \/ k = c
      \/ c.exists /\ k = [c EXCEPT !.deleting = TRUE]
      \/ c.exists /\ \E h : k = [c EXCEPT !.head = h]
  <2>1. card' # GoneCard
    BY DEF GoneCard
  <2> QED BY <2>1, ZenonT(60) DEF DeleteNext, DeleteStep, ReceiveDelete, MarkDeleting, ReadHead, Trim,
                      TrimAllowed, RemoveCard, DeleteFails, EndDelete
<1>2. c \in Card
  BY DEF TypeOK
<1> HIDE DEF c, k
<1>3. CASE k = c
  BY <1>3 DEF c, k
<1>4. CASE c.exists /\ k = [c EXCEPT !.deleting = TRUE]
  <2>1. /\ k.deleting /\ k.schedule = c.schedule /\ k.content = c.content
        /\ k.accessed = c.accessed /\ k.correct = c.correct
    BY <1>2, <1>4, ZenonT(30) DEF Card
  <2> QED BY <1>4, <2>1 DEF c, k
<1>5. CASE c.exists /\ \E h : k = [c EXCEPT !.head = h]
  <2>1. /\ k.deleting = c.deleting /\ k.schedule = c.schedule /\ k.content = c.content
        /\ k.accessed = c.accessed /\ k.correct = c.correct
    BY <1>2, <1>5, ZenonT(30) DEF Card
  <2> QED BY <1>5, <2>1 DEF c, k
<1> QED BY <1>1, <1>3, <1>4, <1>5

LEMMA CardMovesForward ==
  ASSUME TypeOK, [Next]_vars
  PROVE  CardForward
<1>1. CASE \E w \in ReviewWorker : SaveCommits(w)
  <2>1. PICK w \in ReviewWorker : SaveCommits(w)
    BY <1>1
  <2>2. Len(committed) \in Nat
    BY LenProperties DEF TypeOK
  <2>3. Committed \subseteq Committed'
    BY <2>1, <2>2, SaveFields DEF Committed
  <2> QED BY <2>1, <2>3, SaveFields DEF CardForward, Migrated
<1>2. CASE ~\E w \in ReviewWorker : SaveCommits(w)
  <2>1. committed' = committed
    BY <1>2, ZenonT(60) DEF Next, vars, ReviewNext, ReviewStep, ReceiveReview, LookUp, ReadCard, SaveFails,
         Recheck, ReadBack, ReviewReadFails, EndReview,
         DeleteNext, DeleteStep, ReceiveDelete, MarkDeleting, ReadHead, Trim,
         RemoveCard, DeleteFails, EndDelete,
         EditNext, EditStep, ReceiveEdit, EditWrites, EditRefused, EditFails, EndEdit
  <2>2. \/ card' = card
        \/ \E d \in DeleteWorker : DeleteNext(d)
        \/ \E e \in EditWorker : EditWrites(e)
    BY <1>2, ZenonT(60) DEF Next, vars, ReviewNext, ReviewStep, ReceiveReview, LookUp, ReadCard, SaveFails,
         Recheck, ReadBack, ReviewReadFails, EndReview,
         EditNext, EditStep, ReceiveEdit, EditRefused, EditFails, EndEdit
  <2>3. /\ card'.exists => card.exists
        /\ card'.exists /\ card.deleting => card'.deleting
        /\ card'.exists => card'.schedule = card.schedule
    BY <2>2, DeleteFields, EditFields
  <2> QED BY <2>1, <2>3 DEF CardForward, Migrated, Committed
<1> QED BY <1>1, <1>2

----------------------------------------------------------------------------
(* The answers to a review *)

\* ReviewIsTrue, of a local state by itself.
TrueOf(l) ==
    LET answered(status) == l.pc = "done" /\ l.status = status
    IN
    /\ l.pc = "recheck" => l.status \in {409, 500}
    /\ l.pc = "save" => l.review.rating = l.rating
    /\ l.pc = "readback" \/ answered(200) =>
         l.review \in Committed /\ SameEvent(l.review, l)
    /\ answered(200) => l.seen >= l.review.revision
    /\ answered(404) => ~card.exists
    /\ l.late => \E r \in Committed : SameEvent(r, l)
    /\ l.late /\ (l.pc \in {"card", "save", "recheck"} \/ answered(409)) =>
         card.deleting \/ ~card.exists

LEMMA TruthOfLocal ==
  ASSUME NEW w \in ReviewWorker
  PROVE  ReviewIsTrue(w) <=> TrueOf(rw[w])
  BY DEF ReviewIsTrue, TrueOf

LEMMA TruthFrame ==
  ASSUME CardForward, NEW l, TrueOf(l)
  PROVE  TrueOf(l)'
<1>1. \A r : SameEvent(r, l)' <=> SameEvent(r, l)
  BY DEF SameEvent
<1>2. /\ l.pc = "readback" \/ (l.pc = "done" /\ l.status = 200) =>
           l.review \in Committed' /\ SameEvent(l.review, l)
      /\ l.late => \E r \in Committed' : SameEvent(r, l)
  BY DEF CardForward, TrueOf
<1> QED BY <1>1, <1>2 DEF CardForward, TrueOf

\* In a table that is not being emptied a late retry finds its own record.
LEMMA LateFindsItself ==
  ASSUME TypeOK, HistoryInductive, NEW l, l.late => \E r \in Committed : SameEvent(r, l),
         l.late, card.exists, ~card.deleting
  PROVE  /\ \E r \in reviews : r.id = l.id
         /\ \A r \in reviews : r.id = l.id => SameEvent(r, l)
<1>1. PICK r \in Committed : SameEvent(r, l)
  OBVIOUS
<1>2. reviews = Committed
  <2>1. PICK k \in 0..Len(committed) : Stored(k)
    BY DEF HistoryInductive, HistoryIsWhole, HistoryIsIntact
  <2> QED BY <2>1 DEF Stored, Committed
<1>3. \A s \in Committed : s.id = r.id => s = r
  BY DEF HistoryInductive, HistoryIsWhole, OneReviewPerRequest, Committed
<1> QED BY <1>1, <1>2, <1>3 DEF SameEvent

LEMMA ReplayIsTrue ==
  ASSUME TypeOK, HistoryInductive, NEW w \in ReviewWorker, TrueOf(rw[w]),
         rw[w].pc \in {"lookup", "recheck"},
         NEW r \in reviews, r.id = rw[w].id
  PROVE  TrueOf(Replay(w, r))
<1>l. PICK l \in ReviewLocal : l = rw[w]
  BY DEF TypeOK
<1>1. r \in Committed
  BY DEF HistoryInductive, HistoryIsWhole, HistoryIsIntact, Stored, Committed
<1>2. CASE r.rating = l.rating /\ r.revision = Succ(l.expected)
  <2>1. PICK m : m = [l EXCEPT !.pc = "readback", !.review = r, !.status = 0]
    OBVIOUS
  <2>2. Replay(w, r) = m
    BY <1>l, <1>2, <2>1 DEF Replay
  <2>3. /\ m.pc = "readback" /\ m.status = 0 /\ m.id = l.id /\ m.rating = l.rating
        /\ m.expected = l.expected /\ m.review = r /\ m.late = l.late
    BY <2>1, ReviewFoundFields
  <2>4. \A s : SameEvent(s, m) <=> SameEvent(s, l)
    BY <2>3 DEF SameEvent
  <2>5. SameEvent(r, m)
    BY <1>l, <1>2, <2>3 DEF SameEvent
  <2> QED BY <1>l, <1>1, <2>2, <2>3, <2>4, <2>5 DEF TrueOf
<1>3. CASE ~(r.rating = l.rating /\ r.revision = Succ(l.expected))
  <2>1. PICK m : m = [l EXCEPT !.pc = "done", !.status = 409]
    OBVIOUS
  <2>2. Replay(w, r) = m
    BY <1>l, <1>3, <2>1 DEF Replay
  <2>3. /\ m.pc = "done" /\ m.status = 409 /\ m.id = l.id /\ m.rating = l.rating
        /\ m.expected = l.expected /\ m.late = l.late
    BY <2>1, ReviewFields
  <2>4. \A s : SameEvent(s, m) <=> SameEvent(s, l)
    BY <2>3 DEF SameEvent
  <2>5. l.late => card.deleting \/ ~card.exists
    <3>1. ~SameEvent(r, l)
      BY <1>3 DEF SameEvent
    <3>2. l.late => \E s \in Committed : SameEvent(s, l)
      BY <1>l DEF TrueOf
    <3> QED BY <1>l, <3>1, <3>2, LateFindsItself
  <2> QED BY <1>l, <2>2, <2>3, <2>4, <2>5 DEF TrueOf
<1> QED BY <1>2, <1>3

LEMMA FailureIsTrue ==
  ASSUME TypeOK, NEW w \in ReviewWorker, TrueOf(rw[w]), NEW s, rw' = Answer(w, s),
         s # 200, s = 404 => ~card.exists,
         s = 409 /\ rw[w].late => card.deleting \/ ~card.exists
  PROVE  \E m : rw'[w] = m /\ TrueOf(m)
<1>l. PICK l \in ReviewLocal : l = rw[w]
  BY DEF TypeOK
<1>1. PICK m : m = [l EXCEPT !.pc = "done", !.status = s]
  OBVIOUS
<1>2. rw'[w] = m
  BY <1>l, <1>1 DEF Answer, TypeOK
<1>3. /\ m.pc = "done" /\ m.status = s /\ m.id = l.id /\ m.rating = l.rating
      /\ m.expected = l.expected /\ m.late = l.late
  BY <1>1, ReviewFields
<1>4. \A r : SameEvent(r, m) <=> SameEvent(r, l)
  BY <1>3 DEF SameEvent
<1>5. TrueOf(m)
  BY <1>l, <1>3, <1>4 DEF TrueOf
<1> QED BY <1>2, <1>5

LEMMA ReviewAnswersTruth ==
  ASSUME TypeOK, HistoryInductive, NEW w \in ReviewWorker, TrueOf(rw[w]), ReviewNext(w),
         ~SaveCommits(w)
  PROVE  \E m : rw'[w] = m /\ TrueOf(m)
<1>l. PICK l \in ReviewLocal : l = rw[w]
  BY DEF TypeOK
<1>1. CASE ReceiveReview(w)
  <2>1. PICK i \in RequestId, g \in Rating, n \in 0..MaxRevision :
          rw' = [rw EXCEPT ![w] =
            IF ValidRevision(n)
            THEN [[IdleReview EXCEPT !.id = i, !.rating = g, !.expected = n] EXCEPT
                    !.pc = "lookup",
                    !.late = \E r \in Committed :
                      SameEvent(r, [IdleReview EXCEPT !.id = i, !.rating = g, !.expected = n])]
            ELSE [[IdleReview EXCEPT !.id = i, !.rating = g, !.expected = n] EXCEPT
                    !.pc = "done", !.status = 400]]
    BY <1>1, Zenon DEF ReceiveReview
  <2>r. PICK req : req = [IdleReview EXCEPT !.id = i, !.rating = g, !.expected = n]
    OBVIOUS
  <2>m. PICK m : m = rw'[w]
    OBVIOUS
  <2>2. req \in [pc: {"idle"}, id: {i}, rating: {g}, expected: {n}, review: {NoReview},
                 status: {0}, seen: {0}, late: {FALSE}]
    BY <2>r DEF IdleReview
  <2>3. CASE ~ValidRevision(n)
    <3>1. m = [req EXCEPT !.pc = "done", !.status = 400]
      BY <2>1, <2>r, <2>m, <2>3 DEF TypeOK
    <3>2. m.pc = "done" /\ m.status = 400 /\ m.late = FALSE
      BY <2>2, <3>1
    <3>3. TrueOf(m)
      BY <3>2 DEF TrueOf
    <3> QED BY <2>m, <3>3
  <2>4. CASE ValidRevision(n)
    <3>1. m = [req EXCEPT !.pc = "lookup",
                          !.late = \E r \in Committed : SameEvent(r, req)]
      BY <2>1, <2>r, <2>m, <2>4, Zenon DEF TypeOK
    <3>2. m.pc = "lookup" /\ m.id = i /\ m.rating = g /\ m.expected = n
      BY <2>2, <3>1
    <3>3. m.late = \E r \in Committed : SameEvent(r, req)
      BY <2>2, <3>1, Zenon
    <3>4. \A r : SameEvent(r, m) <=> SameEvent(r, req)
      BY <2>2, <3>2 DEF SameEvent
    <3>5. TrueOf(m)
      BY <3>2, <3>3, <3>4 DEF TrueOf
    <3> QED BY <2>m, <3>5
  <2> QED BY <2>3, <2>4
<1>2. CASE LookUp(w)
  <2>1. \/ /\ rw'[w] = [l EXCEPT !.pc = "card"]
           /\ \A r \in reviews : r.id # l.id
        \/ \E r \in reviews : r.id = rw[w].id /\ rw'[w] = Replay(w, r)
    BY <1>l, <1>2 DEF LookUp, TypeOK
  <2>2. CASE rw'[w] = [l EXCEPT !.pc = "card"] /\ \A r \in reviews : r.id # l.id
    <3>1. PICK m : m = [l EXCEPT !.pc = "card"]
      OBVIOUS
    <3>2. /\ m.pc = "card" /\ m.id = l.id /\ m.rating = l.rating
          /\ m.expected = l.expected /\ m.late = l.late
      BY <3>1, ReviewGotoFields
    <3>3. \A r : SameEvent(r, m) <=> SameEvent(r, l)
      BY <3>2 DEF SameEvent
    <3>4. l.late => \E r \in Committed : SameEvent(r, l)
      BY <1>l DEF TrueOf
    <3>5. l.late => card.deleting \/ ~card.exists
      BY <2>2, <3>4, LateFindsItself
    <3>6. TrueOf(m)
      BY <3>2, <3>3, <3>4, <3>5 DEF TrueOf
    <3> QED BY <2>2, <3>1, <3>6
  <2>3. rw[w].pc = "lookup"
    BY <1>2 DEF LookUp
  <2> QED BY <2>1, <2>2, <2>3, ReplayIsTrue
<1>3. CASE ReadCard(w)
  <2>1. l.pc = "card" /\ (l.late => card.deleting \/ ~card.exists)
    BY <1>l, <1>3 DEF ReadCard, TrueOf
  <2>2. CASE rw' = Answer(w, 404) /\ ~card.exists
    BY <2>2, FailureIsTrue
  <2>3. CASE rw' = Answer(w, 409)
    BY <1>l, <2>1, <2>3, FailureIsTrue
  <2>4. CASE rw' = [rw EXCEPT ![w] = [@ EXCEPT !.pc = "save", !.review = Draft(w)]]
    <3>1. PICK m : m = [l EXCEPT !.pc = "save", !.review = Draft(w)]
      OBVIOUS
    <3>2. /\ m.pc = "save" /\ m.id = l.id /\ m.rating = l.rating
          /\ m.expected = l.expected /\ m.late = l.late /\ m.review = Draft(w)
      BY <3>1, ReviewDraftFields
    <3>3. \A r : SameEvent(r, m) <=> SameEvent(r, l)
      BY <3>2 DEF SameEvent
    <3>4. Draft(w).rating = l.rating
      BY <1>l DEF Draft
    <3>5. TrueOf(m)
      BY <1>l, <2>1, <3>2, <3>3, <3>4 DEF TrueOf
    <3>6. rw'[w] = m
      BY <1>l, <2>4, <3>1 DEF TypeOK
    <3> QED BY <3>5, <3>6
  <2> QED BY <1>3, <2>2, <2>3, <2>4 DEF ReadCard
<1>4. CASE SaveFails(w)
  <2>1. PICK s \in {409, 500} : rw'[w] = [l EXCEPT !.pc = "recheck", !.status = s]
    BY <1>l, <1>4 DEF SaveFails, TypeOK
  <2>2. PICK m : m = [l EXCEPT !.pc = "recheck", !.status = s]
    OBVIOUS
  <2>3. /\ m.pc = "recheck" /\ m.status = s /\ m.id = l.id /\ m.rating = l.rating
        /\ m.expected = l.expected /\ m.late = l.late
    BY <2>2, ReviewFields
  <2>4. \A r : SameEvent(r, m) <=> SameEvent(r, l)
    BY <2>3 DEF SameEvent
  <2>5. l.pc = "save"
    BY <1>l, <1>4 DEF SaveFails
  <2>6. TrueOf(m)
    BY <1>l, <2>1, <2>3, <2>4, <2>5 DEF TrueOf
  <2> QED BY <2>1, <2>2, <2>6
<1>5. CASE Recheck(w)
  <2>1. \/ rw'[w] = [l EXCEPT !.pc = "done"]
        \/ \E r \in reviews : r.id = rw[w].id /\ rw'[w] = Replay(w, r)
    BY <1>l, <1>5 DEF Recheck, TypeOK
  <2>p. l.pc = "recheck"
    BY <1>l, <1>5 DEF Recheck
  <2>2. CASE rw'[w] = [l EXCEPT !.pc = "done"]
    <3>1. PICK m : m = [l EXCEPT !.pc = "done"]
      OBVIOUS
    <3>2. /\ m.pc = "done" /\ m.id = l.id /\ m.rating = l.rating
          /\ m.expected = l.expected /\ m.late = l.late /\ m.status = l.status
      BY <3>1, ReviewGotoFields
    <3>3. \A r : SameEvent(r, m) <=> SameEvent(r, l)
      BY <3>2 DEF SameEvent
    <3>4. l.status \in {409, 500}
      BY <1>l, <2>p DEF TrueOf
    <3>5. TrueOf(m)
      BY <1>l, <2>p, <3>2, <3>3, <3>4 DEF TrueOf
    <3> QED BY <2>2, <3>1, <3>5
  <2> QED BY <1>l, <2>1, <2>2, <2>p, ReplayIsTrue
<1>6. CASE ReadBack(w)
  <2>1. CASE rw' = Answer(w, 404) /\ ~card.exists
    BY <2>1, FailureIsTrue
  <2>2. CASE /\ card.exists
             /\ rw' = [rw EXCEPT ![w] = [@ EXCEPT !.pc = "done", !.status = 200,
                                                  !.seen = card.revision]]
    <3>1. PICK m : m = [l EXCEPT !.pc = "done", !.status = 200, !.seen = card.revision]
      OBVIOUS
    <3>2. /\ m.pc = "done" /\ m.status = 200 /\ m.id = l.id /\ m.rating = l.rating
          /\ m.expected = l.expected /\ m.late = l.late /\ m.review = l.review
          /\ m.seen = card.revision
      BY <3>1, ReviewSeenFields
    <3>3. \A r : SameEvent(r, m) <=> SameEvent(r, l)
      BY <3>2 DEF SameEvent
    <3>4. l.pc = "readback"
      BY <1>l, <1>6 DEF ReadBack
    <3>5. l.review \in Committed
      BY <1>l, <3>4 DEF TrueOf
    <3>6. card.revision >= l.review.revision
      <4>1. card.revision = Len(committed)
        BY <2>2 DEF HistoryInductive, HistoryIsWhole, EveryRatingCountsOnce
      <4>2. PICK i \in 1..Len(committed) : l.review = committed[i]
        BY <3>5 DEF Committed
      <4>3. l.review.revision = i
        BY <4>2 DEF HistoryInductive, HistoryIsWhole, RecordsAreLinked
      <4>4. Len(committed) \in Nat
        BY LenProperties DEF TypeOK
      <4> QED BY <4>1, <4>3, <4>4
    <3>7. TrueOf(m)
      BY <1>l, <3>2, <3>3, <3>4, <3>5, <3>6 DEF TrueOf
    <3>8. rw'[w] = m
      BY <1>l, <2>2, <3>1 DEF TypeOK
    <3> QED BY <3>7, <3>8
  <2> QED BY <1>6, <2>1, <2>2 DEF ReadBack
<1>7. CASE ReviewReadFails(w)
  BY <1>7, FailureIsTrue DEF ReviewReadFails
<1>8. CASE EndReview(w)
  <2>1. rw'[w] = IdleReview
    BY <1>8 DEF EndReview, TypeOK
  <2>2. IdleReview.pc = "idle" /\ IdleReview.late = FALSE
    BY DEF IdleReview
  <2>3. TrueOf(IdleReview)
    BY <2>2 DEF TrueOf
  <2> QED BY <2>1, <2>3
<1> QED BY <1>1, <1>2, <1>3, <1>4, <1>5, <1>6, <1>7, <1>8 DEF ReviewNext, ReviewStep

LEMMA SaveAnswersTruth ==
  ASSUME TypeOK, HistoryInductive, NEW w \in ReviewWorker, TrueOf(rw[w]), SaveCommits(w)
  PROVE  \E m : rw'[w] = m /\ TrueOf(m)'
<1>l. PICK l \in ReviewLocal : l = rw[w]
  BY DEF TypeOK
<1>m. PICK m : m = rw'[w]
  OBVIOUS
<1>1. /\ l.pc = "save" /\ card.exists /\ ~card.deleting
      /\ \/ m = [l EXCEPT !.pc = "readback"]
         \/ m = [l EXCEPT !.pc = "recheck", !.status = 500]
  BY <1>l, <1>m DEF SaveCommits, SaveAllowed, TypeOK
<1>2. l.late = FALSE /\ l.review.rating = l.rating
  BY <1>l, <1>1 DEF TrueOf, ReviewLocal
<1>3. /\ m.pc = "readback" \/ (m.pc = "recheck" /\ m.status = 500)
      /\ m.id = l.id /\ m.rating = l.rating /\ m.expected = l.expected
      /\ m.review = l.review /\ m.late = l.late
  <2>1. CASE m = [l EXCEPT !.pc = "readback"]
    BY <2>1, ReviewGotoFields
  <2>2. CASE m = [l EXCEPT !.pc = "recheck", !.status = 500]
    BY <2>2, ReviewFields
  <2> QED BY <1>1, <2>1, <2>2
<1>4. SameEvent(m.review, m)
  <2>1. /\ l.review.id = l.id /\ l.review.revision = l.expected + 1
        /\ l.expected # MaxRevision
    BY <1>l, <1>1 DEF HistoryInductive, DraftIsCurrent
  <2> QED BY <1>2, <1>3, <2>1 DEF SameEvent, Succ
<1>5. m.review \in Committed'
  <2>1. Len(committed) \in Nat
    BY LenProperties DEF TypeOK
  <2> QED BY <1>l, <1>3, <2>1, SaveFields DEF Committed
<1>6. SameEvent(m.review, m)'
  BY <1>4 DEF SameEvent
<1>7. TrueOf(m)'
  BY <1>2, <1>3, <1>5, <1>6 DEF TrueOf
<1> QED BY <1>m, <1>7

LEMMA ReviewsStayTrue ==
  ASSUME TypeOK, HistoryInductive, [Next]_vars, CardForward,
         NEW w \in ReviewWorker, ReviewIsTrue(w)
  PROVE  ReviewIsTrue(w)'
<1>1. TrueOf(rw[w])
  BY TruthOfLocal
<1>2. CASE ReviewNext(w)
  <2>1. CASE SaveCommits(w)
    <3>1. PICK m : rw'[w] = m /\ TrueOf(m)'
      BY <1>1, <2>1, SaveAnswersTruth
    <3> QED BY <3>1 DEF ReviewIsTrue, TrueOf
  <2>2. CASE ~SaveCommits(w)
    <3>1. PICK m : rw'[w] = m /\ TrueOf(m)
      BY <1>1, <1>2, <2>2, ReviewAnswersTruth
    <3>2. TrueOf(m)'
      BY <3>1, TruthFrame
    <3> QED BY <3>1, <3>2 DEF ReviewIsTrue, TrueOf
  <2> QED BY <2>1, <2>2
<1>3. CASE rw'[w] = rw[w]
  <2>1. PICK l : l = rw[w] /\ TrueOf(l)
    BY <1>1
  <2>2. TrueOf(l)'
    BY <2>1, TruthFrame
  <2> QED BY <1>3, <2>1, <2>2 DEF ReviewIsTrue, TrueOf
<1>4. ReviewNext(w) \/ rw'[w] = rw[w]
  <2>1. CASE \E v \in ReviewWorker \ {w} : ReviewNext(v)
    <3>1. PICK v \in ReviewWorker \ {w} : ReviewNext(v)
      BY <2>1
    <3>2. \E m : rw' = [rw EXCEPT ![v] = m]
      <4>1. CASE ReceiveReview(v) \/ EndReview(v)
        BY <4>1, ZenonT(60) DEF ReceiveReview, EndReview
      <4>2. CASE LookUp(v) \/ Recheck(v)
        BY <4>2 DEF LookUp, Recheck
      <4>3. CASE ReadCard(v) \/ ReadBack(v)
        BY <4>3 DEF ReadCard, ReadBack, Answer
      <4>4. CASE SaveFails(v) \/ ReviewReadFails(v)
        BY <4>4 DEF SaveFails, ReviewReadFails, Answer
      <4>5. CASE SaveCommits(v)
        BY <4>5 DEF SaveCommits
      <4> QED BY <3>1, <4>1, <4>2, <4>3, <4>4, <4>5 DEF ReviewNext, ReviewStep
    <3> QED BY <3>2 DEF TypeOK
  <2>2. CASE UNCHANGED rw
    BY <2>2
  <2>3. UNCHANGED rw \/ \E v \in ReviewWorker : ReviewNext(v)
    BY DEF Next, vars, DeleteNext, DeleteStep, ReceiveDelete, MarkDeleting, ReadHead, Trim,
           RemoveCard, DeleteFails, EndDelete,
           EditNext, EditStep, ReceiveEdit, EditWrites, EditRefused, EditFails, EndEdit
  <2> QED BY <2>1, <2>2, <2>3
<1> QED BY <1>2, <1>3, <1>4

----------------------------------------------------------------------------
(* The answers to a delete *)

\* Only RemoveCard answers that the card is gone, and it leaves no card.
LEMMA DeletesStayTrue ==
  ASSUME TypeOK, [Next]_vars, CardForward, NEW d \in DeleteWorker, DeleteIsTrue(d)
  PROVE  DeleteIsTrue(d)'
<1>l. PICK l \in DeleteLocal : l = dw[d]
  BY DEF TypeOK
<1>1. CASE dw'[d] = dw[d]
  BY <1>1 DEF DeleteIsTrue, CardForward
<1>2. CASE DeleteNext(d)
  <2>1. CASE RemoveCard(d)
    <3>1. ~card'.exists
      BY <2>1 DEF RemoveCard, GoneCard
    <3> QED BY <3>1 DEF DeleteIsTrue
  <2>2. CASE ~RemoveCard(d)
    <3>1. ASSUME dw' = AnswerDelete(d, 500) PROVE DeleteIsTrue(d)'
      <4>1. dw'[d] = [l EXCEPT !.pc = "done", !.status = 500]
        BY <1>l, <3>1 DEF AnswerDelete, TypeOK
      <4>2. dw'[d].status = 500
        BY <4>1 DEF DeleteLocal
      <4> QED BY <4>2 DEF DeleteIsTrue
    <3>2. ASSUME NEW h, dw' = AtHead(d, h) PROVE DeleteIsTrue(d)'
      <4>1. dw'[d].pc \in {"remove", "read"}
        BY <3>2 DEF AtHead, TypeOK, IdleDelete
      <4> QED BY <4>1 DEF DeleteIsTrue
    <3>3. CASE ReceiveDelete(d)
      <4>1. dw'[d] = [l EXCEPT !.pc = "mark"]
        BY <1>l, <3>3 DEF ReceiveDelete, TypeOK
      <4>2. dw'[d].pc = "mark"
        BY <4>1 DEF DeleteLocal
      <4> QED BY <4>2 DEF DeleteIsTrue
    <3>4. CASE ReadHead(d)
      <4>1. CASE dw' # AnswerDelete(d, 500)
        <5>1. PICK r \in reviews : dw'[d] = [l EXCEPT !.pc = "trim", !.review = r]
          BY <1>l, <3>4, <4>1 DEF ReadHead, TypeOK
        <5>2. dw'[d].pc = "trim"
          BY <5>1 DEF DeleteLocal
        <5> QED BY <5>2 DEF DeleteIsTrue
      <4> QED BY <3>1, <4>1
    <3>5. CASE MarkDeleting(d) \/ Trim(d)
      BY <3>1, <3>2, <3>5 DEF MarkDeleting, Trim
    <3>6. CASE DeleteFails(d)
      BY <3>1, <3>6 DEF DeleteFails
    <3>7. CASE EndDelete(d)
      <4>1. dw'[d].pc = "idle"
        BY <3>7 DEF EndDelete, IdleDelete, TypeOK
      <4> QED BY <4>1 DEF DeleteIsTrue
    <3> QED BY <1>2, <2>2, <3>3, <3>4, <3>5, <3>6, <3>7 DEF DeleteNext, DeleteStep
  <2> QED BY <2>1, <2>2
<1>3. DeleteNext(d) \/ dw'[d] = dw[d]
  <2>1. CASE \E c \in DeleteWorker \ {d} : DeleteNext(c)
    <3>1. PICK c \in DeleteWorker \ {d} : DeleteNext(c)
      BY <2>1
    <3>2. \E m : dw' = [dw EXCEPT ![c] = m]
      <4>1. CASE ReceiveDelete(c) \/ EndDelete(c)
        BY <4>1, ZenonT(60) DEF ReceiveDelete, EndDelete
      <4>2. CASE MarkDeleting(c) \/ Trim(c) \/ ReadHead(c)
        BY <4>2 DEF MarkDeleting, Trim, ReadHead, AtHead, AnswerDelete
      <4>3. CASE RemoveCard(c) \/ DeleteFails(c)
        BY <4>3 DEF RemoveCard, DeleteFails, AnswerDelete
      <4> QED BY <3>1, <4>1, <4>2, <4>3 DEF DeleteNext, DeleteStep
    <3> QED BY <3>2 DEF TypeOK
  <2>2. UNCHANGED dw \/ \E c \in DeleteWorker : DeleteNext(c)
    BY ZenonT(60) DEF Next, vars, ReviewNext, ReviewStep, ReceiveReview, LookUp, ReadCard, SaveCommits,
           SaveFails, Recheck, ReadBack, ReviewReadFails, EndReview,
           EditNext, EditStep, ReceiveEdit, EditWrites, EditRefused, EditFails, EndEdit
  <2> QED BY <2>1, <2>2
<1> QED BY <1>1, <1>2, <1>3

----------------------------------------------------------------------------
(* The answers to an edit *)

\* A refused second attempt met a migrated card, and a refused third one, on a
\* card that has stayed migrated since, no card.
LEMMA EditsStayTrue ==
  ASSUME TypeOK, [Next]_vars, CardForward, NEW e \in EditWorker, EditIsTrue(e)
  PROVE  EditIsTrue(e)'
<1>l. PICK l \in EditLocal : l = ew[e]
  BY DEF TypeOK
<1>1. CASE ew'[e] = ew[e]
  BY <1>1 DEF EditIsTrue, CardForward
<1>2. CASE EditNext(e)
  <2>1. CASE ReceiveEdit(e)
    <3>1. ew'[e].pc = "attempt" /\ ew'[e].attempt = 1
      BY <2>1 DEF ReceiveEdit, TypeOK, IdleEdit
    <3> QED BY <3>1 DEF EditIsTrue
  <2>2. CASE EditWrites(e)
    <3>1. CASE \E s \in {200, 500} : ew' = AnswerEdit(e, s)
      <4>1. PICK s \in {200, 500} : ew' = AnswerEdit(e, s)
        BY <3>1
      <4>3. ew'[e] = [l EXCEPT !.pc = "done", !.status = s]
        BY <1>l, <4>1 DEF AnswerEdit, TypeOK
      <4>2. ew'[e].pc = "done" /\ ew'[e].status = s
        BY <4>3 DEF EditLocal
      <4> QED BY <4>2 DEF EditIsTrue
    <3> QED BY <1>1, <2>2, <3>1 DEF EditWrites
  <2>3. CASE EditRefused(e)
    <3>1. l.pc = "attempt" /\ card' = card
      BY <1>l, <2>3 DEF EditRefused
    <3>r. card.exists => Migrated # AssumesMigrated(l.attempt)
      BY <1>l, <2>3, Zenon DEF EditRefused, EditAllowed
    <3>b. Migrated \in BOOLEAN /\ AssumesMigrated(l.attempt) \in BOOLEAN
      BY DEF Migrated, AssumesMigrated
    <3>2. CASE l.attempt = 3 /\ ew' = AnswerEdit(e, 404)
      <4>1. ~card.exists
        <5>1. AssumesMigrated(l.attempt)
          BY <3>2 DEF AssumesMigrated
        <5>2. card.exists => Migrated
          BY <1>l, <3>1, <3>2 DEF EditIsTrue
        <5> QED BY <3>r, <3>b, <5>1, <5>2, Zenon
      <4>2. ew'[e] = [l EXCEPT !.pc = "done", !.status = 404]
        BY <1>l, <3>2 DEF AnswerEdit, TypeOK
      <4>3. ew'[e].pc = "done"
        BY <4>2 DEF EditLocal
      <4> QED BY <3>1, <4>1, <4>3 DEF EditIsTrue
    <3>3. CASE l.attempt < 3 /\ ew' = [ew EXCEPT ![e].attempt = @ + 1]
      <4>1. ew'[e] = [l EXCEPT !.attempt = l.attempt + 1]
        BY <1>l, <3>3 DEF TypeOK
      <4>2. ew'[e].pc = l.pc /\ ew'[e].attempt = l.attempt + 1
        BY <4>1 DEF EditLocal
      <4>3. l.attempt \in 1..3
        BY DEF EditLocal
      <4>4. l.attempt = 2 /\ card.exists => Migrated
        <5>1. l.attempt = 2 => ~AssumesMigrated(l.attempt)
          BY DEF AssumesMigrated
        <5> QED BY <3>r, <3>b, <5>1, Zenon
      <4>5. Migrated' <=> Migrated
        BY <3>1 DEF Migrated
      <4> QED BY <3>1, <4>2, <4>3, <4>4, <4>5 DEF EditIsTrue
    <3> QED BY <1>l, <2>3, <3>2, <3>3 DEF EditRefused
  <2>4. CASE EditFails(e)
    <3>1. ew'[e] = [l EXCEPT !.pc = "done", !.status = 500]
      BY <1>l, <2>4 DEF EditFails, AnswerEdit, TypeOK
    <3>2. ew'[e].pc = "done" /\ ew'[e].status = 500
      BY <3>1 DEF EditLocal
    <3> QED BY <3>2 DEF EditIsTrue
  <2>5. CASE EndEdit(e)
    <3>1. ew'[e].pc = "idle"
      BY <2>5 DEF EndEdit, IdleEdit, TypeOK
    <3> QED BY <3>1 DEF EditIsTrue
  <2> QED BY <1>2, <2>1, <2>2, <2>3, <2>4, <2>5 DEF EditNext, EditStep
<1>3. EditNext(e) \/ ew'[e] = ew[e]
  <2>1. CASE \E c \in EditWorker \ {e} : EditNext(c)
    <3>1. PICK c \in EditWorker \ {e} : EditNext(c)
      BY <2>1
    <3>2. ew' = ew \/ \E m : ew' = [ew EXCEPT ![c] = m]
      <4>1. CASE ReceiveEdit(c) \/ EndEdit(c)
        BY <4>1, ZenonT(60) DEF ReceiveEdit, EndEdit
      <4>2. CASE EditWrites(c) \/ EditFails(c) \/ EditRefused(c)
        BY <4>2 DEF EditWrites, EditFails, EditRefused, AnswerEdit
      <4> QED BY <3>1, <4>1, <4>2 DEF EditNext, EditStep
    <3> QED BY <3>2 DEF TypeOK
  <2>2. UNCHANGED ew \/ \E c \in EditWorker : EditNext(c)
    BY ZenonT(60) DEF Next, vars, ReviewNext, ReviewStep, ReceiveReview, LookUp, ReadCard, SaveCommits,
           SaveFails, Recheck, ReadBack, ReviewReadFails, EndReview,
           DeleteNext, DeleteStep, ReceiveDelete, MarkDeleting, ReadHead, Trim,
           RemoveCard, DeleteFails, EndDelete
  <2> QED BY <2>1, <2>2
<1> QED BY <1>1, <1>2, <1>3

----------------------------------------------------------------------------
(* The attributes that reviews and edits share *)

LEMMA ContentStep ==
  ASSUME TypeOK, [Next]_vars, EditsSurviveReviews
  PROVE  EditsSurviveReviews'
<1>1. CASE \E w \in ReviewWorker : SaveCommits(w)
  <2>1. lastEdit' = lastEdit
    BY <1>1 DEF SaveCommits
  <2> QED BY <1>1, <2>1, SaveFields DEF EditsSurviveReviews
<1>2. CASE \E e \in EditWorker : EditWrites(e)
  BY <1>2, EditFields DEF EditsSurviveReviews
<1>3. CASE \E d \in DeleteWorker : DeleteNext(d)
  <2>1. lastEdit' = lastEdit
    BY <1>3 DEF DeleteNext, DeleteStep, ReceiveDelete, MarkDeleting, ReadHead, Trim,
                RemoveCard, DeleteFails, EndDelete
  <2> QED BY <1>3, <2>1, DeleteFields DEF EditsSurviveReviews
<1>4. CASE UNCHANGED <<card, lastEdit>>
  BY <1>4 DEF EditsSurviveReviews
<1> QED BY <1>1, <1>2, <1>3, <1>4
        DEF Next, vars, ReviewNext, ReviewStep, ReceiveReview, LookUp, ReadCard, SaveFails,
            Recheck, ReadBack, ReviewReadFails, EndReview,
            EditNext, EditStep, ReceiveEdit, EditRefused, EditFails, EndEdit

\* A card with a review is migrated, so no edit reaches its recall attributes.
LEMMA RecallStep ==
  ASSUME TypeOK, HistoryInductive, [Next]_vars, ReviewStateSurvivesEdits
  PROVE  ReviewStateSurvivesEdits'
<1>1. CASE \E w \in ReviewWorker : SaveCommits(w)
  <2>1. PICK w \in ReviewWorker : SaveCommits(w)
    BY <1>1
  <2>2. PICK r : r = rw[w].review
    OBVIOUS
  <2>3. /\ card'.accessed = r.id /\ card'.correct = (r.rating # Again)
        /\ Len(committed') = Len(committed) + 1
        /\ committed'[Len(committed) + 1] = r
    BY <2>1, <2>2, SaveFields
  <2>4. committed'[Len(committed')] = r
    BY <2>3
  <2> QED BY <2>3, <2>4, Zenon DEF ReviewStateSurvivesEdits
<1>2. CASE ~\E w \in ReviewWorker : SaveCommits(w)
  <2>1. committed' = committed
    BY <1>2, ZenonT(60) DEF Next, vars, ReviewNext, ReviewStep, ReceiveReview, LookUp, ReadCard, SaveFails,
         Recheck, ReadBack, ReviewReadFails, EndReview,
         DeleteNext, DeleteStep, ReceiveDelete, MarkDeleting, ReadHead, Trim,
         RemoveCard, DeleteFails, EndDelete,
         EditNext, EditStep, ReceiveEdit, EditWrites, EditRefused, EditFails, EndEdit
  <2>2. \/ card' = card
        \/ \E d \in DeleteWorker : DeleteNext(d)
        \/ \E e \in EditWorker : EditWrites(e)
    BY <1>2, ZenonT(60) DEF Next, vars, ReviewNext, ReviewStep, ReceiveReview, LookUp, ReadCard, SaveFails,
         Recheck, ReadBack, ReviewReadFails, EndReview,
         EditNext, EditStep, ReceiveEdit, EditRefused, EditFails, EndEdit
  <2>3. ASSUME card'.exists, committed # <<>>
        PROVE  /\ card.exists
               /\ card'.accessed = card.accessed /\ card'.correct = card.correct
    <3>1. CASE card' = card
      BY <2>3, <3>1
    <3>2. CASE \E d \in DeleteWorker : DeleteNext(d)
      BY <2>3, <3>2, DeleteFields
    <3>3. CASE \E e \in EditWorker : EditWrites(e)
      <4>1. card.exists
        BY <3>3, EditFields
      <4>2. Migrated
        <5>1. card.schedule = Ratings(Len(committed))
          BY <4>1 DEF HistoryInductive, HistoryIsWhole, EveryRatingCountsOnce
        <5>2. Len(committed) \in Nat \ {0}
          BY <2>3, LenProperties, EmptySeq DEF TypeOK
        <5>3. 1 \in DOMAIN Ratings(Len(committed))
          BY <5>2 DEF Ratings
        <5>4. 1 \notin DOMAIN << >>
          OBVIOUS
        <5> QED BY <5>1, <5>3, <5>4 DEF Migrated
      <4> QED BY <3>3, <4>1, <4>2, EditFields
    <3> QED BY <2>2, <3>1, <3>2, <3>3
  <2> QED BY <2>1, <2>3, Zenon DEF ReviewStateSurvivesEdits
<1> QED BY <1>1, <1>2

----------------------------------------------------------------------------
(* The theorems *)

LEMMA AnswersInit == Init => AnswersInductive
<1> SUFFICES ASSUME Init PROVE AnswersInductive
  OBVIOUS
<1> USE DEF Init
<1>1. ASSUME NEW w \in ReviewWorker PROVE ReviewIsTrue(w)
  BY DEF ReviewIsTrue, IdleReview
<1>2. \A d \in DeleteWorker : DeleteIsTrue(d)
  BY DEF DeleteIsTrue, IdleDelete
<1>3. \A e \in EditWorker : EditIsTrue(e)
  BY DEF EditIsTrue, IdleEdit
<1>4. EditsSurviveReviews /\ ReviewStateSurvivesEdits
  BY DEF EditsSurviveReviews, ReviewStateSurvivesEdits, NewCard, GoneCard
<1> QED BY <1>1, <1>2, <1>3, <1>4 DEF AnswersInductive

LEMMA AnswersStep ==
  ASSUME TypeOK, HistoryInductive, AnswersInductive, [Next]_vars
  PROVE  AnswersInductive'
<1>1. CardForward
  BY CardMovesForward
<1>2. \A w \in ReviewWorker : ReviewIsTrue(w)'
  BY <1>1, ReviewsStayTrue DEF AnswersInductive
<1>3. \A d \in DeleteWorker : DeleteIsTrue(d)'
  BY <1>1, DeletesStayTrue DEF AnswersInductive
<1>4. \A e \in EditWorker : EditIsTrue(e)'
  BY <1>1, EditsStayTrue DEF AnswersInductive
<1>5. EditsSurviveReviews' /\ ReviewStateSurvivesEdits'
  BY ContentStep, RecallStep DEF AnswersInductive
<1> QED BY <1>2, <1>3, <1>4, <1>5 DEF AnswersInductive

\* What the invocations have found out, and will answer, is true.
THEOREM AnswersHold == Spec => []AnswersInductive
<1>1. Init => AnswersInductive
  BY AnswersInit
<1>2. TypeOK /\ HistoryInductive /\ AnswersInductive /\ [Next]_vars => AnswersInductive'
  BY AnswersStep
<1> QED BY <1>1, <1>2, TypeCorrect, HistoryHolds, PTL DEF Spec

\* POST /card-review answers 200 only with a committed record of that event.
THEOREM SavedMeansCommitted == Spec => []AnswersAreCommitted
<1>1. AnswersInductive => AnswersAreCommitted
  BY DEF AnswersInductive, ReviewIsTrue, AnswersAreCommitted
<1> QED BY <1>1, AnswersHold, PTL

\* A retry that arrives after its commit is refused only when the card is
\* being deleted.
THEOREM LateRetriesAreAnswered == Spec => []LateRetryIsNotRefused
<1>1. AnswersInductive => LateRetryIsNotRefused
  BY DEF AnswersInductive, ReviewIsTrue, LateRetryIsNotRefused
<1> QED BY <1>1, AnswersHold, PTL

\* Every 404 of the three handlers is the truth.
THEOREM NotFoundIsTrue == Spec => []NotFoundMeansGone
<1>1. AnswersInductive => NotFoundMeansGone
  BY DEF AnswersInductive, ReviewIsTrue, DeleteIsTrue, EditIsTrue, NotFoundMeansGone
<1> QED BY <1>1, AnswersHold, PTL

\* A delete that reports the end of the card leaves no review record behind.
THEOREM DeletesLeaveNothing == Spec => []DeleteAnswerIsClean
<1>1. AnswersInductive /\ HistoryInductive => DeleteAnswerIsClean
  BY DEF AnswersInductive, DeleteIsTrue, DeleteAnswerIsClean, HistoryInductive,
         HistoryIsWhole, HistoryIsIntact, Stored
<1> QED BY <1>1, AnswersHold, HistoryHolds, PTL

\* No review brings back the content of an earlier edit.
THEOREM ReviewsKeepContent == Spec => []EditsSurviveReviews
<1>1. AnswersInductive => EditsSurviveReviews
  BY DEF AnswersInductive
<1> QED BY <1>1, AnswersHold, PTL

\* No edit overwrites the recall attributes that a review has set.
THEOREM EditsKeepRecall == Spec => []ReviewStateSurvivesEdits
<1>1. AnswersInductive => ReviewStateSurvivesEdits
  BY DEF AnswersInductive
<1> QED BY <1>1, AnswersHold, PTL

=============================================================================
