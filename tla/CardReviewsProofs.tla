------------------------- MODULE CardReviewsProofs -------------------------
(* Theorems about CardReviews, for any number of invocations and requests. *)
EXTENDS CardReviews, TLAPS

----------------------------------------------------------------------------
(* Type correctness *)

LEMMA SuccType == ASSUME NEW n \in 0..MaxRevision
                  PROVE  Succ(n) \in 0..MaxRevision
  BY RevisionAssumption DEF Succ

\* The steps and statuses that a local state may take.
LEMMA ReviewSteps == /\ "idle" \in ReviewPc /\ "lookup" \in ReviewPc
                     /\ "card" \in ReviewPc /\ "save" \in ReviewPc
                     /\ "recheck" \in ReviewPc /\ "readback" \in ReviewPc
                     /\ "done" \in ReviewPc
  BY DEF ReviewPc

LEMMA DeleteSteps == /\ "idle" \in DeletePc /\ "mark" \in DeletePc
                     /\ "read" \in DeletePc /\ "trim" \in DeletePc
                     /\ "remove" \in DeletePc /\ "done" \in DeletePc
  BY DEF DeletePc

LEMMA EditSteps == "idle" \in EditPc /\ "attempt" \in EditPc /\ "done" \in EditPc
  BY DEF EditPc

LEMMA Statuses == /\ 0 \in Status /\ 200 \in Status /\ 400 \in Status
                  /\ 404 \in Status /\ 409 \in Status /\ 500 \in Status
  BY DEF Status

LEMMA NoReviewType == NoReview \in Review /\ None \in IdOrNone
  BY RatingAssumption, RevisionAssumption DEF NoReview, Review, IdOrNone

LEMMA IdleReviewType == IdleReview \in ReviewLocal
  BY NoReviewType, ReviewSteps, Statuses, RatingAssumption, RevisionAssumption
     DEF IdleReview, ReviewLocal

LEMMA IdleDeleteType == IdleDelete \in DeleteLocal
  BY NoReviewType, DeleteSteps, Statuses DEF IdleDelete, DeleteLocal

LEMMA IdleEditType == IdleEdit \in EditLocal
  BY EditSteps, Statuses DEF IdleEdit, EditLocal

LEMMA GoneCardType == GoneCard \in Card
  BY RevisionAssumption, NoReviewType DEF GoneCard, Card

LEMMA NewCardType == ASSUME NEW c \in Content PROVE NewCard(c) \in Card
  BY GoneCardType DEF NewCard, Card

LEMMA ReviewGoto == ASSUME NEW l \in ReviewLocal, NEW p \in ReviewPc
                    PROVE  [l EXCEPT !.pc = p] \in ReviewLocal
  BY DEF ReviewLocal

LEMMA ReviewMoves == ASSUME NEW l \in ReviewLocal, NEW p \in ReviewPc, NEW s \in Status
                     PROVE  [l EXCEPT !.pc = p, !.status = s] \in ReviewLocal
  BY DEF ReviewLocal

LEMMA ReviewArrives == ASSUME NEW l \in ReviewLocal, NEW b \in BOOLEAN
                       PROVE  [l EXCEPT !.pc = "lookup", !.late = b] \in ReviewLocal
<1>1. "lookup" \in ReviewPc
  BY ReviewSteps
<1> QED BY <1>1, ZenonT(30) DEF ReviewLocal

LEMMA ReplayType == ASSUME TypeOK, NEW w \in ReviewWorker, NEW r \in Review
                    PROVE  Replay(w, r) \in ReviewLocal
<1> DEFINE l == rw[w]
<1>1. l \in ReviewLocal
  BY DEF TypeOK
<1> HIDE DEF l
<1>2. [l EXCEPT !.pc = "readback", !.review = r, !.status = 0] \in ReviewLocal
  BY <1>1, ReviewSteps, Statuses, ZenonT(60) DEF ReviewLocal
<1>3. [l EXCEPT !.pc = "done", !.status = 409] \in ReviewLocal
  BY <1>1, ReviewMoves, ReviewSteps, Statuses, ZenonT(60)
<1> QED BY <1>2, <1>3, Zenon DEF Replay, l

\* A step of a review invocation leaves every variable in its type.
LEMMA ReviewNextType == ASSUME TypeOK, NEW w \in ReviewWorker, ReviewNext(w)
                        PROVE  TypeOK'
<1> DEFINE L == rw[w]
<1>1. L \in ReviewLocal
  BY DEF TypeOK
<1>2. ASSUME NEW l \in ReviewLocal, rw' = [rw EXCEPT ![w] = l]
      PROVE  rw' \in [ReviewWorker -> ReviewLocal]
  BY <1>2 DEF TypeOK
<1>3. ASSUME NEW s \in Status, rw' = [rw EXCEPT ![w] = [@ EXCEPT !.pc = "recheck", !.status = s]]
      PROVE  rw' \in [ReviewWorker -> ReviewLocal]
  BY <1>1, <1>2, <1>3, ReviewMoves, ReviewSteps
<1>4. ASSUME NEW s \in Status, rw' = Answer(w, s)
      PROVE  rw' \in [ReviewWorker -> ReviewLocal]
  BY <1>1, <1>2, <1>4, ReviewMoves, ReviewSteps DEF Answer
<1>5. CASE ReceiveReview(w)
  <2>1. PICK i \in RequestId, g \in Rating, n \in 0..MaxRevision :
          LET req == [IdleReview EXCEPT !.id = i, !.rating = g, !.expected = n] IN
          rw' = [rw EXCEPT ![w] =
                   IF ValidRevision(n)
                   THEN [req EXCEPT !.pc = "lookup",
                                    !.late = \E r \in Committed : SameEvent(r, req)]
                   ELSE [req EXCEPT !.pc = "done", !.status = 400]]
    BY <1>5 DEF ReceiveReview
  <2> DEFINE req == [IdleReview EXCEPT !.id = i, !.rating = g, !.expected = n]
  <2>2. req \in ReviewLocal
    BY IdleReviewType DEF ReviewLocal, IdOrNone
  <2> HIDE DEF req
  <2>3. ASSUME NEW b \in BOOLEAN
        PROVE  [req EXCEPT !.pc = "lookup", !.late = b] \in ReviewLocal
    BY <2>2, <2>3, ReviewArrives, Zenon
  <2>4. [req EXCEPT !.pc = "done", !.status = 400] \in ReviewLocal
    BY <2>2, ReviewMoves, ReviewSteps, Statuses, ZenonT(60)
  <2>5. rw' \in [ReviewWorker -> ReviewLocal]
    BY <1>2, <2>1, <2>3, <2>4 DEF req
  <2> QED BY <1>5, <2>5 DEF ReceiveReview, TypeOK
<1>6. CASE LookUp(w)
  <2>1. rw' \in [ReviewWorker -> ReviewLocal]
    BY <1>1, <1>2, <1>6, ReviewGoto, ReplayType, ReviewSteps, Statuses DEF LookUp, TypeOK
  <2> QED BY <1>6, <2>1 DEF LookUp, TypeOK
<1>7. CASE ReadCard(w)
  <2>1. Draft(w) \in Review
    BY <1>1, SuccType DEF Draft, Review, ReviewLocal, Card, TypeOK
  <2>2. [L EXCEPT !.pc = "save", !.review = Draft(w)] \in ReviewLocal
    BY <1>1, <2>1, ReviewSteps DEF ReviewLocal
  <2>3. rw' \in [ReviewWorker -> ReviewLocal]
    BY <1>2, <1>4, <1>7, <2>2, Statuses DEF ReadCard
  <2> QED BY <1>7, <2>3 DEF ReadCard, TypeOK
<1>8. CASE SaveCommits(w)
  <2>1. L.review \in Review
    BY <1>1 DEF ReviewLocal
  <2>2. CardAfter(L.review) \in Card
    <3>1. /\ Append(L.review.before, L.review.rating) \in Seq(Rating)
          /\ L.review.revision \in 0..MaxRevision
          /\ L.review.id \in IdOrNone
          /\ L.review.id \in IdOrNone \cup {"edited"}
      BY <2>1 DEF Review
    <3> QED BY <3>1 DEF CardAfter, Card, TypeOK
  <2>3. /\ PutReview(L.review) \subseteq Review
        /\ Append(committed, L.review) \in Seq(Review)
    BY <2>1 DEF PutReview, TypeOK
  <2>4. rw' \in [ReviewWorker -> ReviewLocal]
    <3>1. CASE rw' = [rw EXCEPT ![w].pc = "readback"]
      BY <1>1, <1>2, <3>1, ReviewGoto, ReviewSteps, Statuses
    <3> QED BY <1>3, <1>8, <3>1, Statuses, ZenonT(60) DEF SaveCommits
  <2> QED BY <1>8, <2>2, <2>3, <2>4 DEF SaveCommits, TypeOK
<1>9. CASE SaveFails(w)
  <2>1. rw' \in [ReviewWorker -> ReviewLocal]
    <3>1. CASE rw' = [rw EXCEPT ![w] = [@ EXCEPT !.pc = "recheck", !.status = 409]]
      BY <1>3, <3>1, Statuses, ZenonT(60)
    <3>2. CASE rw' = [rw EXCEPT ![w] = [@ EXCEPT !.pc = "recheck", !.status = 500]]
      BY <1>3, <3>2, Statuses, ZenonT(60)
    <3> QED BY <1>9, <3>1, <3>2 DEF SaveFails
  <2> QED BY <1>9, <2>1 DEF SaveFails, TypeOK
<1>10. CASE Recheck(w)
  <2>1. rw' \in [ReviewWorker -> ReviewLocal]
    <3>1. CASE rw' = [rw EXCEPT ![w].pc = "done"]
      BY <1>1, <1>2, <3>1, ReviewGoto, ReviewSteps, Statuses
    <3> QED BY <1>2, <1>10, <3>1, ReplayType DEF Recheck, TypeOK
  <2> QED BY <1>10, <2>1 DEF Recheck, TypeOK
<1>11. CASE ReadBack(w)
  <2>1. card.revision \in 0..MaxRevision
    BY DEF TypeOK, Card
  <2>2. [L EXCEPT !.pc = "done", !.status = 200, !.seen = card.revision] \in ReviewLocal
    BY <1>1, <2>1, ReviewSteps, Statuses, ZenonT(60) DEF ReviewLocal
  <2>3. rw' \in [ReviewWorker -> ReviewLocal]
    BY <1>2, <1>4, <1>11, <2>2, Statuses DEF ReadBack
  <2> QED BY <1>11, <2>3 DEF ReadBack, TypeOK
<1>12. CASE ReviewReadFails(w)
  BY <1>4, <1>12, Statuses DEF ReviewReadFails, TypeOK
<1>13. CASE EndReview(w)
  BY <1>2, <1>13, IdleReviewType DEF EndReview, TypeOK
<1> QED
  BY <1>5, <1>6, <1>7, <1>8, <1>9, <1>10, <1>11, <1>12, <1>13 DEF ReviewNext, ReviewStep

\* A step of a delete invocation leaves every variable in its type.
LEMMA DeleteNextType == ASSUME TypeOK, NEW d \in DeleteWorker, DeleteNext(d)
                        PROVE  TypeOK'
<1> DEFINE L == dw[d]
<1>1. L \in DeleteLocal
  BY DEF TypeOK
<1>2. ASSUME NEW l \in DeleteLocal, dw' = [dw EXCEPT ![d] = l]
      PROVE  dw' \in [DeleteWorker -> DeleteLocal]
  BY <1>2 DEF TypeOK
<1>3. ASSUME NEW h \in IdOrNone, dw' = AtHead(d, h)
      PROVE  dw' \in [DeleteWorker -> DeleteLocal]
  BY <1>2, <1>3, IdleDeleteType, DeleteSteps DEF AtHead, DeleteLocal
<1>4. ASSUME NEW s \in Status, dw' = AnswerDelete(d, s)
      PROVE  dw' \in [DeleteWorker -> DeleteLocal]
  <2>1. [L EXCEPT !.pc = "done", !.status = s] \in DeleteLocal
    BY <1>1, DeleteSteps DEF DeleteLocal
  <2> QED BY <1>2, <1>4, <2>1 DEF AnswerDelete
<1>5. CASE ReceiveDelete(d)
  BY <1>5, DeleteSteps DEF ReceiveDelete, DeleteLocal, TypeOK
<1>6. CASE MarkDeleting(d)
  <2>1. card.head \in IdOrNone /\ [card EXCEPT !.deleting = TRUE] \in Card
    BY Zenon DEF Card, TypeOK
  <2>2. card' \in Card
    BY <1>6, <2>1 DEF MarkDeleting, TypeOK
  <2>3. dw' \in [DeleteWorker -> DeleteLocal]
    BY <1>3, <1>4, <1>6, <2>1, NoReviewType, Statuses DEF MarkDeleting
  <2> QED BY <1>6, <2>2, <2>3 DEF MarkDeleting, TypeOK
<1>7. CASE ReadHead(d)
  <2>1. ASSUME NEW r \in Review PROVE [L EXCEPT !.pc = "trim", !.review = r] \in DeleteLocal
    BY <1>1, DeleteSteps DEF DeleteLocal
  <2>2. dw' \in [DeleteWorker -> DeleteLocal]
    BY <1>2, <1>4, <1>7, <2>1, Statuses, ZenonT(60) DEF ReadHead, TypeOK
  <2> QED BY <1>7, <2>2 DEF ReadHead, TypeOK
<1>8. CASE Trim(d)
  <2>1. L.review.previous \in IdOrNone
    BY <1>1 DEF DeleteLocal, Review
  <2>2. [card EXCEPT !.head = L.review.previous] \in Card
    BY <2>1 DEF Card, TypeOK
  <2>3. dw' \in [DeleteWorker -> DeleteLocal]
    BY <1>3, <1>4, <1>8, <2>1, Statuses DEF Trim
  <2> QED BY <1>8, <2>2, <2>3 DEF Trim, TypeOK
<1>9. CASE RemoveCard(d)
  <2>1. dw' \in [DeleteWorker -> DeleteLocal]
    BY <1>4, <1>9, Statuses DEF RemoveCard
  <2> QED BY <1>9, <2>1, GoneCardType DEF RemoveCard, TypeOK
<1>10. CASE DeleteFails(d)
  BY <1>4, <1>10, Statuses DEF DeleteFails, TypeOK
<1>11. CASE EndDelete(d)
  BY <1>2, <1>11, IdleDeleteType DEF EndDelete, TypeOK
<1> QED
  BY <1>5, <1>6, <1>7, <1>8, <1>9, <1>10, <1>11 DEF DeleteNext, DeleteStep

\* A step of an edit invocation leaves every variable in its type.
LEMMA EditNextType == ASSUME TypeOK, NEW e \in EditWorker, EditNext(e)
                      PROVE  TypeOK'
<1> DEFINE L == ew[e]
<1>1. L \in EditLocal
  BY DEF TypeOK
<1>2. ASSUME NEW l \in EditLocal, ew' = [ew EXCEPT ![e] = l]
      PROVE  ew' \in [EditWorker -> EditLocal]
  BY <1>2 DEF TypeOK
<1>3. ASSUME NEW s \in Status, ew' = AnswerEdit(e, s)
      PROVE  ew' \in [EditWorker -> EditLocal]
  <2>1. [L EXCEPT !.pc = "done", !.status = s] \in EditLocal
    BY <1>1, EditSteps DEF EditLocal
  <2> QED BY <1>2, <1>3, <2>1 DEF AnswerEdit
<1>4. CASE ReceiveEdit(e)
  <2>1. ASSUME NEW c \in Content, NEW b \in BOOLEAN, NEW t \in BOOLEAN
        PROVE  [IdleEdit EXCEPT !.pc = "attempt", !.content = c,
                                !.correct = b, !.timed = t] \in EditLocal
    BY <2>1, IdleEditType, EditSteps DEF EditLocal
  <2>2. ew' \in [EditWorker -> EditLocal]
    BY <1>2, <1>4, <2>1 DEF ReceiveEdit
  <2> QED BY <1>4, <2>2 DEF ReceiveEdit, TypeOK
<1>5. CASE EditWrites(e)
  <2>1. L.content \in Content \cup {None} /\ L.correct \in BOOLEAN
    BY <1>1 DEF EditLocal
  <2>2. [card EXCEPT !.content = L.content] \in Card
    BY <2>1 DEF Card, TypeOK
  <2>3. ASSUME NEW a \in IdOrNone \cup {"edited"}
        PROVE  [card EXCEPT !.content = L.content, !.correct = L.correct, !.accessed = a] \in Card
    BY <2>1 DEF Card, TypeOK
  <2>4. card.accessed \in IdOrNone \cup {"edited"}
    BY DEF Card, TypeOK
  <2>5. EditedCard(e) \in Card
    BY <2>2, <2>3, <2>4, ZenonT(60) DEF EditedCard, Card, TypeOK
  <2>6. ew' \in [EditWorker -> EditLocal]
    BY <1>3, <1>5, Statuses DEF EditWrites, TypeOK
  <2> QED BY <1>5, <2>1, <2>5, <2>6 DEF EditWrites, TypeOK
<1>6. CASE EditRefused(e)
  <2>1. L.attempt < 3 => [L EXCEPT !.attempt = @ + 1] \in EditLocal
    BY <1>1 DEF EditLocal
  <2>2. ew' \in [EditWorker -> EditLocal]
    BY <1>2, <1>3, <1>6, <2>1, Statuses DEF EditRefused
  <2> QED BY <1>6, <2>2 DEF EditRefused, TypeOK
<1>7. CASE EditFails(e)
  BY <1>3, <1>7, Statuses DEF EditFails, TypeOK
<1>8. CASE EndEdit(e)
  BY <1>2, <1>8, IdleEditType DEF EndEdit, TypeOK
<1> QED BY <1>4, <1>5, <1>6, <1>7, <1>8 DEF EditNext, EditStep

\* Every reachable state of the card, its records and its invocations is well
\* typed; with it, no stored revision leaves the range of a uint64.
THEOREM TypeCorrect == Spec => []TypeOK
<1>1. Init => TypeOK
  BY NewCardType, IdleReviewType, IdleDeleteType, IdleEditType DEF Init, TypeOK
<1>2. TypeOK /\ [Next]_vars => TypeOK'
  <2> SUFFICES ASSUME TypeOK, [Next]_vars PROVE TypeOK'
    OBVIOUS
  <2>1. CASE UNCHANGED vars
    BY <2>1 DEF vars, TypeOK
  <2> QED BY <2>1, ReviewNextType, DeleteNextType, EditNextType DEF Next
<1> QED BY <1>1, <1>2, PTL DEF Spec

=============================================================================
