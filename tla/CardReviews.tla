---------------------------- MODULE CardReviews ----------------------------
(***************************************************************************)
(* One flashcard in the DynamoDB table: its item, its review records, and  *)
(* the Lambda invocations that review it, edit it and delete it.           *)
(*                                                                         *)
(* Every DynamoDB call is one atomic step and its outcome is chosen there: *)
(* it takes effect and is acknowledged, it takes effect and the            *)
(* acknowledgement is lost, its condition refuses it, or it fails with no  *)
(* effect. An invocation may also vanish at any step (the 25 second        *)
(* context, the 30 second Lambda limit, a crash). A call still under way   *)
(* when its client has given up is an invocation that is merely slow: a    *)
(* client may send the same request again on another invocation at once.   *)
(*                                                                         *)
(* A schedule is the sequence of ratings FSRS has folded into it; <<>> is  *)
(* a card whose item has no schedule attribute (a legacy card).            *)
(***************************************************************************)
EXTENDS Naturals, Sequences, FiniteSets

CONSTANTS
    ReviewWorker,  \* invocations serving POST /card-review
    DeleteWorker,  \* invocations serving DELETE /card, from its review cleanup on
    EditWorker,    \* invocations serving PUT /card
    RequestId,     \* the idempotency ids that clients send as reviewId
    Rating,        \* review ratings
    Again,         \* the rating that records a failed recall
    Content,       \* values of the card's question and tags
    MaxRevision,   \* the largest uint64
    None           \* an absent string attribute

ASSUME RatingAssumption == Again \in Rating
ASSUME RevisionAssumption == MaxRevision \in Nat \ {0}
ASSUME NoneAssumption == None \notin RequestId
\* EditWorker stands for the times an edit writes, so it is not a request id.
ASSUME EditedAssumption == "edited" \notin RequestId /\ None # "edited"

VARIABLES
    card,       \* the card item
    reviews,    \* the card_review items of this card
    rw,         \* local state of each review invocation
    dw,         \* local state of each delete invocation
    ew,         \* local state of each edit invocation
    committed,  \* observer: every review ever committed, in order
    lastEdit    \* observer: the content last written by an edit

vars == <<card, reviews, rw, dw, ew, committed, lastEdit>>

----------------------------------------------------------------------------
(* Items and local states *)

IdOrNone == RequestId \cup {None}

Card == [exists: BOOLEAN, schedule: Seq(Rating), revision: 0..MaxRevision,
         head: IdOrNone, deleting: BOOLEAN, correct: BOOLEAN,
         accessed: IdOrNone \cup {"edited"}, content: Content \cup {None}]

\* The card once its item is deleted; ids are fresh UUIDs, so it stays so.
GoneCard == [exists |-> FALSE, schedule |-> <<>>, revision |-> 0, head |-> None,
             deleting |-> FALSE, correct |-> FALSE, accessed |-> None,
             content |-> None]

NewCard(c) == [GoneCard EXCEPT !.exists = TRUE, !.content = c]

\* A card_review item. The schedule it records is Append(before, rating).
Review == [id: IdOrNone, rating: Rating, revision: 0..MaxRevision,
           before: Seq(Rating), previous: IdOrNone]

NoReview == [id |-> None, rating |-> Again, revision |-> 0,
             before |-> <<>>, previous |-> None]

\* The step an invocation is at: the call it makes next.
ReviewPc == {"idle", "lookup", "card", "save", "recheck", "readback", "done"}
DeletePc == {"idle", "mark", "read", "trim", "remove", "done"}
EditPc == {"idle", "attempt", "done"}

Status == {0, 200, 400, 404, 409, 500}

\* "status" is the HTTP status answered, or to be answered, and 0 before.
\* "review" is the record being built or returned, "seen" the revision of the
\* card returned with it. "late" is an observer: the same request had already
\* been committed when this delivery of it arrived.
ReviewLocal == [pc: ReviewPc, id: IdOrNone, rating: Rating, expected: 0..MaxRevision,
                review: Review, status: Status, seen: 0..MaxRevision, late: BOOLEAN]

IdleReview == [pc |-> "idle", id |-> None, rating |-> Again, expected |-> 0,
               review |-> NoReview, status |-> 0, seen |-> 0, late |-> FALSE]

DeleteLocal == [pc: DeletePc, head: IdOrNone, review: Review, status: Status]

IdleDelete == [pc |-> "idle", head |-> None, review |-> NoReview, status |-> 0]

EditLocal == [pc: EditPc, attempt: 1..3, content: Content \cup {None},
              correct: BOOLEAN, timed: BOOLEAN, status: Status]

IdleEdit == [pc |-> "idle", attempt |-> 1, content |-> None, correct |-> FALSE,
             timed |-> FALSE, status |-> 0]

Init ==
    /\ \E c \in Content : card = NewCard(c) /\ lastEdit = c
    /\ reviews = {}
    /\ rw = [w \in ReviewWorker |-> IdleReview]
    /\ dw = [w \in DeleteWorker |-> IdleDelete]
    /\ ew = [w \in EditWorker |-> IdleEdit]
    /\ committed = <<>>

----------------------------------------------------------------------------
(* POST /card-review: service.Reviews.Review *)

\* uint64 arithmetic: the successor of the largest value is zero.
Succ(n) == IF n = MaxRevision THEN 0 ELSE n + 1

ValidRevision(n) == n # MaxRevision

Committed == {committed[i] : i \in 1..Len(committed)}

\* r is the event that this request asks for.
SameEvent(r, req) == r.id = req.id /\ r.rating = req.rating
                     /\ r.revision = Succ(req.expected)

\* The next local state of an invocation that found r under its own id.
Replay(w, r) ==
    IF r.rating = rw[w].rating /\ r.revision = Succ(rw[w].expected)
    THEN [rw[w] EXCEPT !.pc = "readback", !.review = r, !.status = 0]
    ELSE [rw[w] EXCEPT !.pc = "done", !.status = 409]

Answer(w, status) == [rw EXCEPT ![w] = [@ EXCEPT !.pc = "done", !.status = status]]

ReceiveReview(w) ==
    /\ rw[w].pc = "idle"
    /\ \E i \in RequestId, g \in Rating, n \in 0..MaxRevision :
          LET req == [IdleReview EXCEPT !.id = i, !.rating = g, !.expected = n] IN
          rw' = [rw EXCEPT ![w] =
                   IF ValidRevision(n)
                   THEN [req EXCEPT !.pc = "lookup",
                                    !.late = \E r \in Committed : SameEvent(r, req)]
                   ELSE [req EXCEPT !.pc = "done", !.status = 400]]
    /\ UNCHANGED <<card, reviews, dw, ew, committed, lastEdit>>

\* Mutant of LookUp: the card is read without looking for the record first.
ReadCardFirst(w) ==
    /\ rw[w].pc = "lookup"
    /\ rw' = [rw EXCEPT ![w].pc = "card"]
    /\ UNCHANGED <<card, reviews, dw, ew, committed, lastEdit>>

\* The first GetReview: a stored record of this id is replayed.
LookUp(w) ==
    /\ rw[w].pc = "lookup"
    /\ \/ \E r \in reviews : r.id = rw[w].id /\ rw' = [rw EXCEPT ![w] = Replay(w, r)]
       \/ /\ \A r \in reviews : r.id # rw[w].id
          /\ rw' = [rw EXCEPT ![w].pc = "card"]
    /\ UNCHANGED <<card, reviews, dw, ew, committed, lastEdit>>

\* The record built from the card as it is read; FSRS is applied to its schedule.
Draft(w) == [id |-> rw[w].id, rating |-> rw[w].rating,
             revision |-> Succ(rw[w].expected),
             before |-> card.schedule, previous |-> card.head]

ReadCard(w) ==
    /\ rw[w].pc = "card"
    /\ \/ ~card.exists /\ rw' = Answer(w, 404)
       \/ card.exists /\ card.revision # rw[w].expected /\ rw' = Answer(w, 409)
       \/ /\ card.exists /\ card.revision = rw[w].expected
          /\ rw' = [rw EXCEPT ![w] = [@ EXCEPT !.pc = "save", !.review = Draft(w)]]
    /\ UNCHANGED <<card, reviews, dw, ew, committed, lastEdit>>

\* Mutants of SaveAllowed, each without one of its conditions.
SaveWhileDeleting(r, expected) ==
    /\ card.exists /\ card.revision = expected
    /\ \A s \in reviews : s.id # r.id

SaveAnyRevision(r, expected) ==
    /\ card.exists /\ ~card.deleting
    /\ \A s \in reviews : s.id # r.id

SaveOverRecord(r, expected) ==
    card.exists /\ ~card.deleting /\ card.revision = expected

\* The conditions of SaveReview's transaction.
SaveAllowed(r, expected) ==
    /\ card.exists
    /\ ~card.deleting
    /\ card.revision = expected
    /\ \A s \in reviews : s.id # r.id

\* Mutant of CardAfter: the item is put anew instead of being updated.
CardPutAfter(r) ==
    [GoneCard EXCEPT !.exists = TRUE,
                     !.schedule = Append(r.before, r.rating), !.revision = r.revision,
                     !.correct = r.rating # Again, !.accessed = r.id, !.head = r.id]

\* Its two writes: the card's scheduling attributes and the new record.
CardAfter(r) ==
    [card EXCEPT !.schedule = Append(r.before, r.rating), !.revision = r.revision,
                 !.correct = r.rating # Again, !.accessed = r.id, !.head = r.id]

\* A put replaces the item of the same id, if there is one.
PutReview(r) == {s \in reviews : s.id # r.id} \cup {r}

SaveCommits(w) ==
    /\ rw[w].pc = "save"
    /\ SaveAllowed(rw[w].review, rw[w].expected)
    /\ card' = CardAfter(rw[w].review)
    /\ reviews' = PutReview(rw[w].review)
    /\ committed' = Append(committed, rw[w].review)
    /\ \/ rw' = [rw EXCEPT ![w].pc = "readback"]
       \/ rw' = [rw EXCEPT ![w] = [@ EXCEPT !.pc = "recheck", !.status = 500]]  \* response lost
    /\ UNCHANGED <<dw, ew, lastEdit>>

\* Another invocation's write may be under way on the same items.
OtherWriting(w) ==
    \/ \E v \in ReviewWorker \ {w} : rw[v].pc = "save"
    \/ \E d \in DeleteWorker \ {w} : dw[d].pc \in {"mark", "trim", "remove"}
    \/ \E e \in EditWorker \ {w} : ew[e].pc = "attempt"

\* Mutant of SaveFails: a save whose outcome is unknown is taken for done.
AssumeSaved(w) ==
    /\ rw[w].pc = "save"
    /\ rw' = [rw EXCEPT ![w].pc = "readback"]
    /\ UNCHANGED <<card, reviews, dw, ew, committed, lastEdit>>

\* Refused by a condition, or cancelled by a write under way on the same item
\* (ErrReviewConflict, 409 unless the recheck finds the record); or failed.
SaveFails(w) ==
    /\ rw[w].pc = "save"
    /\ \/ /\ ~SaveAllowed(rw[w].review, rw[w].expected) \/ OtherWriting(w)
          /\ rw' = [rw EXCEPT ![w] = [@ EXCEPT !.pc = "recheck", !.status = 409]]
       \/ rw' = [rw EXCEPT ![w] = [@ EXCEPT !.pc = "recheck", !.status = 500]]
    /\ UNCHANGED <<card, reviews, dw, ew, committed, lastEdit>>

\* GetReview again after a failed save; if it finds nothing, or fails itself,
\* the save's own error is answered.
Recheck(w) ==
    /\ rw[w].pc = "recheck"
    /\ \/ \E r \in reviews : r.id = rw[w].id /\ rw' = [rw EXCEPT ![w] = Replay(w, r)]
       \/ rw' = [rw EXCEPT ![w].pc = "done"]
    /\ UNCHANGED <<card, reviews, dw, ew, committed, lastEdit>>

ReadBack(w) ==
    /\ rw[w].pc = "readback"
    /\ \/ ~card.exists /\ rw' = Answer(w, 404)
       \/ /\ card.exists
          /\ rw' = [rw EXCEPT ![w] = [@ EXCEPT !.pc = "done", !.status = 200,
                                               !.seen = card.revision]]
    /\ UNCHANGED <<card, reviews, dw, ew, committed, lastEdit>>

ReviewReadFails(w) ==
    /\ rw[w].pc \in {"lookup", "card", "readback"}
    /\ rw' = Answer(w, 500)
    /\ UNCHANGED <<card, reviews, dw, ew, committed, lastEdit>>

\* The response leaves, or the invocation is killed where it stands.
EndReview(w) ==
    /\ rw[w].pc # "idle"
    /\ rw' = [rw EXCEPT ![w] = IdleReview]
    /\ UNCHANGED <<card, reviews, dw, ew, committed, lastEdit>>

ReviewStep(w) ==
    \/ LookUp(w)
    \/ ReadCard(w)
    \/ SaveCommits(w)
    \/ SaveFails(w)
    \/ Recheck(w)
    \/ ReadBack(w)
    \/ ReviewReadFails(w)

----------------------------------------------------------------------------
(* DELETE /card, after its images and sections: DeleteReviews, then the item *)

AnswerDelete(d, status) == [dw EXCEPT ![d] = [@ EXCEPT !.pc = "done", !.status = status]]

\* Mutant of AtHead: the card is removed without its records.
SkipCleanup(d, h) == [dw EXCEPT ![d] = [IdleDelete EXCEPT !.pc = "remove", !.head = h]]

\* The cleanup loop's test: go on with the record at h, or remove the card.
AtHead(d, h) ==
    [dw EXCEPT ![d] = [IdleDelete EXCEPT !.pc = IF h = None THEN "remove" ELSE "read",
                                         !.head = h]]

ReceiveDelete(d) ==
    /\ dw[d].pc = "idle"
    /\ dw' = [dw EXCEPT ![d].pc = "mark"]
    /\ UNCHANGED <<card, reviews, rw, ew, committed, lastEdit>>

\* Marking a missing card is refused, which ends the cleanup without an error.
MarkDeleting(d) ==
    /\ dw[d].pc = "mark"
    /\ \/ /\ card.exists
          /\ card' = [card EXCEPT !.deleting = TRUE]
          /\ \/ dw' = AtHead(d, card.head)
             \/ dw' = AnswerDelete(d, 500)  \* response lost
       \/ /\ ~card.exists
          /\ dw' = AtHead(d, None)
          /\ UNCHANGED card
    /\ UNCHANGED <<reviews, rw, ew, committed, lastEdit>>

\* Mutant of ReadHead: a missing record is taken for the end of the chain.
ReadHeadOrEnd(d) ==
    /\ dw[d].pc = "read"
    /\ \/ \E r \in reviews :
             /\ r.id = dw[d].head
             /\ dw' = [dw EXCEPT ![d] = [@ EXCEPT !.pc = "trim", !.review = r]]
       \/ /\ \A r \in reviews : r.id # dw[d].head
          /\ dw' = AtHead(d, None)
    /\ UNCHANGED <<card, reviews, rw, ew, committed, lastEdit>>

ReadHead(d) ==
    /\ dw[d].pc = "read"
    /\ \/ \E r \in reviews :
             /\ r.id = dw[d].head
             /\ dw' = [dw EXCEPT ![d] = [@ EXCEPT !.pc = "trim", !.review = r]]
       \/ /\ \A r \in reviews : r.id # dw[d].head
          /\ dw' = AnswerDelete(d, 500)
    /\ UNCHANGED <<card, reviews, rw, ew, committed, lastEdit>>

\* The conditions of the transaction that deletes the record at the head.
TrimAllowed(d) ==
    /\ card.exists /\ card.deleting /\ card.head = dw[d].head
    /\ \E r \in reviews : r.id = dw[d].head

\* Mutant of Trim: the record is deleted, its pointer is not advanced with it.
TrimRecordOnly(d) ==
    /\ dw[d].pc = "trim"
    /\ TrimAllowed(d)
    /\ reviews' = {r \in reviews : r.id # dw[d].head}
    /\ dw' = AtHead(d, dw[d].review.previous)
    /\ UNCHANGED <<card, rw, ew, committed, lastEdit>>

Trim(d) ==
    /\ dw[d].pc = "trim"
    /\ TrimAllowed(d)
    /\ card' = [card EXCEPT !.head = dw[d].review.previous]
    /\ reviews' = {r \in reviews : r.id # dw[d].head}
    /\ \/ dw' = AtHead(d, dw[d].review.previous)
       \/ dw' = AnswerDelete(d, 500)  \* response lost
    /\ UNCHANGED <<rw, ew, committed, lastEdit>>

\* Cards.Delete. A resend after a lost response finds no item and answers 404.
RemoveCard(d) ==
    /\ dw[d].pc = "remove"
    /\ \/ /\ card.exists
          /\ card' = GoneCard
          /\ \E status \in {200, 404, 500} : dw' = AnswerDelete(d, status)
       \/ ~card.exists /\ dw' = AnswerDelete(d, 404) /\ UNCHANGED card
    /\ UNCHANGED <<reviews, rw, ew, committed, lastEdit>>

\* A call of the cleanup fails or, in the loop, is refused: the request ends.
DeleteFails(d) ==
    /\ dw[d].pc \in {"mark", "read", "trim", "remove"}
    /\ dw' = AnswerDelete(d, 500)
    /\ UNCHANGED <<card, reviews, rw, ew, committed, lastEdit>>

EndDelete(d) ==
    /\ dw[d].pc # "idle"
    /\ dw' = [dw EXCEPT ![d] = IdleDelete]
    /\ UNCHANGED <<card, reviews, rw, ew, committed, lastEdit>>

DeleteStep(d) ==
    \/ MarkDeleting(d)
    \/ ReadHead(d)
    \/ Trim(d)
    \/ RemoveCard(d)
    \/ DeleteFails(d)

----------------------------------------------------------------------------
(* PUT /card: cardRepository.Update *)

AnswerEdit(e, status) == [ew EXCEPT ![e] = [@ EXCEPT !.pc = "done", !.status = status]]

\* Mutant of AssumesMigrated: no migrated attempt after the legacy one.
OnlyFirstMigrated(attempt) == attempt = 1

\* The three attempts assume a migrated, a legacy and again a migrated card.
AssumesMigrated(attempt) == attempt # 2

Migrated == card.schedule # <<>>

EditAllowed(e) == card.exists /\ Migrated = AssumesMigrated(ew[e].attempt)

\* Mutant of EditedCard: an edit writes every attribute of the request.
EveryAttribute(e) ==
    [card EXCEPT !.content = ew[e].content, !.correct = ew[e].correct,
                 !.accessed = IF ew[e].timed THEN "edited" ELSE @]

\* Only a legacy card has its recall attributes written by an edit.
EditedCard(e) ==
    IF AssumesMigrated(ew[e].attempt)
    THEN [card EXCEPT !.content = ew[e].content]
    ELSE [card EXCEPT !.content = ew[e].content, !.correct = ew[e].correct,
                      !.accessed = IF ew[e].timed THEN "edited" ELSE @]

ReceiveEdit(e) ==
    /\ ew[e].pc = "idle"
    /\ \E c \in Content, b \in BOOLEAN, t \in BOOLEAN :
          ew' = [ew EXCEPT ![e] = [IdleEdit EXCEPT !.pc = "attempt", !.content = c,
                                                   !.correct = b, !.timed = t]]
    /\ UNCHANGED <<card, reviews, rw, dw, committed, lastEdit>>

\* A write whose response is lost is answered 500, or sent again by the SDK.
EditWrites(e) ==
    /\ ew[e].pc = "attempt"
    /\ EditAllowed(e)
    /\ card' = EditedCard(e)
    /\ lastEdit' = ew[e].content
    /\ \/ \E status \in {200, 500} : ew' = AnswerEdit(e, status)
       \/ UNCHANGED ew
    /\ UNCHANGED <<reviews, rw, dw, committed>>

\* Mutant of EditRefused: attempts go on until one is accepted.
RetryForever(e) ==
    /\ ew[e].pc = "attempt"
    /\ ~EditAllowed(e)
    /\ ew' = [ew EXCEPT ![e].attempt = @ + 1]
    /\ UNCHANGED <<card, reviews, rw, dw, committed, lastEdit>>

EditRefused(e) ==
    /\ ew[e].pc = "attempt"
    /\ ~EditAllowed(e)
    /\ \/ ew[e].attempt < 3 /\ ew' = [ew EXCEPT ![e].attempt = @ + 1]
       \/ ew[e].attempt = 3 /\ ew' = AnswerEdit(e, 404)
    /\ UNCHANGED <<card, reviews, rw, dw, committed, lastEdit>>

EditFails(e) ==
    /\ ew[e].pc = "attempt"
    /\ ew' = AnswerEdit(e, 500)
    /\ UNCHANGED <<card, reviews, rw, dw, committed, lastEdit>>

EndEdit(e) ==
    /\ ew[e].pc # "idle"
    /\ ew' = [ew EXCEPT ![e] = IdleEdit]
    /\ UNCHANGED <<card, reviews, rw, dw, committed, lastEdit>>

EditStep(e) == EditWrites(e) \/ EditRefused(e) \/ EditFails(e)

----------------------------------------------------------------------------
ReviewNext(w) == ReceiveReview(w) \/ ReviewStep(w) \/ EndReview(w)
DeleteNext(d) == ReceiveDelete(d) \/ DeleteStep(d) \/ EndDelete(d)
EditNext(e) == ReceiveEdit(e) \/ EditStep(e) \/ EndEdit(e)

Next ==
    \/ \E w \in ReviewWorker : ReviewNext(w)
    \/ \E d \in DeleteWorker : DeleteNext(d)
    \/ \E e \in EditWorker : EditNext(e)

Spec == Init /\ [][Next]_vars

\* An invocation that is running takes its next step or is killed, and the
\* owner sends a delete again until it is done. Of each kind of call that the
\* cleanup goes on making, one is in the end not answered with a failure.
DeleteFairness ==
    /\ \A d \in DeleteWorker : WF_vars(ReceiveDelete(d) \/ DeleteStep(d) \/ EndDelete(d))
    /\ SF_vars(\E d \in DeleteWorker : MarkDeleting(d) /\ dw'[d].pc # "done")
    /\ SF_vars(\E d \in DeleteWorker : ReadHead(d) /\ dw'[d].pc # "done")
    /\ SF_vars(\E d \in DeleteWorker : Trim(d))
    /\ SF_vars(\E d \in DeleteWorker : RemoveCard(d))

LiveSpec == Spec /\ DeleteFairness

----------------------------------------------------------------------------
(* Properties *)

\* Every variable holds a value of its kind; in particular no revision passes
\* the largest uint64, and every invocation is at a step of its handler.
TypeOK ==
    /\ card \in Card
    /\ reviews \subseteq Review
    /\ rw \in [ReviewWorker -> ReviewLocal]
    /\ dw \in [DeleteWorker -> DeleteLocal]
    /\ ew \in [EditWorker -> EditLocal]
    /\ committed \in Seq(Review)
    /\ lastEdit \in Content \cup {None}

IdAt(k) == IF k = 0 THEN None ELSE committed[k].id

\* Exactly the first k committed reviews are stored, and the card's head
\* pointer is the newest of them.
Stored(k) ==
    /\ reviews = {committed[i] : i \in 1..k}
    /\ card.head = IdAt(k)
    /\ card.exists /\ ~card.deleting => k = Len(committed)
    /\ ~card.exists => k = 0

\* SaveReview and DeleteReviews together keep the history whole: the chain from
\* last_review_id reaches every stored record, all of them until the card is
\* marked, none after the card is gone, and no crash, retry or race in between
\* leaves a gap or an orphan.
HistoryIsIntact == \E k \in 0..Len(committed) : Stored(k)

\* Each record's revision is its place in the history and its previous pointer
\* names its predecessor, although the pointer was read long before the save.
RecordsAreLinked ==
    \A i \in 1..Len(committed) :
        /\ committed[i].revision = i
        /\ committed[i].previous = IdAt(i - 1)

\* A request id is applied at most once for the life of the card, also when its
\* record has already been removed again by a deletion under way.
OneReviewPerRequest ==
    \A i, j \in 1..Len(committed) : committed[i].id = committed[j].id => i = j

Ratings(n) == [i \in 1..n |-> committed[i].rating]

\* The schedule on the card is the fold of every committed rating, once each
\* and in order, and every record was computed from the schedule that its
\* predecessor left: no rating is lost to a concurrent one.
EveryRatingCountsOnce ==
    /\ card.exists => /\ card.schedule = Ratings(Len(committed))
                      /\ card.revision = Len(committed)
    /\ \A i \in 1..Len(committed) : committed[i].before = Ratings(i - 1)

\* A 200 from POST /card-review carries a committed record of that very id,
\* rating and revision, with a card that is not older than the record: an
\* uncertain save is never reported as done, nor a draft as a record.
AnswersAreCommitted ==
    \A w \in ReviewWorker :
        rw[w].pc = "done" /\ rw[w].status = 200 =>
            /\ rw[w].review \in Committed
            /\ SameEvent(rw[w].review, rw[w])
            /\ rw[w].seen >= rw[w].review.revision

\* A retry that arrives after its review was committed is not refused as a
\* conflict, however far the card has moved on, unless its deletion has begun.
LateRetryIsNotRefused ==
    \A w \in ReviewWorker :
        rw[w].pc = "done" /\ rw[w].late /\ rw[w].status = 409 =>
            card.deleting \/ ~card.exists

\* A 404 is the truth: in particular PUT /card gives up after three refusals
\* only on a card that is gone, not on one that migrates under it.
NotFoundMeansGone ==
    /\ \A w \in ReviewWorker : rw[w].pc = "done" /\ rw[w].status = 404 => ~card.exists
    /\ \A d \in DeleteWorker : dw[d].pc = "done" /\ dw[d].status = 404 => ~card.exists
    /\ \A e \in EditWorker : ew[e].pc = "done" /\ ew[e].status = 404 => ~card.exists

\* A delete answered 200 or 404 leaves no review record, although several
\* deletes may have worked on the same chain and others died half way.
DeleteAnswerIsClean ==
    \A d \in DeleteWorker :
        dw[d].pc = "done" /\ dw[d].status \in {200, 404} => reviews = {}

\* Reviews never write stale content: the question is the one last edited,
\* although a review reads the whole card before it saves.
EditsSurviveReviews == card.exists => card.content = lastEdit

\* Edits never overwrite FSRS state: once a review has migrated the card, its
\* recall attributes are those of the newest review, although an edit may have
\* started when the card was still legacy.
ReviewStateSurvivesEdits ==
    card.exists /\ committed # <<>> =>
        LET last == committed[Len(committed)] IN
        card.accessed = last.id /\ card.correct = (last.rating # Again)

\* A stored record is never changed, and leaves the table only from a card
\* marked for deletion, the newest record first.
RecordsLeaveNewestFirst ==
    [][\A r \in reviews : r \notin reviews' =>
          /\ card.deleting /\ card.head = r.id
          /\ \A s \in reviews : s.revision <= r.revision]_vars

\* A deletion that has begun completes if the owner keeps asking for it, from
\* wherever the attempts before it were cut off.
DeletionCompletes == card.deleting ~> ~card.exists

\* The documented promise "Retrying an identical request returns its original
\* review without applying it again": no delivery of a committed request is
\* answered with a conflict.
IdenticalRetryGetsItsReview ==
    \A w \in ReviewWorker :
        rw[w].pc = "done" /\ rw[w].status = 409 =>
            \A r \in Committed : ~SameEvent(r, rw[w])

----------------------------------------------------------------------------
(* What makes the history inductive: what each invocation knows on its way *)

\* A review about to be saved was computed from the card that its revision
\* names: if the save's conditions hold, nothing that it read has changed.
DraftIsCurrent(w) ==
    /\ rw[w].pc \in {"lookup", "card", "save", "recheck"} =>
         rw[w].id \in RequestId /\ rw[w].expected # MaxRevision
    /\ rw[w].pc = "save" =>
         /\ rw[w].review.id = rw[w].id
         /\ rw[w].review.revision = rw[w].expected + 1
         /\ card.exists => rw[w].expected <= card.revision
         /\ card.exists /\ ~card.deleting /\ card.revision = rw[w].expected =>
              rw[w].review.previous = card.head /\ rw[w].review.before = card.schedule

\* A delete trims a committed record, and removes the card only when the chain
\* of a marked card is empty.
CleanupIsOnTrack(d) ==
    /\ dw[d].pc = "trim" => dw[d].review \in Committed /\ dw[d].review.id = dw[d].head
    /\ dw[d].pc = "remove" /\ card.exists => card.deleting /\ card.head = None

HistoryIsWhole ==
    /\ HistoryIsIntact
    /\ RecordsAreLinked
    /\ OneReviewPerRequest
    /\ EveryRatingCountsOnce
    /\ \A i \in 1..Len(committed) : committed[i].id \in RequestId

\* The invariant that carries the history through every step: the history's own
\* parts, with what the invocations rely on between two of their calls.
HistoryInductive ==
    /\ HistoryIsWhole
    /\ \A w \in ReviewWorker : DraftIsCurrent(w)
    /\ \A d \in DeleteWorker : CleanupIsOnTrack(d)

----------------------------------------------------------------------------
(* What makes the answers inductive *)

\* A review takes a record for its own only once it is committed and the very
\* event that was asked for; and once a late retry has passed the lookup that
\* should have found its record, the card is being deleted.
ReviewIsTrue(w) ==
    LET l == rw[w]
        answered(status) == l.pc = "done" /\ l.status = status
    IN
    /\ l.pc = "recheck" => l.status \in {409, 500}
    /\ l.pc = "save" => l.review.rating = l.rating
    /\ l.pc = "readback" \/ answered(200) =>
         l.review \in Committed /\ SameEvent(l.review, l)
    /\ answered(200) => l.seen >= l.review.revision
    /\ answered(404) => ~card.exists
    /\ l.late => \E r \in Committed : SameEvent(r, l)
    /\ l.late /\ (l.pc \in {"card", "save", "recheck"} \/ answered(409)) =>
         card.deleting \/ ~card.exists

\* A delete reports an end of the card only when it has seen it gone.
DeleteIsTrue(d) == dw[d].pc = "done" /\ dw[d].status \in {200, 404} => ~card.exists

\* The third attempt of an edit follows one that only a migrated card refuses.
EditIsTrue(e) ==
    /\ ew[e].pc = "attempt" /\ ew[e].attempt = 3 /\ card.exists => Migrated
    /\ ew[e].pc = "done" /\ ew[e].status = 404 => ~card.exists

AnswersInductive ==
    /\ \A w \in ReviewWorker : ReviewIsTrue(w)
    /\ \A d \in DeleteWorker : DeleteIsTrue(d)
    /\ \A e \in EditWorker : EditIsTrue(e)
    /\ EditsSurviveReviews
    /\ ReviewStateSurvivesEdits

----------------------------------------------------------------------------
(* The abstract log, seen through the table's own state *)

RecordAt(n) == CHOOSE r \in reviews : r.revision = n

Log == INSTANCE ReviewLog WITH
         events <- [n \in 1..Cardinality(reviews) |->
                      [id |-> RecordAt(n).id, rating |-> RecordAt(n).rating]],
         schedule <- card.schedule,
         phase <- IF ~card.exists THEN "gone"
                  ELSE IF card.deleting THEN "closing" ELSE "open"

\* The table, its transactions and its retries implement the review log.
ImplementsReviewLog == Log!LogSpec

=============================================================================
