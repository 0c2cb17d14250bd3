----------------------------- MODULE Scheduling -----------------------------
(***************************************************************************)
(* Package scheduling and the card it works on: the Leitner attributes of  *)
(* an old card, the schedule that its first review replaces them by, and   *)
(* every review's record of what came before. FSRS itself is a library: of *)
(* its result only the stage, the dates and the counts are kept.           *)
(*                                                                         *)
(* Time is counted in days. Each invocation reads a clock of its own, and  *)
(* the attributes of an old card were written by clients with theirs, so   *)
(* any clock may be behind any other; of two times of one day the model    *)
(* does not say which is earlier. Failures and deletion are the subject of *)
(* CardReviews.                                                            *)
(***************************************************************************)
EXTENDS Naturals, Sequences, FiniteSets

CONSTANTS
    Reviewer,    \* invocations serving POST /card-review
    MaxTime,     \* clocks read 1..MaxTime
    Box,         \* Leitner boxes that old cards may hold, all uint8
    MaxReviews,  \* how often the card is reviewed
    None         \* an absent date or schedule, and a date that is none

ASSUME SchedulingAssumption ==
    /\ MaxTime \in Nat \ {0} /\ MaxReviews \in Nat
    /\ Box \subseteq 0..255
    /\ None \notin Nat

Time == 1..MaxTime

Ratings == {"again", "hard", "good", "easy"}

VARIABLES
    card,     \* its recall attributes, schedule and revision
    records,  \* the card_review items, oldest first
    rw        \* local state of each invocation

vars == <<card, records, rw>>

----------------------------------------------------------------------------
(* LegacySchedule *)

\* Mutant of Days: the box is taken as it is stored, in uint8 arithmetic.
DaysUnclamped(box) == IF box = 0 THEN 0 ELSE 2 ^ (box - 1)

\* The interval of a Leitner box, 0 and boxes beyond the last included.
Days(box) == LET clamped == IF box > 5 THEN 5 ELSE IF box < 1 THEN 1 ELSE box
             IN 2 ^ (clamped - 1)

\* No box waits longer than 16 days, and a stage of the library one day at most.
CardSchedule == [algorithm: {"leitner", "fsrs-6"}, due: Nat, last: Nat \cup {None},
                 state: {"new", "learning", "review", "relearning"},
                 days: 0..16, reps: Nat, lapses: Nat]

ASSUME NoScheduleAssumption == None \notin CardSchedule

\* A date that is missing, invalid or in the future makes the card a new one.
LegacySchedule(c, now) ==
    LET new == [algorithm |-> "leitner", due |-> now, last |-> None, state |-> "new",
                days |-> 0, reps |-> 0, lapses |-> 0]
    IN
    IF c.accessed = None THEN new
    ELSE IF c.accessed > now THEN new
    ELSE [new EXCEPT !.due = c.accessed + Days(c.box), !.last = c.accessed,
                     !.state = "review", !.days = Days(c.box)]

----------------------------------------------------------------------------
(* fsrsCard and outcomes *)

\* Mutant of fsrsState: the last stage that was added is missing.
KnownStage(state) == state \in {"new", "learning", "review"}

fsrsState(state) == state \in {"new", "learning", "review", "relearning"}

Readable(s) ==
    /\ s.algorithm = "fsrs-6" /\ fsrsState(s.state)
    /\ s.state # "new" => s.last # None

\* The card that the library sees, if its schedule can be read: an old one with
\* the memory that its interval suggests.
fsrsCard(c, now) ==
    IF c.schedule = None THEN LegacySchedule(c, now) ELSE c.schedule

\* The library refuses a card that was reviewed after the time it is asked for. It
\* refuses a negative stability too, which only the library itself could write.
Repeatable(current, now) == current.last # None => current.last <= now

\* Whether there are outcomes at all; without them a request ends in an error.
Accepted(c, now) ==
    /\ c.schedule # None => Readable(c.schedule)
    /\ Repeatable(fsrsCard(c, now), now)

\* The library's stages, with one learning and one relearning step.
NextStage(state, rating) ==
    IF rating \in {"good", "easy"} \/ <<state, rating>> = <<"review", "hard">> THEN "review"
    ELSE IF state \in {"new", "learning"} THEN "learning" ELSE "relearning"

\* A step lasts ten minutes, which is no day; an interval of days at least one.
Repeat(current, rating, now) ==
    LET stage == NextStage(current.state, rating)
        days == IF stage = "review" THEN 1 ELSE 0
    IN
    [due |-> now + days, last |-> now, state |-> stage, days |-> days,
     reps |-> current.reps + 1,
     lapses |-> IF current.state = "review" /\ rating = "again" THEN current.lapses + 1
                ELSE current.lapses]

\* None stands for the error, of Preview and Apply as well.
outcomes(c, now) ==
    IF ~Accepted(c, now) THEN None
    ELSE [rating \in Ratings |-> Repeat(fsrsCard(c, now), rating, now)]

Preview(c, now) ==
    IF ~Accepted(c, now) THEN None
    ELSE [rating \in Ratings |->
            LET next == outcomes(c, now)[rating]
            IN [due |-> next.due, interval |-> next.due - now, state |-> next.state]]

Apply(c, rating, now) ==
    IF ~Accepted(c, now) THEN None
    ELSE LET next == outcomes(c, now)[rating] IN
         [algorithm |-> "fsrs-6", due |-> next.due, last |-> next.last, state |-> next.state,
          days |-> next.days, reps |-> next.reps, lapses |-> next.lapses]

----------------------------------------------------------------------------
(* The card *)

Card == [accessed: Time \cup {None}, box: 0..255,
         schedule: CardSchedule \cup {None}, revision: Nat]

Record == [rating: Ratings, at: Time, before: CardSchedule, after: CardSchedule]

\* The review that an invocation is about to save, as a sequence of at most one.
ReviewLocal == [expected: Nat, review: Seq(Record)]

IdleReview == [expected |-> 0, review |-> <<>>]

Init ==
    /\ \E accessed \in Time \cup {None}, box \in Box :
          card = [accessed |-> accessed, box |-> box, schedule |-> None, revision |-> 0]
    /\ records = <<>>
    /\ rw = [w \in Reviewer |-> IdleReview]

\* PUT /card of recall attributes, which only a card without a schedule takes.
\* Empty or zero fields leave the attribute as it is; larger boxes are refused.
UpdateAttrs ==
    /\ card.schedule = None
    /\ \E accessed \in Time \cup {None, card.accessed}, box \in (Box \cap 1..5) \cup {card.box} :
          card' = [card EXCEPT !.accessed = accessed, !.box = box]
    /\ UNCHANGED <<records, rw>>

\* Reviews.Review up to its save: the record is built from the card as read. A
\* review that Apply refuses ends with an error and changes nothing.
ReadCard(w) ==
    /\ rw[w] = IdleReview /\ card.revision < MaxReviews
    /\ \E rating \in Ratings, now \in Time :
          LET before == IF card.schedule = None THEN LegacySchedule(card, now)
                        ELSE card.schedule
          IN /\ Accepted(card, now)
             /\ rw' = [rw EXCEPT ![w] =
                         [expected |-> card.revision,
                          review |-> <<[rating |-> rating, at |-> now, before |-> before,
                                        after |-> Apply(card, rating, now)]>>]]
    /\ UNCHANGED <<card, records>>

\* Mutant of SaveReview: its condition does not name the revision.
SaveLast(w) ==
    /\ rw[w] # IdleReview
    /\ card' = [card EXCEPT !.schedule = rw[w].review[1].after,
                            !.revision = rw[w].expected + 1,
                            !.accessed = rw[w].review[1].at]
    /\ records' = records \o rw[w].review
    /\ rw' = [rw EXCEPT ![w] = IdleReview]

SaveReview(w) ==
    /\ rw[w] # IdleReview
    /\ \/ /\ card.revision = rw[w].expected
          /\ card' = [card EXCEPT !.schedule = rw[w].review[1].after,
                                  !.revision = rw[w].expected + 1,
                                  !.accessed = rw[w].review[1].at]
          /\ records' = records \o rw[w].review
       \/ /\ card.revision # rw[w].expected
          /\ UNCHANGED <<card, records>>
    /\ rw' = [rw EXCEPT ![w] = IdleReview]

Next ==
    \/ UpdateAttrs
    \/ \E w \in Reviewer : ReadCard(w) \/ SaveReview(w)

Spec == Init /\ [][Next]_vars

----------------------------------------------------------------------------
(* Properties *)

TypeOK ==
    /\ card \in Card
    /\ records \in Seq(Record)
    /\ rw \in [Reviewer -> ReviewLocal]

\* A card is refused only on a clock that is behind its newest review: no rating,
\* box or edit leaves a schedule or a date that a later request cannot read, a
\* date ahead of the clock included, and a review only locks out slower clocks
\* than its own.
EveryCardCanBeReviewed ==
    \A now \in Time : ~Accepted(card, now) =>
                         records # <<>> /\ now < records[Len(records)].at

\* From the first review on, a revision names what is previewed: a review that
\* expects the card's revision saves the very outcome that a preview of the card
\* offers for its rating and time, whoever reviewed or edited it meanwhile.
PreviewsAreSaved ==
    \A w \in Reviewer : rw[w] # IdleReview /\ rw[w].expected = card.revision /\ records # <<>> =>
        LET review == rw[w].review[1]
            option == Preview(card, review.at)[review.rating]
        IN /\ Accepted(card, review.at)
           /\ review.after.due = option.due /\ review.after.state = option.state

\* Only reviews count: the first record starts from a Leitner estimate without
\* counts, each later one from the schedule that its predecessor left and at a
\* time that is not before it, and the card's counts are those of its records,
\* although each was computed from a card that others were editing and reviewing.
RecordsExplainTheSchedule ==
    LET lapses == {n \in 1..Len(records) : records[n].before.state = "review"
                                           /\ records[n].rating = "again"}
    IN
    /\ card.schedule = None <=> records = <<>>
    /\ records # <<>> =>
         /\ records[1].before.algorithm = "leitner"
         /\ \A n \in 2..Len(records) : /\ records[n].before = records[n - 1].after
                                       /\ records[n].at >= records[n - 1].at
         /\ card.schedule = records[Len(records)].after
         /\ card.revision = Len(records) /\ card.schedule.reps = Len(records)
         /\ card.schedule.lapses = Cardinality(lapses)

\* The interval of each box before FSRS.
LeitnerInterval == [box \in 0..255 |->
    IF box <= 1 THEN 1 ELSE IF box >= 5 THEN 16 ELSE <<1, 2, 4, 8>>[box]]

\* An old card keeps its due date, last review plus the interval of its box,
\* on every clock that is not behind that review, until its first review takes
\* effect: it does not drift with the time of the request that looks at it.
DueDateIsKept ==
    card.schedule = None /\ card.accessed # None =>
        \A now \in Time : now >= card.accessed =>
            LegacySchedule(card, now).due = card.accessed + LeitnerInterval[card.box]

----------------------------------------------------------------------------
(* What makes the properties inductive: what a review under way has computed *)

\* A draft continues the schedule that it has read: a Leitner estimate without
\* counts on a card that was never reviewed, and the card's own schedule for as
\* long as its revision is the card's.
DraftIsTrue(w) ==
    rw[w] # IdleReview =>
        LET r == rw[w].review[1]
            next == Repeat(r.before, r.rating, r.at)
        IN
        /\ Len(rw[w].review) = 1 /\ rw[w].expected <= card.revision
        /\ rw[w].expected = 0 => /\ r.before.algorithm = "leitner"
                                 /\ r.before.reps = 0 /\ r.before.lapses = 0
        /\ rw[w].expected = card.revision /\ records # <<>> => r.before = card.schedule
        /\ Repeatable(r.before, r.at)
        /\ r.after.algorithm = "fsrs-6" /\ r.after.last = r.at
        /\ r.after.due = next.due /\ r.after.state = next.state
        /\ r.after.reps = next.reps /\ r.after.lapses = next.lapses

SchedulingInductive ==
    /\ card.revision = Len(records)
    /\ EveryCardCanBeReviewed
    /\ RecordsExplainTheSchedule
    /\ records # <<>> => card.schedule.last = records[Len(records)].at
    /\ \A w \in Reviewer : DraftIsTrue(w)

=============================================================================
