-------------------------- MODULE SchedulingProofs --------------------------
(***************************************************************************)
(* The schedule of a card and its records, for any number of reviewers,    *)
(* any clocks and any stored boxes.                                        *)
(***************************************************************************)
EXTENDS Scheduling, SequenceTheorems, FiniteSetTheorems, TLAPS

----------------------------------------------------------------------------
(* What package scheduling computes *)

\* A box, however stored, waits for as long as Leitner's boxes did.
LEMMA DaysOfABox ==
  ASSUME NEW box \in 0..255
  PROVE  /\ Days(box) \in 1..16 /\ Days(box) = LeitnerInterval[box]
<1>1. LeitnerInterval[box] =
        IF box <= 1 THEN 1 ELSE IF box >= 5 THEN 16 ELSE <<1, 2, 4, 8>>[box]
  BY DEF LeitnerInterval
<1>2. CASE box \in {0, 1}
  <2>1. Days(box) = 2 ^ 0
    <3>1. (IF box > 5 THEN 5 ELSE IF box < 1 THEN 1 ELSE box) = 1
      BY <1>2
    <3>2. 1 - 1 = 0
      OBVIOUS
    <3> QED BY <3>1, <3>2 DEF Days
  <2> QED BY <1>1, <1>2, <2>1
<1>3. CASE box = 2
  <2>1. Days(box) = 2 ^ 1
    BY <1>3 DEF Days
  <2> QED BY <1>1, <1>3, <2>1
<1>4. CASE box = 3
  <2>1. Days(box) = 2 ^ 2
    BY <1>4 DEF Days
  <2> QED BY <1>1, <1>4, <2>1
<1>5. CASE box = 4
  <2>1. Days(box) = 2 ^ 3
    BY <1>5 DEF Days
  <2> QED BY <1>1, <1>5, <2>1
<1>6. CASE box \in 5..255
  <2>1. Days(box) = 2 ^ 4
    <3>1. (IF box > 5 THEN 5 ELSE IF box < 1 THEN 1 ELSE box) = 5
      BY <1>6
    <3>2. 5 - 1 = 4
      OBVIOUS
    <3> QED BY <3>1, <3>2 DEF Days
  <2> QED BY <1>1, <1>6, <2>1
<1> QED BY <1>2, <1>3, <1>4, <1>5, <1>6

LEMMA LegacyFields ==
  ASSUME NEW c \in Card, NEW now \in Time
  PROVE  /\ LegacySchedule(c, now) \in CardSchedule
         /\ LegacySchedule(c, now).algorithm = "leitner"
         /\ LegacySchedule(c, now).reps = 0 /\ LegacySchedule(c, now).lapses = 0
         /\ Repeatable(LegacySchedule(c, now), now)
         /\ c.accessed # None /\ now >= c.accessed =>
              LegacySchedule(c, now).due = c.accessed + LeitnerInterval[c.box]
<1>1. /\ c.box \in 0..255 /\ c.accessed \in Time \cup {None}
      /\ now \in Nat /\ Time \subseteq Nat /\ None \notin Nat
  BY SchedulingAssumption DEF Card, Time
<1>a. c.accessed # None => c.accessed \in Nat
  BY <1>1
<1>2. Days(c.box) \in 1..16 /\ Days(c.box) = LeitnerInterval[c.box]
  BY <1>1, DaysOfABox
<1>n. PICK new : new = [algorithm |-> "leitner", due |-> now, last |-> None, state |-> "new",
                        days |-> 0, reps |-> 0, lapses |-> 0]
  OBVIOUS
<1>3. CASE c.accessed = None \/ c.accessed > now
  <2>1. LegacySchedule(c, now) = new
    BY <1>n, <1>3 DEF LegacySchedule
  <2>2. /\ new \in CardSchedule /\ new.algorithm = "leitner" /\ new.reps = 0 /\ new.lapses = 0
        /\ Repeatable(new, now)
    BY <1>1, <1>n DEF CardSchedule, Repeatable
  <2>3. ~(c.accessed # None /\ now >= c.accessed)
    <3>1. ASSUME c.accessed # None PROVE ~(now >= c.accessed)
      <4>1. PICK a \in Nat : a = c.accessed
        BY <1>a, <3>1
      <4>2. a > now
        BY <1>3, <3>1, <4>1
      <4> QED BY <1>1, <4>1, <4>2
    <3> QED BY <3>1
  <2> QED BY <2>1, <2>2, <2>3
<1>4. CASE c.accessed # None /\ ~(c.accessed > now)
  <2>1. LegacySchedule(c, now) = [new EXCEPT !.due = c.accessed + Days(c.box),
            !.last = c.accessed, !.state = "review", !.days = Days(c.box)]
    BY <1>n, <1>4 DEF LegacySchedule
  <2>2. PICK d \in 1..16 : d = Days(c.box)
    BY <1>2
  <2>3. PICK s : s = [new EXCEPT !.due = c.accessed + d, !.last = c.accessed,
                                 !.state = "review", !.days = d]
    OBVIOUS
  <2>a. c.accessed \in Nat /\ c.accessed + d \in Nat /\ d \in 0..16 /\ c.accessed <= now
    <3>1. PICK a \in Nat : a = c.accessed
      BY <1>a, <1>4
    <3>2. a <= now
      BY <1>1, <1>4, <3>1
    <3> QED BY <3>1, <3>2
  <2>b. s = [algorithm |-> "leitner", due |-> c.accessed + d, last |-> c.accessed,
             state |-> "review", days |-> d, reps |-> 0, lapses |-> 0]
    BY <1>n, <2>3
  <2>4. /\ s.algorithm = "leitner" /\ s.reps = 0 /\ s.lapses = 0 /\ s.due = c.accessed + d
        /\ s \in CardSchedule /\ Repeatable(s, now)
    BY <2>a, <2>b DEF CardSchedule, Repeatable
  <2> QED BY <1>2, <2>1, <2>2, <2>3, <2>4
<1> QED BY <1>3, <1>4

\* A card without a schedule is accepted on every clock.
LEMMA OldCardsAreAccepted ==
  ASSUME NEW c \in Card, c.schedule = None
  PROVE  \A now \in Time : Accepted(c, now)
BY LegacyFields DEF Accepted, fsrsCard

LEMMA RepeatFields ==
  ASSUME NEW s \in CardSchedule, NEW rating \in Ratings, NEW now \in Time
  PROVE  LET next == Repeat(s, rating, now) IN
         /\ next.due \in Nat /\ next.last = now /\ next.days \in 0..16
         /\ next.state \in {"learning", "review", "relearning"}
         /\ next.reps = s.reps + 1
         /\ next.lapses = IF s.state = "review" /\ rating = "again" THEN s.lapses + 1
                          ELSE s.lapses
<1>1. now \in Nat
  BY SchedulingAssumption DEF Time
<1>2. NextStage(s.state, rating) \in {"learning", "review", "relearning"}
  BY DEF NextStage
<1>3. PICK stage \in {"learning", "review", "relearning"} : stage = NextStage(s.state, rating)
  BY <1>2
<1>4. PICK days \in 0..1 : days = IF stage = "review" THEN 1 ELSE 0
  OBVIOUS
<1>5. Repeat(s, rating, now) =
        [due |-> now + days, last |-> now, state |-> stage, days |-> days,
         reps |-> s.reps + 1,
         lapses |-> IF s.state = "review" /\ rating = "again" THEN s.lapses + 1 ELSE s.lapses]
  BY <1>3, <1>4 DEF Repeat
<1> QED BY <1>1, <1>4, <1>5

\* What a review saves is what the library answers for the card as it was read.
LEMMA ApplyFields ==
  ASSUME NEW c \in Card, NEW rating \in Ratings, NEW now \in Time,
         NEW before \in CardSchedule, before = fsrsCard(c, now), Accepted(c, now)
  PROVE  LET after == Apply(c, rating, now)
             next == Repeat(before, rating, now) IN
         /\ after \in CardSchedule
         /\ after.algorithm = "fsrs-6" /\ after.last = now
         /\ after.due = next.due /\ after.state = next.state
         /\ after.reps = next.reps /\ after.lapses = next.lapses
<1>1. PICK next : next = Repeat(before, rating, now)
  OBVIOUS
<1>2. outcomes(c, now)[rating] = next
  BY <1>1 DEF outcomes
<1>3. Apply(c, rating, now) =
        [algorithm |-> "fsrs-6", due |-> next.due, last |-> next.last, state |-> next.state,
         days |-> next.days, reps |-> next.reps, lapses |-> next.lapses]
  BY <1>2 DEF Apply
<1>4. /\ next.due \in Nat /\ next.last = now /\ next.days \in 0..16
      /\ next.state \in {"new", "learning", "review", "relearning"}
      /\ next.reps \in Nat /\ next.lapses \in Nat
  BY <1>1, RepeatFields DEF CardSchedule
<1>5. now \in Nat
  BY SchedulingAssumption DEF Time
<1> QED BY <1>1, <1>3, <1>4, <1>5 DEF CardSchedule

----------------------------------------------------------------------------
(* The inductive invariant *)

Sound == TypeOK /\ SchedulingInductive

LEMMA InitIsSound == Init => Sound
<1> SUFFICES ASSUME Init PROVE Sound
  OBVIOUS
<1>1. PICK accessed \in Time \cup {None}, box \in Box :
        card = [accessed |-> accessed, box |-> box, schedule |-> None, revision |-> 0]
  BY DEF Init
<1>2. records = <<>> /\ Len(records) = 0 /\ records \in Seq(Record)
  BY DEF Init
<1>3. \A w \in Reviewer : rw[w] = IdleReview
  BY DEF Init
<1>4. rw \in [Reviewer -> ReviewLocal]
  BY DEF Init, IdleReview, ReviewLocal
<1>5. card \in Card /\ card.schedule = None /\ card.revision = 0
  BY <1>1, SchedulingAssumption DEF Card
<1>6. TypeOK
  BY <1>2, <1>4, <1>5 DEF TypeOK
<1>7. EveryCardCanBeReviewed
  BY <1>5, OldCardsAreAccepted DEF EveryCardCanBeReviewed
<1>8. SchedulingInductive
  BY <1>2, <1>3, <1>5, <1>7 DEF SchedulingInductive, RecordsExplainTheSchedule, DraftIsTrue
<1> QED BY <1>6, <1>8 DEF Sound

\* What is known of the draft of an invocation that has one.
LEMMA DraftStays ==
  ASSUME NEW v \in Reviewer, DraftIsTrue(v), rw'[v] = rw[v],
         rw[v] # IdleReview =>
           /\ rw[v].expected <= card'.revision
           /\ rw[v].expected = card'.revision /\ records' # <<>> =>
                rw[v].review[1].before = card'.schedule
  PROVE  DraftIsTrue(v)'
BY ZenonT(60) DEF DraftIsTrue

LEMMA DraftKept ==
  ASSUME NEW v \in Reviewer, DraftIsTrue(v), rw'[v] = rw[v],
         card'.revision = card.revision, card'.schedule = card.schedule, records' = records
  PROVE  DraftIsTrue(v)'
<1>1. rw[v] # IdleReview =>
        /\ rw[v].expected <= card'.revision
        /\ rw[v].expected = card'.revision /\ records' # <<>> =>
             rw[v].review[1].before = card'.schedule
  BY Zenon DEF DraftIsTrue
<1> QED BY <1>1, DraftStays

LEMMA DraftFields ==
  ASSUME Sound, NEW w \in Reviewer, rw[w] # IdleReview
  PROVE  \E r \in Record :
           LET next == Repeat(r.before, r.rating, r.at) IN
           /\ r = rw[w].review[1] /\ rw[w].review \in Seq(Record) /\ Len(rw[w].review) = 1
           /\ rw[w].expected \in Nat /\ rw[w].expected <= card.revision
           /\ rw[w].expected = 0 => /\ r.before.algorithm = "leitner"
                                    /\ r.before.reps = 0 /\ r.before.lapses = 0
           /\ rw[w].expected = card.revision /\ records # <<>> => r.before = card.schedule
           /\ Repeatable(r.before, r.at)
           /\ r.after.algorithm = "fsrs-6" /\ r.after.last = r.at
           /\ r.after.due = next.due /\ r.after.state = next.state
           /\ r.after.reps = next.reps /\ r.after.lapses = next.lapses
<1>1. rw[w].review \in Seq(Record) /\ rw[w].expected \in Nat
  BY DEF Sound, TypeOK, ReviewLocal
<1>2. DraftIsTrue(w)
  BY DEF Sound, SchedulingInductive
<1>3. Len(rw[w].review) = 1
  BY <1>2 DEF DraftIsTrue
<1>4. rw[w].review[1] \in Record
  BY <1>1, <1>3, ElementOfSeq
<1> QED BY <1>1, <1>2, <1>4 DEF DraftIsTrue

LEMMA EditKeepsSound ==
  ASSUME Sound, UpdateAttrs
  PROVE  Sound'
<1> USE DEF Sound
<1>1. PICK accessed \in Time \cup {None, card.accessed}, box \in (Box \cap 1..5) \cup {card.box} :
        card' = [card EXCEPT !.accessed = accessed, !.box = box]
  BY DEF UpdateAttrs
<1>2. /\ card \in Card /\ UNCHANGED <<records, rw>>
      /\ accessed \in Time \cup {None} /\ box \in 0..255
  BY SchedulingAssumption DEF UpdateAttrs, TypeOK, Card
<1>3. /\ card' \in Card /\ card'.schedule = card.schedule /\ card'.revision = card.revision
  BY <1>1, <1>2 DEF Card
<1>s. card.schedule = None
  BY DEF UpdateAttrs
<1>4. TypeOK'
  BY <1>2, <1>3 DEF TypeOK
<1>5. EveryCardCanBeReviewed'
  <2>1. \A now \in Time : Accepted(card', now)
    BY <1>3, <1>s, OldCardsAreAccepted
  <2> QED BY <2>1 DEF EveryCardCanBeReviewed
<1>6. RecordsExplainTheSchedule'
  BY <1>2, <1>3 DEF SchedulingInductive, RecordsExplainTheSchedule
<1>7. \A w \in Reviewer : DraftIsTrue(w)'
  BY <1>2, <1>3, DraftKept DEF SchedulingInductive
<1> QED BY <1>2, <1>3, <1>4, <1>5, <1>6, <1>7 DEF SchedulingInductive

LEMMA ReadKeepsSound ==
  ASSUME Sound, NEW w \in Reviewer, ReadCard(w)
  PROVE  Sound'
<1> USE DEF Sound
<1>t. /\ card \in Card /\ records \in Seq(Record) /\ rw \in [Reviewer -> ReviewLocal]
      /\ card.revision \in Nat /\ UNCHANGED <<card, records>>
  BY DEF ReadCard, TypeOK, Card
<1>1. PICK rating \in Ratings, now \in Time :
        /\ rw' = [rw EXCEPT ![w] =
                    [expected |-> card.revision,
                     review |-> <<[rating |-> rating, at |-> now, before |-> fsrsCard(card, now),
                                   after |-> Apply(card, rating, now)]>>]]
        /\ Accepted(card, now)
  BY DEF ReadCard, fsrsCard
<1>2. PICK before \in CardSchedule :
        /\ before = fsrsCard(card, now) /\ Repeatable(before, now)
        /\ card.schedule = None => /\ before.algorithm = "leitner"
                                   /\ before.reps = 0 /\ before.lapses = 0
        /\ card.schedule # None => before = card.schedule
  <2>1. CASE card.schedule = None
    BY <1>t, <2>1, LegacyFields DEF fsrsCard
  <2>2. CASE card.schedule # None
    BY <1>1, <1>t, <2>2 DEF fsrsCard, Card, Accepted
  <2> QED BY <2>1, <2>2
<1>3. PICK after : /\ after = Apply(card, rating, now)
                   /\ after \in CardSchedule
                   /\ after.algorithm = "fsrs-6" /\ after.last = now
                   /\ after.due = Repeat(before, rating, now).due
                   /\ after.state = Repeat(before, rating, now).state
                   /\ after.reps = Repeat(before, rating, now).reps
                   /\ after.lapses = Repeat(before, rating, now).lapses
  BY <1>1, <1>t, <1>2, ApplyFields
<1>4. PICK r : r = [rating |-> rating, at |-> now, before |-> before, after |-> after]
  OBVIOUS
<1>5. /\ r \in Record /\ r.before = before /\ r.after = after /\ r.at = now /\ r.rating = rating
  BY <1>3, <1>4 DEF Record
<1>6. PICK l : l = [expected |-> card.revision, review |-> <<r>>]
  OBVIOUS
<1>7. /\ l \in ReviewLocal /\ l.expected = card.revision /\ l.review[1] = r /\ Len(l.review) = 1
  BY <1>t, <1>5, <1>6 DEF ReviewLocal
<1>8. rw' = [rw EXCEPT ![w] = l]
  BY <1>1, <1>2, <1>3, <1>4, <1>6
<1>9. rw'[w] = l /\ \A v \in Reviewer \ {w} : rw'[v] = rw[v]
  BY <1>t, <1>8
<1>10. TypeOK'
  BY <1>t, <1>7, <1>8 DEF TypeOK
<1>11. /\ card.revision = Len(records)
       /\ card.schedule = None <=> records = <<>>
       /\ Len(records) = 0 <=> records = <<>>
  BY <1>t, EmptySeq DEF SchedulingInductive, RecordsExplainTheSchedule
<1>12. DraftIsTrue(w)'
  <2>1. card.revision <= card.revision
    BY <1>t
  <2> QED BY <1>t, <1>2, <1>3, <1>5, <1>7, <1>9, <1>11, <2>1 DEF DraftIsTrue
<1>13. \A v \in Reviewer \ {w} : DraftIsTrue(v)'
  <2>1. UNCHANGED <<card, records>>
    BY DEF ReadCard
  <2> QED BY <1>9, <2>1, DraftKept DEF SchedulingInductive
<1>14. /\ EveryCardCanBeReviewed' /\ RecordsExplainTheSchedule'
       /\ (card.revision = Len(records))'
       /\ (records # <<>> => card.schedule.last = records[Len(records)].at)'
  BY <1>t DEF SchedulingInductive, EveryCardCanBeReviewed, RecordsExplainTheSchedule
<1> QED BY <1>10, <1>12, <1>13, <1>14 DEF SchedulingInductive

\* The review that is saved becomes the last record.
LEMMA SaveAppends ==
  ASSUME Sound, NEW w \in Reviewer, SaveReview(w), card.revision = rw[w].expected
  PROVE  \E r \in Record, k \in Nat :
           /\ rw[w] # IdleReview /\ r = rw[w].review[1]
           /\ card'.schedule = r.after /\ card'.revision = card.revision + 1 /\ card' \in Card
           /\ k = Len(records) /\ records' \in Seq(Record) /\ Len(records') = k + 1
           /\ records'[k + 1] = r /\ \A n \in 1..k : records'[n] = records[n]
<1>1. rw[w] # IdleReview
  BY DEF SaveReview
<1>2. PICK r \in Record :
        /\ r = rw[w].review[1] /\ rw[w].review \in Seq(Record) /\ Len(rw[w].review) = 1
        /\ r.after.algorithm = "fsrs-6"
  BY <1>1, DraftFields
<1>3. /\ card' = [card EXCEPT !.schedule = r.after, !.revision = rw[w].expected + 1,
                              !.accessed = r.at]
      /\ records' = records \o rw[w].review
  BY <1>2 DEF SaveReview
<1>4. card \in Card /\ records \in Seq(Record) /\ card.revision \in Nat
  BY DEF Sound, TypeOK, Card
<1>a. r.after \in CardSchedule /\ r.at \in Time
  BY DEF Record
<1>b. PICK n \in Nat : n = rw[w].expected + 1 /\ n = card.revision + 1
  BY <1>4
<1>c. card' = [card EXCEPT !.schedule = r.after, !.revision = n, !.accessed = r.at]
  BY <1>3, <1>b
<1>5. /\ card' \in Card /\ card'.schedule = r.after /\ card'.revision = card.revision + 1
  BY <1>4, <1>a, <1>b, <1>c DEF Card
<1>6. PICK k \in Nat : k = Len(records)
  BY <1>4, LenProperties
<1>7. /\ records' \in Seq(Record) /\ Len(records') = Len(records) + Len(rw[w].review)
      /\ \A i \in 1..(Len(records) + Len(rw[w].review)) :
           records'[i] = IF i <= Len(records) THEN records[i]
                         ELSE rw[w].review[i - Len(records)]
  BY <1>2, <1>3, <1>4, ConcatProperties
<1>8. \A i \in 1..(k + 1) :
           records'[i] = IF i <= k THEN records[i] ELSE rw[w].review[i - k]
  BY <1>2, <1>6, <1>7
<1>9. /\ \A i \in 1..k : records'[i] = records[i]
      /\ records'[k + 1] = r
  BY <1>2, <1>6, <1>8
<1> QED BY <1>1, <1>2, <1>5, <1>6, <1>7, <1>9

LEMMA SaveExplains ==
  ASSUME Sound, NEW w \in Reviewer, SaveReview(w), card.revision = rw[w].expected
  PROVE  RecordsExplainTheSchedule'
<1> USE DEF Sound
<1>1. PICK r \in Record, k \in Nat :
        /\ rw[w] # IdleReview /\ r = rw[w].review[1]
        /\ card'.schedule = r.after /\ card'.revision = card.revision + 1
        /\ k = Len(records) /\ records' \in Seq(Record) /\ Len(records') = k + 1
        /\ records'[k + 1] = r /\ \A n \in 1..k : records'[n] = records[n]
  BY SaveAppends
<1>2. /\ rw[w].expected = 0 => /\ r.before.algorithm = "leitner"
                               /\ r.before.reps = 0 /\ r.before.lapses = 0
      /\ records # <<>> => r.before = card.schedule
      /\ Repeatable(r.before, r.at)
      /\ r.after.reps = Repeat(r.before, r.rating, r.at).reps
      /\ r.after.lapses = Repeat(r.before, r.rating, r.at).lapses
  BY <1>1, DraftFields
<1>3. r.before \in CardSchedule /\ r.after \in CardSchedule /\ r.rating \in Ratings /\ r.at \in Time
  BY DEF Record
<1>4. /\ r.after.reps = r.before.reps + 1
      /\ r.after.lapses = IF r.before.state = "review" /\ r.rating = "again"
                          THEN r.before.lapses + 1 ELSE r.before.lapses
  BY <1>2, <1>3, RepeatFields
<1>5. card.revision = k /\ records \in Seq(Record) /\ (records = <<>> <=> k = 0)
  BY <1>1, EmptySeq DEF SchedulingInductive, TypeOK
<1> DEFINE Lapsed(s, n) == s[n].before.state = "review" /\ s[n].rating = "again"
           old == {n \in 1..k : Lapsed(records, n)}
           all == {n \in 1..(k + 1) : Lapsed(records', n)}
<1>6. /\ k # 0 => /\ records[1].before.algorithm = "leitner"
                  /\ \A n \in 2..k : /\ records[n].before = records[n - 1].after
                                     /\ records[n].at >= records[n - 1].at
                  /\ card.schedule = records[k].after /\ card.schedule.last = records[k].at
                  /\ card.schedule.reps = k /\ card.schedule.lapses = Cardinality(old)
  BY <1>1, <1>5 DEF SchedulingInductive, RecordsExplainTheSchedule
<1>7. r.before.reps = k /\ r.before.lapses = Cardinality(old)
  <2>1. CASE k = 0
    <3>1. old = {}
      BY <2>1
    <3>2. Cardinality(old) = 0
      BY <3>1, FS_EmptySet
    <3> QED BY <1>2, <1>5, <2>1, <3>2
  <2>2. CASE k # 0
    BY <1>2, <1>5, <1>6, <2>2
  <2> QED BY <2>1, <2>2
<1>8. IsFiniteSet(old) /\ k + 1 \notin old
  <2>1. IsFiniteSet(1..k)
    BY FS_Interval
  <2>2. old \subseteq 1..k
    OBVIOUS
  <2> QED BY <2>1, <2>2, FS_Subset
<1>9. r.after.lapses = Cardinality(all)
  <2>1. \A n \in 1..k : Lapsed(records', n) <=> Lapsed(records, n)
    BY <1>1
  <2>2. Lapsed(records', k + 1) <=> r.before.state = "review" /\ r.rating = "again"
    BY <1>1
  <2>3. CASE r.before.state = "review" /\ r.rating = "again"
    <3>1. all = old \cup {k + 1}
      BY <2>1, <2>2, <2>3
    <3>2. Cardinality(all) = Cardinality(old) + 1
      BY <1>8, <3>1, FS_AddElement
    <3> QED BY <1>4, <1>7, <2>3, <3>2
  <2>4. CASE ~(r.before.state = "review" /\ r.rating = "again")
    <3>1. all = old
      BY <2>1, <2>2, <2>4
    <3> QED BY <1>4, <1>7, <2>4, <3>1
  <2> QED BY <2>3, <2>4
<1>10. records' # <<>> /\ card'.schedule # None
  BY <1>1, <1>3, NoScheduleAssumption, EmptySeq
<1>11. records'[1].before.algorithm = "leitner"
  <2>1. CASE k = 0
    <3>1. records'[1] = r /\ rw[w].expected = 0
      BY <1>1, <1>5, <2>1
    <3> QED BY <1>2, <3>1
  <2>2. CASE k # 0
    <3>1. records'[1] = records[1]
      BY <1>1, <2>2
    <3> QED BY <1>6, <2>2, <3>1
  <2> QED BY <2>1, <2>2
<1>12. \A n \in 2..(k + 1) : /\ records'[n].before = records'[n - 1].after
                               /\ records'[n].at >= records'[n - 1].at
  <2>1. ASSUME NEW n \in 2..(k + 1)
        PROVE  /\ records'[n].before = records'[n - 1].after
               /\ records'[n].at >= records'[n - 1].at
    <3>1. CASE n = k + 1
      <4>1. records'[n] = r /\ records'[n - 1] = records[k] /\ k # 0 /\ k \in 1..k
        BY <1>1, <3>1
      <4>2. r.before = card.schedule /\ card.schedule = records[k].after
        BY <1>2, <1>5, <1>6, <4>1
      <4>3. records[k] \in Record
        BY <1>1, <1>5, <4>1, ElementOfSeq
      <4>4. records[k].at \in Nat /\ records[k].at # None /\ r.at \in Nat
        BY <1>3, <4>3, SchedulingAssumption DEF Record, Time
      <4>5. records[k].at <= r.at
        BY <1>2, <1>6, <4>1, <4>2, <4>4 DEF Repeatable
      <4> QED BY <4>1, <4>2, <4>4, <4>5
    <3>2. CASE n # k + 1
      <4>1. n \in 2..k /\ n \in 1..k /\ n - 1 \in 1..k
        BY <3>2
      <4> QED BY <1>1, <1>6, <4>1
    <3> QED BY <3>1, <3>2
  <2> QED BY <2>1
<1>13. Cardinality(all) = Cardinality({n \in 1..Len(records') :
                             records'[n].before.state = "review" /\ records'[n].rating = "again"})
  BY <1>1
<1> HIDE DEF all, old, Lapsed
<1> QED BY <1>1, <1>4, <1>5, <1>7, <1>9, <1>10, <1>11, <1>12, <1>13 DEF RecordsExplainTheSchedule

LEMMA SaveKeepsSound ==
  ASSUME Sound, NEW w \in Reviewer, SaveReview(w)
  PROVE  Sound'
<1> USE DEF Sound
<1>t. rw \in [Reviewer -> ReviewLocal] /\ card.revision \in Nat
  BY DEF TypeOK, Card
<1>1. rw' = [rw EXCEPT ![w] = IdleReview]
  BY DEF SaveReview
<1>2. /\ rw'[w] = IdleReview /\ \A v \in Reviewer \ {w} : rw'[v] = rw[v]
      /\ rw' \in [Reviewer -> ReviewLocal]
  BY <1>t, <1>1 DEF IdleReview, ReviewLocal
<1>3. CASE card.revision # rw[w].expected
  <2>1. UNCHANGED <<card, records>>
    BY <1>3 DEF SaveReview
  <2>2. \A v \in Reviewer : DraftIsTrue(v)'
    <3>1. ASSUME NEW v \in Reviewer \ {w} PROVE DraftIsTrue(v)'
      BY <1>2, <2>1, DraftKept DEF SchedulingInductive
    <3>2. DraftIsTrue(w)'
      BY <1>2 DEF DraftIsTrue
    <3> QED BY <3>1, <3>2
  <2> QED BY <1>2, <2>1, <2>2 DEF TypeOK, SchedulingInductive, EveryCardCanBeReviewed,
                                  RecordsExplainTheSchedule
<1>4. CASE card.revision = rw[w].expected
  <2>1. PICK r \in Record, k \in Nat :
          /\ rw[w] # IdleReview /\ r = rw[w].review[1]
          /\ card'.schedule = r.after /\ card'.revision = card.revision + 1 /\ card' \in Card
          /\ k = Len(records) /\ records' \in Seq(Record) /\ Len(records') = k + 1
          /\ records'[k + 1] = r
    BY <1>4, SaveAppends
  <2>2. TypeOK'
    BY <1>2, <2>1 DEF TypeOK
  <2>3. (card.revision = Len(records))'
    BY <2>1 DEF SchedulingInductive
  <2>a. /\ r.after.algorithm = "fsrs-6" /\ r.after.last = r.at
        /\ r.after.state = Repeat(r.before, r.rating, r.at).state
    BY <2>1, DraftFields
  <2>b. /\ r.before \in CardSchedule /\ r.after \in CardSchedule
        /\ r.rating \in Ratings /\ r.at \in Time
    BY DEF Record
  <2>c. Time \subseteq Nat /\ r.at \in Nat /\ r.at # None
    BY <2>b, SchedulingAssumption DEF Time
  <2>l. (card.schedule.last = records[Len(records)].at)'
    BY <2>1, <2>a
  <2>4. EveryCardCanBeReviewed'
    <3>1. r.after.state \in {"learning", "review", "relearning"}
      BY <2>a, <2>b, RepeatFields
    <3>2. Readable(r.after) /\ r.after # None
      BY <2>a, <2>b, <2>c, <3>1, NoScheduleAssumption DEF Readable, fsrsState
    <3>3. ASSUME NEW now \in Time, ~Accepted(card', now) PROVE now < r.at
      BY <2>1, <2>a, <2>c, <3>2, <3>3 DEF Accepted, fsrsCard, Repeatable
    <3>4. records' # <<>> /\ records'[Len(records')].at = r.at
      BY <2>1, EmptySeq
    <3> QED BY <3>3, <3>4 DEF EveryCardCanBeReviewed
  <2>5. RecordsExplainTheSchedule'
    BY <1>4, SaveExplains
  <2>6. \A v \in Reviewer : DraftIsTrue(v)'
    <3>1. ASSUME NEW v \in Reviewer, rw'[v] # IdleReview
          PROVE  DraftIsTrue(v)'
      <4>1. rw'[v] = rw[v] /\ rw[v] # IdleReview
        BY <1>2, <3>1
      <4>2. rw[v].expected \in Nat /\ rw[v].expected <= card.revision
        BY <4>1, DraftFields
      <4>3. rw[v].expected <= card'.revision /\ rw[v].expected # card'.revision
        BY <1>t, <2>1, <4>2
      <4>4. DraftIsTrue(v)
        BY DEF SchedulingInductive
      <4> QED BY <4>1, <4>3, <4>4, DraftStays
    <3> QED BY <3>1, Zenon DEF DraftIsTrue
  <2> QED BY <2>2, <2>3, <2>4, <2>5, <2>6, <2>l DEF SchedulingInductive
<1> QED BY <1>3, <1>4

LEMMA SoundStep == Sound /\ [Next]_vars => Sound'
<1> SUFFICES ASSUME Sound, [Next]_vars PROVE Sound'
  OBVIOUS
<1>1. CASE UNCHANGED vars
  BY <1>1, ZenonT(60) DEF vars, Sound, TypeOK, SchedulingInductive, EveryCardCanBeReviewed,
              RecordsExplainTheSchedule, DraftIsTrue
<1>2. CASE Next
  BY <1>2, EditKeepsSound, ReadKeepsSound, SaveKeepsSound DEF Next
<1> QED BY <1>1, <1>2

----------------------------------------------------------------------------
(* The theorems *)

\* The card, its records and every review under way hold values of their kinds:
\* no arithmetic of package scheduling leaves its range, for any stored box.
THEOREM SchedulingTyped == Spec => []TypeOK
<1>1. Sound => TypeOK
  BY DEF Sound
<1> QED BY <1>1, InitIsSound, SoundStep, PTL DEF Spec

\* After any reviews and edits, by any number of clients with any clocks, a
\* preview or review of the card is refused only on a clock that is behind its
\* newest review: nothing that Apply writes is refused by fsrsCard, no edited
\* date by the library, and a review refuses no clock but those behind its own.
THEOREM CardsStayReviewable == Spec => []EveryCardCanBeReviewed
<1>1. Sound => EveryCardCanBeReviewed
  BY DEF Sound, SchedulingInductive
<1> QED BY <1>1, InitIsSound, SoundStep, PTL DEF Spec

\* A review that expects the card's revision saves what a preview of the card
\* offers, whoever reviewed or edited the card since it was read.
THEOREM PreviewsHold == Spec => []PreviewsAreSaved
<1>1. Sound => PreviewsAreSaved
  <2> SUFFICES ASSUME Sound, NEW w \in Reviewer, rw[w] # IdleReview,
                      rw[w].expected = card.revision, records # <<>>
               PROVE  LET review == rw[w].review[1]
                          option == Preview(card, review.at)[review.rating]
                      IN /\ Accepted(card, review.at)
                         /\ review.after.due = option.due /\ review.after.state = option.state
    BY DEF PreviewsAreSaved
  <2>1. PICK r \in Record :
          /\ r = rw[w].review[1] /\ r.before = card.schedule /\ Repeatable(r.before, r.at)
          /\ r.after.due = Repeat(r.before, r.rating, r.at).due
          /\ r.after.state = Repeat(r.before, r.rating, r.at).state
    BY DraftFields
  <2>2. card.schedule # None /\ r.rating \in Ratings
    BY DEF Sound, SchedulingInductive, RecordsExplainTheSchedule, Record
  <2>3. fsrsCard(card, r.at) = r.before
    BY <2>1, <2>2 DEF fsrsCard
  <2>a. Accepted(card, r.at)
    <3>1. records \in Seq(Record) /\ Len(records) \in 1..Len(records)
      BY LenProperties, EmptySeq DEF Sound, TypeOK
    <3>a. PICK last \in Record : last = records[Len(records)]
      BY <3>1, ElementOfSeq
    <3>2. records[Len(records)].at \in Time /\ r.at \in Time
      BY <3>a DEF Record
    <3>3. records[Len(records)].at \in Nat /\ records[Len(records)].at # None /\ r.at \in Nat
      BY <3>2, SchedulingAssumption DEF Time
    <3>4. card.schedule.last = records[Len(records)].at
      BY DEF Sound, SchedulingInductive
    <3>5. ~(r.at < records[Len(records)].at)
      BY <2>1, <3>3, <3>4 DEF Repeatable
    <3> QED BY <3>2, <3>5 DEF Sound, SchedulingInductive, EveryCardCanBeReviewed
  <2>4. outcomes(card, r.at)[r.rating] = Repeat(r.before, r.rating, r.at)
    BY <2>2, <2>3, <2>a DEF outcomes
  <2>5. /\ Preview(card, r.at)[r.rating].due = Repeat(r.before, r.rating, r.at).due
        /\ Preview(card, r.at)[r.rating].state = Repeat(r.before, r.rating, r.at).state
    BY <2>2, <2>4, <2>a DEF Preview
  <2> QED BY <2>1, <2>5, <2>a
<1> QED BY <1>1, InitIsSound, SoundStep, PTL DEF Spec

\* Each record starts from the schedule that its predecessor left, at a time not
\* before it, and the counts of the card are those of its records, lapses included.
THEOREM RecordsExplain == Spec => []RecordsExplainTheSchedule
<1>1. Sound => RecordsExplainTheSchedule
  BY DEF Sound, SchedulingInductive
<1> QED BY <1>1, InitIsSound, SoundStep, PTL DEF Spec

\* Until its first review an old card is due when its Leitner box says, on every
\* clock that is not behind its last review, for every box that fits a uint8.
THEOREM DueDatesAreKept == Spec => []DueDateIsKept
<1>1. Sound => DueDateIsKept
  BY LegacyFields DEF Sound, TypeOK, DueDateIsKept
<1> QED BY <1>1, InitIsSound, SoundStep, PTL DEF Spec

=============================================================================
