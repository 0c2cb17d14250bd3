# Flashcard Lambda in TLA+

A formal model of the Flashcard Lambda backend: what it stores in DynamoDB and
S3, and how concurrent, failing and repeated requests change it. TLC checks the
modules on small instances, and TLAPS proves the safety properties that the
models keep, for every value of the constants.

Paths below are relative to the repository's `src/`.

## 1. The system

An authenticated HTTP handler runs in up to five concurrent Lambda invocations
(`template.yaml`, `ReservedConcurrentExecutions`). The invocations share nothing
but one DynamoDB table and one S3 bucket. A request has a 25 second context
inside a 30 second Lambda limit and may end between any two calls. The AWS SDK
sends a call again when its response is lost. Two operator commands (`cmd/backfill`
and `cmd/migrate-media`) write the same table beside the service.

### Inventory

| Component | State | Operations | Correct when | Model |
|---|---|---|---|---|
| Review service and store (`internal/service/reviews.go`, `internal/persistence/reviews.go`) | schedule, revision, head pointer and deletion marker of a card; its immutable `card_review` records | GetReview, GetCard, SaveReview (a transaction), DeleteReviews (one transaction per record) | the records form one unbroken chain; each rating counts once; each request is applied once; answers are true | `CardReviews` |
| Card edits (`internal/persistence/card_updates.go`) | question, tags, legacy recall attributes | three conditional attempts | edits never touch FSRS state, reviews never touch content | `CardReviews` |
| Cascading deletes (`internal/service/cascade.go`) | none beyond one request's call stack | list children, delete each, then the parent | children go first; every cascade ends; retries succeed | `Library` |
| CRUD handlers, router, repositories (`internal/httpapi`, `internal/persistence/store.go`) | one item per record, five parent indexes that lag | validate parent, create, update, delete | no orphans | `Library` (create, delete, lists) |
| Image uploads, S3 store, media migration (`internal/httpapi/images.go`, `internal/storage`, `internal/migration`) | image records, their storage keys, S3 objects | put, then create; copy, then attach; delete record, then object; scan to the end | no record without its object; a clean migration leaves none out | `Library` |
| Upload budget (`internal/persistence/upload_quota.go`) | one counter item for each UTC day | one conditional update | never exceeded, what is stored was reserved | `UploadQuota` |
| Bounded queries (`queryBounded` in `store.go`) | cursor, items, bytes of one query | pages, filter, limits | complete list or an error that is due | `BoundedQuery` |
| Review history (`ListReviews`, `History`) | none | consistent read of the card, then the pages of `card_id-index` | revision order, no gaps but those of the index | `ReviewHistory` |
| Scheduling (`internal/scheduling`) | the card's recall attributes and schedule | LegacySchedule, Preview, Apply | what is previewed is saved; what is saved can be read, on every clock not behind it; old due dates are kept | `Scheduling` |
| Backfill (`cmd/backfill`) | `entity_type` of old items | scan, infer, unconditional update | the right type for all of them, and no record brought back | `Library` |
| Auth, CORS, JSON, config, entry points | keys cached by the oidc library | a sequence of tests on one request or the environment | | not modelled: no shared state |

### How the parts interact

A review and an edit each end in one conditional write to the card's item. The
delete of a card runs in two components: the cascade deletes images and sections,
then `DeleteReviews` marks the card, trims its chain of records from the newest
to the oldest, and the generic delete removes the item. Uploads touch the budget
item, then the object, then the record; the migration and the cascade work on the
same records and objects in their own order, and the migration looks only for
records whose entity type is set, which the backfill does for old ones. History
and the cascades list through the same bounded query, from indexes that other
requests change while they are read.

### Hard behaviours

`PROJECT.json` lists each hazard at its line. In short: state read in one
call and used in a later one (the schedule and the pointer of a review, the
parent of a create, an image's key); calls whose response is lost and which the
client or the SDK repeats; requests killed between two writes; several deletes of
one subtree at once; indexes that lag behind the table and change between two
pages; clocks that disagree; counters, lists and pages at their limit.

## 2. Modules

| Module | Contents |
|---|---|
| `CardReviews` | one card, its records, and the invocations that review, edit and delete it |
| `ReviewLog` | what these promise: a log that is appended to once per request while open, then closed, trimmed and gone |
| `Library` | the tree of records and the image objects, with creates, cascades, uploads, backfills and migrations |
| `RecordLife` | what the library promises of its records: each appears once below its parent, has its object while it can be shown, and goes for good |
| `BoundedQuery` | lists read page by page from an index that goes on changing |
| `ReviewHistory` | composes `ReviewLog` and `BoundedQuery`: history reads beside reviews and a delete |
| `Scheduling` | one card's schedule from its Leitner box on, with previews, reviews and edits |
| `UploadQuota` | the day's budget and the uploads that reserve from it |
| `MCCardReviews`, `MCLibrary`, `MCReviewHistory`, `MCScheduling`, `MCUploadQuota` | model values, symmetry, small trees and indexes for TLC |
| `CardReviewsProofs`, `CardHistoryProofs`, `CardAnswersProofs` | theorems of `CardReviews`: types; the history and its refinement of `ReviewLog`; what requests answer |
| `LibraryProofs`, `UploadQuotaProofs`, `BoundedQueryProofs`, `ReviewHistoryProofs`, `SchedulingProofs` | theorems of the module they are named after |

`PROJECT.json`, "map", names the source lines of every definition.

### CardReviews

Every DynamoDB call is one atomic step that chooses its outcome: it takes effect
and is acknowledged, it takes effect and the response is lost, its condition
refuses it, or it fails without effect. A worker's `pc` is the call it makes
next, and its other fields are the Go variables that live across calls.

* `ReceiveReview`, `LookUp`, `ReadCard`, `SaveCommits` or `SaveFails`, `Recheck`,
  `ReadBack`: `Reviews.Review`, call by call. `SaveAllowed` is the condition of
  the transaction, `CardAfter` and `PutReview` its two writes. `SaveFails` covers
  refusal, a transaction conflict with another request's write (`OtherWriting`)
  and any other failure, before which nothing was written; the lost response of a
  committed save is a disjunct of `SaveCommits`.
* `MarkDeleting`, `ReadHead`, `Trim`, `RemoveCard`: `DeleteReviews`, then
  `Cards.Delete`. `AtHead` is the loop's test.
* `EditWrites`, `EditRefused`: `cardRepository.Update`, whose attempts assume a
  migrated, a legacy, and again a migrated card.
* `EndReview`, `EndDelete`, `EndEdit`: the response leaves, or the invocation is
  killed where it stands. Nothing of it survives.

A schedule is the sequence of the ratings that FSRS has folded into it: two
schedules are equal exactly when they result from the same ratings in the same
order, which is what the properties need. `committed`, `lastEdit` and the field
`late` are observers: no guard reads them. Revisions are `0..MaxRevision`, the
successor of the largest wraps to 0 as uint64 does, and `ValidRevision` is the
check that keeps it from happening.

Left out: a transaction that the SDK repeats (its client token makes the repeat
a no-op), review times (the properties are about revisions), and a card's moves between
decks (the API has none).

### ReviewLog

The abstract machine: `events` grows by one unused request id at a time while the
phase is "open", is only ever cut at its end while "closing", and "gone" is
final. `CardReviews` implements it under the mapping at its end, which reads the
log off the stored records alone: `ImplementsReviewLog`.

### Library

`Item` is a set of ids with a fixed `Kind` and `Parent` each: ids are UUIDs of
the server and no request changes a parent. A DELETE is a stack of activations,
one for each Go call of a `Delete` method, with the stage that it is at and the
children still to do. `ListChildren` reads `index`, every other read is
consistent. `Propagate` brings one record of an index up to date, at any time and
in any order. `Abort` is `return nil, err` through all callers; `Return` hands a
record or nil to the caller, which goes on in both cases.

`legacy` are image records without a storage key: `GetImage` refuses them, and
the migration copies the object (`CopyObject`) and attaches the key if the record
is still there and still without one (`AttachKey`). Uploads put the object before
the record. `DeleteObject` comes after `RemoveRecord` and may fail silently.

A migration is a whole run: `ScanPage` brings some of the records that the
filter lets through, `MigrateRecord` to `MigrateFails` are `migrateRecord`, and
only `EndMigration` (the last page, no entry with an error) ends with status 0; the page
and entry limits, failed scans and interrupts are `StopMigration`. A scan returns
every record that is in the table from its start to its end (`left`), and any
part of what comes and goes meanwhile.

`type` is the entity type that an item carries. Records of `Untyped` may be
older than it: no GET or DELETE finds them, no migration scans them, and filtered lists
may miss them, until a backfill has set it (`SetEntityType`). A backfill reads and
writes late: its scan is eventually consistent, so `ScanUntyped` brings any old
item as untyped, also one that has its type by now or is gone, and its update has no
condition and is sent again when its response is lost. On an item that is gone it
creates one with an id and a type only. `bare` are the ids of such items. A GET
finds them (`Found`) and so does a DELETE, which removes the bare id of a deck, card or
section and is refused at the bare id of an image, for want of a storage key; a
migration reports an error for the bare id of an image. No list of a parent shows
them, because the parent indexes hold only items that name a parent (`Indexed`). The
two lists that share `card_id-index` filter (`FilterByEntityType`), the others do not.

The model stores at most one object for an id, although a record's key also names
the format: the format is a function of the source bytes, so all writers of an id
use one key. The review cleanup inside `DeleteCard` is part of the record's
removal here, and `DeleteFails` its failure.

### RecordLife

The abstract machine of the library, without requests, calls, indexes or cascades. A
record appears at most once, after its parent did (`Appear`), an image without a
key gets one (`GetKey`), and a record goes only while it can be shown, and for
good (`Go`). In a library that is `Sealed`, where nothing is created and every record
has its type, it goes only after its children. `Library` implements it under
the mapping `Life`: what is shown is read off the table and the bucket, an
image counting only while its object is there, so that a record that lost its
object, or came back, would be no step of it. `ImplementsRecordLife` is the
property. The mapping takes nothing from the local states of the invocations.
`media` checks it on a library that is not sealed, the theorem on any; TLC agrees on the
sealed instance of `cascades_race`.

### UploadQuota

`Reserve` is the conditional update: test and charge in one step. It may be
resent, in which case it charges again, or lose its response, which wastes the
charge. A resent update names the day for which it was built (`dated`), although
midnight may have passed. The first attempt takes its day when it is applied, not when it
is built, which makes no difference to properties of each day by itself. `stored` is an observer of what reaches S3.

### BoundedQuery

`q[r]` has the variables of `queryBounded`: the items collected, their number and
bytes, the cursor and the page count. `ReadPage` is a page that a `LastEvaluatedKey`
came with and `ReadLastPage` one without, `Size` the JSON length of a set of entries,
of which only the sum matters. DynamoDB's side is external: entries of one
index key lie in a fixed order, a page evaluates the ones behind the cursor up to
the limit or fewer (its 1 MB), the filter applies afterwards, and a key comes
back unless the page reached the end; it may come back even then. `IndexChanges`
happens between any two pages. `always` and `ever` are observers of what the
index listed during the query.

`Library` lists in one step. `AnswerIsComplete` is why it may: an answered list
has every entry that was there throughout and none that never was, and what came
or went meanwhile is in the list or not, as it is in an index that lags.

### ReviewHistory

`History` and `ListReviews` over a `BoundedQuery` whose wanted entries are the
records of one card, beside its sections and question images. The table is the
`ReviewLog`, whose steps `CardReviews` implements, so no detail of the requests
is needed: a record appears, later the newest ones disappear, in the index in any
order (`PropagateReview`). `Clock` gives each record a time that has nothing to
do with its revision. `ListReviews` sorts by time and `History` by revision;
`InOrder` is Go's `sort.Slice` for an order that tells all elements apart.

### Scheduling

Time is counted in days and every request reads a clock of its own.
`LegacySchedule` and `fsrsCard` are translated with all their checks but those on
floating point numbers and the syntax of dates; a date that does not parse is
`None`. The library refuses a card whose last review is after the time of the request
(`Repeatable`, the error that `outcomes` passes on): `Accepted` takes the clock, and
`Preview`, `Apply` and a review end with an error where it does not hold. Its other
refusal, of a negative stability, is left out with the stability: only the library
computes that. Of FSRS, which is a library, the model has the four stages with one
learning and one relearning step, as the code configures it, and the counts of
reviews and lapses. Of two times of one day the model does not say which is earlier,
so a refusal within a day is not seen; one between days is. `ReadCard` and `SaveReview` are the two calls of a review
between which an edit (`UpdateAttrs`) or another review may come; `CardReviews`
has the others.

## 3. Runs

| Run | Instance | Question | Result |
|---|---|---|---|
| `reviews_safety` | 2 reviewers, 1 deleter, 2 request ids, 2 ratings, revisions to 2 | do concurrent, repeated and killed requests keep the history whole, and implement `ReviewLog`; is `HistoryInductive` kept | holds |
| `edits_race` | a reviewer, an editor and a deleter, 2 ids, 2 ratings, 2 contents | do edits and reviews leave each other's attributes alone, is every 404 true; is `AnswersInductive`, the invariant behind the answers, kept | holds |
| `deletion` | 2 deleters, a reviewer, fairness | is the card clean when a delete says so, and does a delete that is repeated complete | holds |
| `identical_retry` | 2 reviewers, 1 id | is a repeated request ever refused as a conflict | violated |
| `cascades_race` | 2 cascades, one branch with 5 kinds of record | do cascades alone leave orphans or skip a child, does each step bring them nearer to their end (`CascadesAdvance`); is `LibraryInductive` kept | holds |
| `media` | a card, a new drawing and an old scan; an uploader, a cascade, a backfill, 2 migrations | does a record ever lack its object, become one again after its deletion, or stay unmigrated after a clean run; do the table and the bucket implement `RecordLife` | holds |
| `history` | 3 reviews, a section, a drawing, 1 reader; pages of 2, at most 3 pages, 2 items, 9 bytes | is an answered list complete and in order, is a refused one over a limit | holds |
| `scheduling` | 2 reviewers and edits, 3 reviews, clocks 1..2, boxes 0, 1, 3, 7 | can every card be reviewed on a clock that is not behind, is a preview what is saved, do records explain the schedule, do old due dates stay | holds |
| `cascade_retries` | 2 cascades, a deck, its card and an old scan; a migration; fairness | does a repeated delete succeed once the images have their keys | holds |
| `orphans` | a create and a cascade | can a record outlive its parent | violated |
| `resent_create` | a create whose PutItem is resent, a cascade | can a record lack its object | violated |
| `upload_quota` | 3 uploads, 2 days, budget of 3 uploads and 4 bytes, sizes to 2 | is the budget ever exceeded, is what is stored reserved | holds |

The three violations are disagreements between the code and its documents:

* `identical_retry`: the specification promises that an identical retry returns
  its original review (`docs/superpowers/specs/2026-09-17-fsrs-design.md:8`). If
  the first delivery commits between the retry's lookup of the record and its
  read of the card, the retry is answered 409 (`internal/service/reviews.go:105`).
  `LateRetryIsNotRefused` is the part of the promise that holds: a retry that
  arrives after the commit is never refused.
* `orphans`: `internal/service/cascade.go:2` says that cascades leave no orphans.
  A create that passed its parent check before the cascade, or a record that the
  index does not list yet, becomes one. `cascades_race` shows that cascades alone
  never do.
* `resent_create`: `internal/service/cascade.go:30` prefers an orphaned object to
  a record without one. An unconditional PutItem that the SDK sends again after
  a cascade brings back a record whose object is gone. In `media`, with
  `Resend = FALSE`, no such record appears.

`DeletedStaysDeleted` is about records. The backfill may bring back a bare id of a
deleted one (`cmd/backfill/main.go:91`), which nothing in the repository
promises to avoid; what a migration must not do, and does not, is attach a key to
that id and so turn it into an image again, without the card that it was on. The
condition of its update names the URL that it has read, and a bare id has none.

`EveryCardCanBeReviewed` is about clocks that are not behind the newest review.
A slower one is refused until it has caught up (`internal/scheduling/scheduler.go:87`),
as `internal/scheduling/scheduler_test.go:246` asks for; no rating, box or edited date makes
a card refuse any other clock.

### Bounds

Two reviewers and two ids give every pair of requests: same id and same rating
(a retry), same id and another rating, another id at the same revision (a lost
race), and a stale revision. With `MaxRevision = 2` a history has two records, so
there is a predecessor, a middle of the cleanup and a largest revision. Workers
return to "idle", so sequences of requests of any length are covered. One branch
of the tree with one record per kind has every pair of a parent kind and a child
kind but the section's image, which `Library` treats as it does the question's.
Three uploads with a budget for three, or for two of size 2, meet both limits.

The histories of `reviews_safety` are shorter than the wrap of a revision needs;
`ValidRevision`, which prevents it, is covered by the proofs of section 4.

In `media` the scan is a legacy image that may lack its type, so that a backfill, its
stale or repeated updates, a cascade over the card and both migrations can meet in
any order. Untyped cards and sections are left to the proofs. In `history` two small records fit the item and
the byte cap exactly, the large one exceeds the bytes, three records exceed the
items, and the siblings can fill the page between the first and the last
record, which is then empty after the filter; three pages of at most two are
just enough or too few. In `scheduling` two clock values give a date in the past,
now and in the future, and a clock behind the newest review; the boxes are one
below, two within and one above the range; three reviews reach every stage.

`TypeOK` is a property of the runs of `CardReviews` and `Library`. The types of `UploadQuota`
and `Scheduling` are theorems, those of `BoundedQuery` are part of `QueryInductive`.

Deadlock is checked for `CardReviews`, `ReviewHistory` and `UploadQuota`. The runs of
`Library` and `Scheduling` turn it off, because the system may stop there: an
empty library whose ids have all been used has nothing left to do, nor has a card
that has had all its reviews.

### Fairness

`DeletionCompletes` and `RetriedDeleteSucceeds` need it, the others do not.

* `CardReviews!DeleteFairness`: an invocation that runs takes its next step or is
  killed, and the owner asks for a delete again until it is done (weak fairness).
  DynamoDB does not refuse or lose the same kind of call for ever (strong
  fairness of each of the four calls, because each is disabled again and again
  while a failed request is repeated). `Trim` counts as done when it takes
  effect, whether its response arrives or not.
* `Library!CascadeFairness`: an invocation takes its next step, and from some
  time on a running cascade takes only such steps: its calls do not fail without
  effect and it is not killed. That the owner asks again is the property's own
  premise, and so is that every image has its key in the end: an image without
  one is refused with every cascade above it until it is migrated. Without the second part a cascade of several records may be killed at
  a different record each time. The index need not catch up for the property to
  hold: a listed child that is gone already does not stop a cascade.

## 4. Proofs

The theorems hold for any sets of workers, ids and ratings, any tree and clocks, and
any bounds that satisfy the named ASSUMEs of the modules. Most are of the form
`Spec => []P`; `RecordsLeaveInOrder`, `DeletesAreFinal` and `CascadesComeToAnEnd` are
about steps, `TableImplementsLog`, `LibraryImplementsLives` and
`HistoryIsABoundedQuery` are refinements, and six theorems of `LibraryProofs` have
hypotheses on the constants, given below.

* `CardReviewsProofs`: `TypeCorrect`. One step per action; lemmas `...Type` give the new
  local state of a worker from its old one.
* `CardHistoryProofs`: `HistoryHolds` proves the inductive invariant
  `HistoryInductive`. `HistoryStaysIntact`, `RecordsStayLinked`, `RequestsApplyOnce`,
  `RatingsCountOnce` and `RecordsLeaveInOrder` follow from it, and so does the
  refinement `TableImplementsLog`.
* `CardAnswersProofs`: `AnswersHold` proves `AnswersInductive`, and
  `SavedMeansCommitted`, `LateRetriesAreAnswered`, `NotFoundIsTrue`,
  `DeletesLeaveNothing`, `ReviewsKeepContent` and `EditsKeepRecall` follow.
* `LibraryProofs`: `LibraryTyped` and `CleanMeansMigrated`; `LibraryHolds` proves
  `LibraryInductive`, and `ImagesHaveTheirObjects`, `DeletesAreFinal`,
  `CascadesFinishChildren` and `CascadesLeaveNoOrphans` follow; `CascadesComeToAnEnd`;
  and the refinement `LibraryImplementsLives`.
* `UploadQuotaProofs`: `QuotaTypeCorrect`, `BudgetIsNeverExceeded`, `RefusalsAreFinal`
  and `StoredStaysReserved`.
* `BoundedQueryProofs`: `QueriesAreInductive` proves `QueryInductive`, which contains
  the types, and `AnswersAreComplete` and `RefusalsAreDue` follow.
* `ReviewHistoryProofs`: `HistoryIsABoundedQuery` (every step of the composed system
  is a step of `BoundedQuery` or changes nothing of it), hence `HistoriesAreComplete`
  and `HistoryRefusalsAreDue`; and `HistoriesFollowTheLog`.
* `SchedulingProofs`: `SchedulingTyped`, `CardsStayReviewable`, `PreviewsHold`,
  `RecordsExplain` and `DueDatesAreKept`.

**Why the history needs a stronger invariant.** `HistoryIsIntact` says that the
stored records are the first k of the history and that the head pointer names
the k-th. It is not inductive: a review about to be saved carries a pointer and a
schedule that it read several steps ago, and a delete about to trim or to remove
the card relies on what it read. `HistoryInductive` adds what each invocation
knows between two calls:

* `DraftIsCurrent`: a draft is for the revision after the one the request expects,
  the card's revision never falls behind it, and *if* the card is unmarked and
  still at that revision, the draft's pointer and schedule are the card's own.
  That is exactly what the save's condition re-establishes, because revisions
  only grow and every change of pointer or schedule on an unmarked card comes with a new
  revision.
* `CleanupIsOnTrack`: the record about to be trimmed is a committed one, and the
  card is removed only when it is marked and its chain is empty.

The save step then extends the history: an unmarked card has all of it stored, so
"no stored record has this id" means that no committed record has it. The trim
step drops the k-th record and moves the head to its predecessor, which is the
(k-1)-th by `RecordsAreLinked`.

**The refinement.** With that invariant the log that the mapping reads off the table is
the first k events of the history. A save appends one (and is allowed only on an open
log that does not have the id), a trim drops the newest, the mark and the
removal change the phase, and all other steps, the edits among them, are
stutters. `RecordsLeaveNewestFirst` is the same observation on single records.

**Why the answers need one.** What a request answers was learned several calls
earlier. `AnswersInductive` says of each invocation what its position implies:
a review that reads back has found a committed record of its very event; a retry
that arrived after its commit and got past the lookup did so because the card's
deletion has begun, which nothing undoes; the third attempt of an edit follows
a refusal of the second, after which a card that still exists is migrated. The
proof rests on one lemma for all steps of others, `CardMovesForward`: a card once
marked, migrated or gone stays so, and what was committed stays committed.

**The library.** `WorkIsKnown` (ids that work is done on were generated or read)
goes with the types. `MigrationInductive` makes a clean migration mean something: each
image that is still without a key lies ahead of the run or has cost it an error,
and after a completed backfill no record lacks its type, so that the scan meets
all of them; new records never lack either. `LibraryInductive` carries the other
properties. It says of each activation of a cascade that the children listed so
far are gone, still to do, or being deleted by the activation above it; of an
upload that its id is its own; and of each migration about to attach a key that a
record still without one has its object by then. Backfills add nothing to it: what
they write, however late, is the type of a record or a bare id.

Six theorems have hypotheses, and each is needed:

* `LibraryHolds`, `ImagesHaveTheirObjects`, `DeletesAreFinal`, `CascadesFinishChildren` and
  `LibraryImplementsLives` assume `Undisturbed`: no PutItem of a create is sent twice (`resent_create` shows a record without its
  object otherwise). Any number of backfills may run, and their updates may be sent twice.
* `CascadesFinishChildren` and `CascadesLeaveNoOrphans` assume `Untyped = {}`: a
  filtered list misses a record without a type, and its own DELETE does not find it.
* `CascadesLeaveNoOrphans` assumes that nothing is created (`orphans` shows a create
  that leaves one).

`LibraryTyped`, `CleanMeansMigrated` and `CascadesComeToAnEnd` assume nothing but
`TreeAssumption`: a child's kind is among those its parent's kind lists, images have
a parent and no children, and only images may lack a key.

**Why a cascade ends.** A cascade reads lists that change below it, other cascades
delete its children, and nothing bounds how many creates, migrations and
backfills run beside it. `CascadesAdvance` gives each stack of activations a
place in a well-founded order. A step leaves the stack as it is up to some
activation; that one gets to a later stage, or loses a listed child at the same
stage, or it has ended with all above it. There are at most two stages,
the lists are finite, and a stack is never deeper than the five levels of the tree, so
no infinite sequence of a cascade's own steps exists. The last step of this
argument, from the order to its consequence, needs induction and stays in prose.
A cascade is never without a step either: `CanGoOn` is the
guard of one, whatever the others do. What the proof needs beyond the types is
`WorkIsPlaced`: the n-th activation is for a record of the n-th level or below and
lists only children of its own record, so that an activation never meets its own
record again, and an image past its first stage has its key. No hypothesis
is needed: a stale index or an untyped record can make a cascade miss a child or
meet one that is gone, not make it run on. The mutant of `ListChildren` that lists
a kind until its list is empty runs on as long as the index lags.

**The lives of the records.** The mapping maps `CreateRecord` to `Appear`, the
`RemoveRecord` that finds its record to `Go`, the `AttachKey` that finds its image
unchanged to `GetKey`, and every other step to a stutter: `SetEntityType` among
them, which makes bare ids but no records, and `PutObject` and
`DeleteObject`, which come before the record and after it. `LibraryInductive`
gives that every record with a key has its object, that a create's id is new, and that a
sealed library has no orphans after the step, hence that what goes has no
children left. `WorkIsPlaced` gives the rest: a create past its check
has a parent that was there, and an image goes only with its key.

**The budget.** Its invariant is inductive with the types: only `Reserve` changes the
counters, and its condition `bytes <= MaxBytes - size` bounds the sum because a
size never exceeds `MaxBytes` (`LimitsAssumption`). `StoredIsReserved` is harder,
because several uploads hold reservations at once: `ReservationsAreApart` gives
each upload that may still store units of the day's budget of its own, disjoint
from the others' and from what is stored already, and a store moves them over.
This avoids a sum over a set of uploads, which the prover cannot do induction
on. `ReservationsStayApart` proves it; no run checks it, because it quantifies over
all ways to divide the budget.

**Why a query needs one.** `AnswerIsComplete` speaks of the last page only. What
holds at every page, `Collects`, is that each wanted entry at or before the cursor
that was listed all the time is among the items, that no item lies behind the
cursor (so a page can bring none twice), and that each page has brought the
cursor past one entry more, which makes a refusal after `maxQueryPages` due.
A change of the index can only shrink `always` and grow `ever`. The proof needs
that positions differ and that the size of a list is the sum of its parts
(`QueryAssumption`), and nothing of how far a page reaches.

**Why a history follows the log.** `TableIsOfTheLog` relates the table, the index and what
each query has seen to the log. Together with the completeness of the list it
puts exactly the right records into the answer. That `sort.Slice` can put them in
order needs no induction: in a strict order the number of elements up to an
element is its place, places differ, so the places of a finite set are all of
1..n (`SortedExists`), and the place of the i-th event of the log is i if the
events before it are there (`PlaceIsRevision`).

**Scheduling.** A draft is computed from a card that others go on editing and
reviewing. `DraftIsTrue` says what stays of it: which schedule it started from as
long as the revision is the card's, that its last review was not after the time of
the request, and that the outcome is FSRS's of that schedule, at that time.
`SchedulingInductive` adds that the card's revision counts its records and that its
last review is the newest record's. The count of lapses in `RecordsExplainTheSchedule` is the cardinality of a
set that each save extends by at most one element. The proof assumes of `None` that
it is not a schedule (`NoScheduleAssumption`).

**Model-checked only.** `DeletionCompletes` and `RetriedDeleteSucceeds`: they rest on
fairness and hence on ENABLED, which the prover does not support.
`CascadesComeToAnEnd` is the safety half of the second one: what remains is that the
steps are taken. The violations are counterexamples of TLC. All other properties of
the runs are proved. Four inductive invariants are no property of a run
(`MigrationInductive`, `WorkIsPlaced`, `SchedulingInductive`, `TableIsOfTheLog`); TLC agrees
with the first two on the instances of `media` and `cascades_race`, with the others on
those of `scheduling` and `history`.

## 5. Plan

Done, in this order: `CardReviews` with `ReviewLog`; `Library`; `UploadQuota`; the
backfill and whole migrations in `Library`; `BoundedQuery` and its composition with
the log, `ReviewHistory`; `Scheduling`; the proofs of all their safety properties; the
abstract library `RecordLife` with the proof that `Library` implements it; and the safety
half of the termination of cascades.

One planned property is dropped. `PreviewsAreSaved` begins with a card's second
review and cannot be extended to the first: the first review computes from
the Leitner attributes that it read, and a PUT of these does not change the revision that the
save tests, so what is saved need not be what a preview of the card would show at that
moment. `RecordsExplainTheSchedule` says what does hold.

Open: a fair abstract library, and the proof that a repeated delete makes its record go in
it, need a prover for ENABLED.

## 6. Not modelled

* FSRS arithmetic, image codecs, token verification, URL signing and JSON are
  libraries or pure functions of one value. `NormalizeImage` and `ImageKey`
  choose a format and a name from one input; the models use only that both are
  functions of it.
* Authentication, CORS, the limits of JSON bodies and `ParseLegacyURL` are tests
  on one request in a fixed order, configuration is tests on the environment
  before any request: no state, nothing concurrent, and tables of unit tests reach
  them. A model would restate them.
* PUT of entities other than cards is one `UpdateItem`, conditional on the
  record's existence and type, of attributes that no property mentions. Tags have
  no children; their create, update and delete are single writes.
* The wording of answers, logging, the formats of timestamps and HTTP headers.
