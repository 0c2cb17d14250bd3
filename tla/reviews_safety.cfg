\* Two concurrent reviews and one delete, two request ids, two ratings.
SPECIFICATION Spec
CONSTANTS
    ReviewWorker = {w1, w2}
    DeleteWorker = {d1}
    EditWorker = {}
    RequestId = {i1, i2}
    Rating = {again, good}
    Again = again
    Content = {q1}
    MaxRevision = 2
    None = None
SYMMETRY Interchangeable
INVARIANTS
    HistoryIsIntact
    RecordsAreLinked
    OneReviewPerRequest
    EveryRatingCountsOnce
    AnswersAreCommitted
    LateRetryIsNotRefused
    HistoryInductive
PROPERTIES
    RecordsLeaveNewestFirst
    ImplementsReviewLog
