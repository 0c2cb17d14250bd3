\* A review, an edit and a delete of the same card at once.
SPECIFICATION Spec
CONSTANTS
    ReviewWorker = {w1}
    DeleteWorker = {d1}
    EditWorker = {e1}
    RequestId = {i1, i2}
    Rating = {again, good}
    Again = again
    Content = {q1, q2}
    MaxRevision = 2
    None = None
SYMMETRY Interchangeable
INVARIANTS
    TypeOK
    NotFoundMeansGone
    EditsSurviveReviews
    ReviewStateSurvivesEdits
    AnswersInductive
