\* Two deliveries of one request in flight together.
SPECIFICATION Spec
CONSTANTS
    ReviewWorker = {w1, w2}
    DeleteWorker = {}
    EditWorker = {}
    RequestId = {i1}
    Rating = {good}
    Again = good
    Content = {q1}
    MaxRevision = 1
    None = None
INVARIANTS
    IdenticalRetryGetsItsReview
