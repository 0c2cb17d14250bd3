\* Two deletes resume each other's work while one client goes on reviewing.
SPECIFICATION LiveSpec
CONSTANTS
    ReviewWorker = {w1}
    DeleteWorker = {d1, d2}
    EditWorker = {}
    RequestId = {i1, i2}
    Rating = {good}
    Again = good
    Content = {q1}
    MaxRevision = 2
    None = None
INVARIANTS
    DeleteAnswerIsClean
PROPERTIES
    DeletionCompletes
