\* Reviews, a delete and a history read of one card, beside a lagging index.
SPECIFICATION HistorySpec
CONSTANTS
    i1 = i1
    i2 = i2
    i3 = i3
    section = section
    drawing = drawing
    RequestId = {i1, i2, i3}
    Rating = {good}
    MaxRevision = 3
    Reader = {h1}
    Entry = {i1, i2, i3, section, drawing}
    Wanted = {i1, i2, i3}
    Position <- IndexOrder
    Size <- RecordSize
    Clock <- SkewedClock
    maxResultItems = 2
    maxQueryPages = 3
    maxQueryPageItems = 2
    MaxResultBytes = 9
INVARIANTS
    QueryInductive
    AnswerIsComplete
    RefusalIsDue
    HistoryFollowsTheLog
