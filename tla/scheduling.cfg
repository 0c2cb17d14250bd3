\* Two reviewers and edits of one old card, with clocks that disagree.
SPECIFICATION Spec
CHECK_DEADLOCK FALSE
CONSTANTS
    Reviewer = {w1, w2}
    MaxTime = 2
    Box = {0, 1, 3, 7}
    MaxReviews = 3
    None = None
SYMMETRY Interchangeable
INVARIANTS
    EveryCardCanBeReviewed
    PreviewsAreSaved
    RecordsExplainTheSchedule
    DueDateIsKept
