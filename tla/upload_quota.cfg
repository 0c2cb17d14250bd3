\* Three uploads around one midnight, with a budget for two or three of them.
SPECIFICATION Spec
CONSTANTS
    Uploader = {u1, u2, u3}
    LastDay = 1
    MaxUploads = 3
    MaxBytes = 4
    MaxSize = 2
SYMMETRY Interchangeable
INVARIANTS
    BudgetHolds
    StoredIsReserved
    RefusedMeansFull
