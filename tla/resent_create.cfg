\* A PutItem that the SDK sends twice.
SPECIFICATION Spec
CHECK_DEADLOCK FALSE
CONSTANTS
    None = None
    category = category
    deck = deck
    card = card
    section = section
    drawing = drawing
    photo = photo
    scan = scan
    Item = {category, deck, card, drawing}
    Kind <- BranchKind
    Parent <- BranchParent
    Legacy = {}
    Untyped = {}
    CreateWorker = {w1}
    DeleteWorker = {d1}
    Migrator = {}
    Backfiller = {}
    Resend = TRUE
SYMMETRY Interchangeable
INVARIANTS
    RecordHasObject
