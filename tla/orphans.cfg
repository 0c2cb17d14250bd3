\* A create and a cascade of its parent.
SPECIFICATION Spec
CHECK_DEADLOCK FALSE
CONSTANTS
    None = None
    category = category
    deck = deck
    card = card
    section = section
    drawing = drawing
    photo = photo
    scan = scan
    Item = {category, deck, card}
    Kind <- BranchKind
    Parent <- BranchParent
    Legacy = {}
    Untyped = {}
    CreateWorker = {w1}
    DeleteWorker = {d1}
    Migrator = {}
    Backfiller = {}
    Resend = FALSE
SYMMETRY Interchangeable
INVARIANTS
    NoOrphans
