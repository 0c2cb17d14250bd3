\* Two cascades over one branch of every kind while nothing is created.
SPECIFICATION Spec
CHECK_DEADLOCK FALSE
CONSTANTS
    None = None
    category = category
    deck = deck
    card = card
    section = section
    drawing = drawing
    photo = photo
    scan = scan
    Item = {category, deck, card, section, drawing}
    Kind <- BranchKind
    Parent <- BranchParent
    Legacy = {}
    Untyped = {}
    CreateWorker = {}
    DeleteWorker = {d1, d2}
    Migrator = {}
    Backfiller = {}
    Resend = FALSE
SYMMETRY Interchangeable
INVARIANTS
    NoOrphans
    ListedChildrenAreGone
    LibraryInductive
PROPERTIES
    CascadesAdvance
