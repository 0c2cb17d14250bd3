\* Deletes asked for again and again after attempts that failed half way, while
\* the image below is migrated.
SPECIFICATION LiveSpec
CHECK_DEADLOCK FALSE
CONSTANTS
    None = None
    category = category
    deck = deck
    card = card
    section = section
    drawing = drawing
    photo = photo
    scan = scan
    Item = {deck, card, scan}
    Kind <- BranchKind
    Parent <- DeckParent
    Legacy = {scan}
    Untyped = {}
    CreateWorker = {}
    DeleteWorker = {d1, d2}
    Migrator = {m1}
    Backfiller = {}
    Resend = FALSE
PROPERTIES
    RetriedDeleteSucceeds
