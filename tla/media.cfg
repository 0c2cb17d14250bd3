\* An upload, a migration and deletes of the same images, over a changing tree.
SPECIFICATION Spec
CHECK_DEADLOCK FALSE
CONSTANTS
    None = None
    category = category
    deck = deck
    card = card
    section = section
    drawing = drawing
    photo = photo
    scan = scan
    Item = {card, drawing, scan}
    Kind <- BranchKind
    Parent <- CardParent
    Legacy = {scan}
    Untyped = {scan}
    CreateWorker = {w1}
    DeleteWorker = {d1}
    Migrator = {m1, m2}
    Backfiller = {b1}
    Resend = FALSE
SYMMETRY Interchangeable
INVARIANTS
    TypeOK
    RecordHasObject
    CleanMigrationIsComplete
PROPERTIES
    DeletedStaysDeleted
    ImplementsRecordLife
