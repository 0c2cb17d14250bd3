------------------------------ MODULE Library ------------------------------
(***************************************************************************)
(* The records of the library (categories, decks, cards, answer sections   *)
(* and the images of both) with the S3 objects of the images, and what     *)
(* creates, deletes and migrates them: POST handlers and image uploads,    *)
(* the cascading deletes of package service, the entity type backfill and  *)
(* the media migration.                                                    *)
(*                                                                         *)
(* Cascades find children through a global secondary index, which follows  *)
(* the table in its own time. Every call is one atomic step and may fail,  *)
(* take effect with its response lost, or be the last step of its          *)
(* invocation. The review cleanup inside DeleteCard is the subject of      *)
(* CardReviews; here it only succeeds or fails.                            *)
(***************************************************************************)
EXTENDS Naturals, Sequences, FiniteSets

CONSTANTS
    Item,          \* the ids of the records that exist or may be created
    Kind,          \* Kind[i] is the entity type of the record with id i
    Parent,        \* Parent[i] is the id that this record names as its parent,
                   \* None for the root of the part of the library looked at
    Legacy,        \* image records that were stored before managed object keys
    Untyped,       \* records that may have been stored before entity types
    CreateWorker,  \* invocations serving POST
    DeleteWorker,  \* invocations serving DELETE
    Migrator,      \* runs of cmd/migrate-media with --apply
    Backfiller,    \* runs of cmd/backfill with -apply
    Resend,        \* whether the SDK resends a PutItem whose response was lost
    None

Kinds == {"category", "deck", "card", "section", "questionImage", "sectionImage"}

ImageKinds == {"questionImage", "sectionImage"}

\* The kinds of children that a cascade lists, in the order it lists them.
ChildKinds == [category |-> <<"deck">>, deck |-> <<"card">>,
               card |-> <<"questionImage", "section">>, section |-> <<"sectionImage">>,
               questionImage |-> <<>>, sectionImage |-> <<>>]

Stages(i) == Len(ChildKinds[Kind[i]])

IsImage(i) == Kind[i] \in ImageKinds

ASSUME TreeAssumption ==
    /\ None \notin Item \cup Kinds
    /\ Kind \in [Item -> Kinds]
    /\ Parent \in [Item -> Item \cup {None}]
    /\ \A i \in Item : Kind[i] = "category" => Parent[i] = None
    /\ \A i \in Item : Parent[i] # None =>
          \E n \in 1..Stages(Parent[i]) : ChildKinds[Kind[Parent[i]]][n] = Kind[i]
    /\ \A i \in Item : IsImage(i) => Parent[i] # None
    /\ Legacy \subseteq {i \in Item : IsImage(i)}
    /\ Untyped \subseteq Item
    /\ \A i \in Untyped : IsImage(i) => i \in Legacy

ASSUME ResendAssumption == Resend \in BOOLEAN

VARIABLES
    table,    \* ids of the records in the table
    index,    \* ids of the records that the parent indexes list
    legacy,   \* image records that have no storage key (yet)
    type,     \* the entity type that a record carries, None if it has none
    bare,     \* ids of items that are no records: an id with an entity type
              \* and nothing else
    objects,  \* image ids whose managed S3 object is stored
    taken,    \* ids that have been generated
    born,     \* ids whose record has been in the table
    cw,       \* local state of each POST invocation
    dw,       \* local state of each DELETE invocation
    mw,       \* local state of each migration run
    bw        \* local state of each backfill run

vars == <<table, index, legacy, type, bare, objects, taken, born, cw, dw, mw, bw>>

----------------------------------------------------------------------------
(* Local states *)

CreatePc == {"idle", "check", "put", "create"}
MigratePc == {"idle", "scan", "put", "attach", "clean"}
BackfillPc == {"idle", "scan", "complete"}

\* 500 stands for every answer that reports a failure.
Status == {0, 200, 404, 500}

\* A POST is idle again as soon as it answers: no property looks at its status.
CreateLocal == [pc: CreatePc, item: Item \cup {None}]

IdleCreate == [pc |-> "idle", item |-> None]

\* One activation of a Delete method: "todo" are the listed children still to
\* be deleted and "seen" (an observer) all that were listed. An image passes
\* from stage 0 (read) over 1 (delete the record) to 2 (delete its object).
Frame == [item: Item, stage: 0..2, todo: SUBSET Item, seen: SUBSET Item]

Activation(i) == [item |-> i, stage |-> 0, todo |-> {}, seen |-> {}]

DeleteLocal == [stack: Seq(Frame), root: Item \cup {None}, status: Status]

IdleDelete == [stack |-> <<>>, root |-> None, status |-> 0]

\* "page" are the records without a key that a page has brought and that are
\* still to be migrated, "left" the images that the scan has yet to return,
\* "errors" whether an entry reports one. "verified" is an observer: a backfill
\* had completed when this run began.
MigrateLocal == [pc: MigratePc, page: SUBSET Item, item: Item \cup {None},
                 left: SUBSET Item, errors: BOOLEAN, verified: BOOLEAN]

IdleMigrate == [pc |-> "idle", page |-> {}, item |-> None,
                left |-> {}, errors |-> FALSE, verified |-> FALSE]

\* "page" are the records without a type that a page has brought.
BackfillLocal == [pc: BackfillPc, page: SUBSET Item, left: SUBSET Item]

IdleBackfill == [pc |-> "idle", page |-> {}, left |-> {}]

\* A parent index has the records that name a parent, and no other items.
Indexed == {i \in table : Parent[i] # None}

\* A library in which every record has its parent, every list is up to date
\* and every image that is not a legacy one has its object.
Init ==
    /\ table \in SUBSET Item
    /\ \A i \in table : Parent[i] # None => Parent[i] \in table
    /\ index = Indexed /\ taken = table /\ born = table /\ bare = {}
    /\ legacy = table \cap Legacy
    /\ \E old \in SUBSET (table \cap Untyped) :
          type = [i \in Item |-> IF i \in old THEN None ELSE Kind[i]]
    /\ objects = {i \in table : IsImage(i)} \ legacy
    /\ cw = [w \in CreateWorker |-> IdleCreate]
    /\ dw = [d \in DeleteWorker |-> IdleDelete]
    /\ mw = [m \in Migrator |-> IdleMigrate]
    /\ bw = [b \in Backfiller |-> IdleBackfill]

\* GetItem and DeleteItem know only items that carry the type they ask for; a
\* bare id is as good as a record to them.
Found(i) == i \in table \cup bare /\ type[i] = Kind[i]

----------------------------------------------------------------------------
(* POST: Resource.Create with its ValidateCreate, and uploadImage *)

AnswerCreate(w) == [cw EXCEPT ![w] = IdleCreate]

\* The id is generated by the server. A new record is never a legacy image, nor
\* older than entity types.
ReceiveCreate(w) ==
    /\ cw[w].pc = "idle"
    /\ \E i \in Item \ (taken \cup Legacy \cup Untyped) :
          /\ taken' = taken \cup {i}
          /\ cw' = [cw EXCEPT ![w] =
                      [IdleCreate EXCEPT !.pc = IF Parent[i] = None THEN "create" ELSE "check",
                                         !.item = i]]
    /\ UNCHANGED <<table, index, legacy, type, bare, objects, born, dw, mw, bw>>

CheckParent(w) ==
    /\ cw[w].pc = "check"
    /\ \/ ~Found(Parent[cw[w].item]) /\ cw' = AnswerCreate(w)  \* 400 or 404
       \/ /\ Found(Parent[cw[w].item])
          /\ cw' = [cw EXCEPT ![w].pc = IF IsImage(cw[w].item) THEN "put" ELSE "create"]
    /\ UNCHANGED <<table, index, legacy, type, bare, objects, taken, born, dw, mw, bw>>

\* After a lost response the upload ends; its object is left behind.
PutObject(w) ==
    /\ cw[w].pc = "put"
    /\ objects' = objects \cup {cw[w].item}
    /\ cw' \in {[cw EXCEPT ![w].pc = "create"], AnswerCreate(w)}
    /\ UNCHANGED <<table, index, legacy, type, bare, taken, born, dw, mw, bw>>

\* PutItem is unconditional: the parent is not looked at again, and a request
\* sent twice writes twice.
CreateRecord(w) ==
    /\ cw[w].pc = "create"
    /\ table' = table \cup {cw[w].item}
    /\ born' = born \cup {cw[w].item}
    /\ bare' = bare \ {cw[w].item}
    /\ \/ cw' = AnswerCreate(w)
       \/ Resend /\ UNCHANGED cw
    /\ UNCHANGED <<index, legacy, type, objects, taken, dw, mw, bw>>

\* A call fails, the upload is refused (its quota, its size, its bytes), or the
\* invocation is killed where it stands.
CreateFails(w) ==
    /\ cw[w].pc # "idle"
    /\ cw' = AnswerCreate(w)
    /\ UNCHANGED <<table, index, legacy, type, bare, objects, taken, born, dw, mw, bw>>

----------------------------------------------------------------------------
(* DELETE: service.Cascade *)

Running(d) == dw[d].stack # <<>>

Top(d) == dw[d].stack[Len(dw[d].stack)]

Below(d) == SubSeq(dw[d].stack, 1, Len(dw[d].stack) - 1)

WithStack(d, stack) == [dw EXCEPT ![d].stack = stack]

\* Mutant of Abort: an error ends only the activation that met it.
AbortChildOnly(d) ==
    IF Len(dw[d].stack) = 1
    THEN [dw EXCEPT ![d] = [IdleDelete EXCEPT !.status = 500]]
    ELSE WithStack(d, Below(d))

\* An error ends every activation of the cascade.
Abort(d) == [dw EXCEPT ![d] = [IdleDelete EXCEPT !.status = 500]]

\* Mutant of Return: to find a child gone already is an error.
ReturnOrAbort(d, found) ==
    IF ~found THEN Abort(d)
    ELSE IF Len(dw[d].stack) = 1
    THEN [dw EXCEPT ![d] = [IdleDelete EXCEPT !.status = 200]]
    ELSE WithStack(d, Below(d))

\* A Delete method returns its record, or nil: not an error to its caller.
Return(d, found) ==
    IF Len(dw[d].stack) = 1
    THEN [dw EXCEPT ![d] = [IdleDelete EXCEPT !.status = IF found THEN 200 ELSE 404]]
    ELSE WithStack(d, Below(d))

ReceiveDelete(d) ==
    /\ ~Running(d) /\ dw[d].status = 0
    /\ \E i \in born :
          dw' = [dw EXCEPT ![d] = [IdleDelete EXCEPT !.stack = <<Activation(i)>>, !.root = i]]
    /\ UNCHANGED <<table, index, legacy, type, bare, objects, taken, born, cw, mw, bw>>

\* The kinds whose lists filter on the entity type, because they share card_id.
FilterByEntityType == {"section", "questionImage"}

\* Repository.List of the n-th kind of children; it reads the index. A filter
\* may miss a record whose type the index does not show yet.
Children(parent, n, hidden) ==
    {i \in index : /\ Parent[i] = parent
                   /\ Kind[i] = ChildKinds[Kind[parent]][n]
                   /\ Kind[i] \in FilterByEntityType =>
                        type[i] = Kind[i] /\ i \notin hidden}

\* Mutant of ListChildren: a kind is listed again until its list is empty.
ListUntilEmpty(d) ==
    /\ Running(d)
    /\ LET f == Top(d)
           again == f.stage > 0 /\ Children(f.item, f.stage, {}) # {}
           n == IF again THEN f.stage ELSE f.stage + 1
       IN
       /\ f.todo = {} /\ n <= Stages(f.item)
       /\ LET found == Children(f.item, n, {}) IN
          dw' = WithStack(d, Append(Below(d), [f EXCEPT !.stage = n, !.todo = found,
                                                        !.seen = @ \cup found]))
    /\ UNCHANGED <<table, index, legacy, type, bare, objects, taken, born, cw, mw, bw>>

\* The next kind of children is listed.
ListChildren(d) ==
    /\ Running(d)
    /\ LET f == Top(d)
           n == f.stage + 1
       IN
       /\ f.todo = {} /\ n <= Stages(f.item)
       /\ \E hidden \in SUBSET Untyped :
          LET found == Children(f.item, n, hidden) IN
          dw' = WithStack(d, Append(Below(d), [f EXCEPT !.stage = n, !.todo = found,
                                                        !.seen = @ \cup found]))
    /\ UNCHANGED <<table, index, legacy, type, bare, objects, taken, born, cw, mw, bw>>

\* The loop calls the Delete method of the next listed child.
DeleteChild(d) ==
    /\ Running(d)
    /\ \E i \in Top(d).todo :
          dw' = WithStack(d, Below(d) \o <<[Top(d) EXCEPT !.todo = @ \ {i}], Activation(i)>>)
    /\ UNCHANGED <<table, index, legacy, type, bare, objects, taken, born, cw, mw, bw>>

\* An image without a valid storage key is refused, before anything is deleted.
GetImage(d) ==
    /\ Running(d)
    /\ LET f == Top(d) IN
       /\ IsImage(f.item) /\ f.stage = 0
       /\ \/ ~Found(f.item) /\ dw' = Return(d, FALSE)
          \/ Found(f.item) /\ f.item \in legacy \cup bare /\ dw' = Abort(d)
          \/ /\ Found(f.item) /\ f.item \notin legacy \cup bare
             /\ dw' = WithStack(d, Append(Below(d), [f EXCEPT !.stage = 1]))
    /\ UNCHANGED <<table, index, legacy, type, bare, objects, taken, born, cw, mw, bw>>

\* Mutant of ReadyToRemove: a parent goes before the children it has listed.
ParentFirst(f) == f.stage = (IF IsImage(f.item) THEN 1 ELSE Stages(f.item))

ReadyToRemove(f) ==
    /\ f.todo = {}
    /\ f.stage = (IF IsImage(f.item) THEN 1 ELSE Stages(f.item))

\* Repository.Delete. An image that it returns without a storage key is an error
\* again. If its response is lost the request ends, or the SDK sends it again and
\* then finds no item.
RemoveRecord(d) ==
    /\ Running(d)
    /\ LET f == Top(d) IN
       /\ ReadyToRemove(f)
       /\ \/ /\ Found(f.item)
             /\ table' = table \ {f.item}
             /\ legacy' = legacy \ {f.item}
             /\ bare' = bare \ {f.item}
             /\ \/ dw' = IF ~IsImage(f.item) THEN Return(d, TRUE)
                         ELSE IF f.item \in legacy \cup bare THEN Abort(d)
                         ELSE WithStack(d, Append(Below(d), [f EXCEPT !.stage = 2]))
                \/ dw' \in {Abort(d), Return(d, FALSE)}
          \/ /\ ~Found(f.item)
             /\ dw' = Return(d, FALSE)
             /\ UNCHANGED <<table, legacy, bare>>
    /\ UNCHANGED <<index, type, objects, taken, born, cw, mw, bw>>

\* Best effort: whether the object is deleted or not, the image is.
DeleteObject(d) ==
    /\ Running(d)
    /\ LET f == Top(d) IN
       /\ IsImage(f.item) /\ f.stage = 2
       /\ objects' \in {objects, objects \ {f.item}}
       /\ dw' = Return(d, TRUE)
    /\ UNCHANGED <<table, index, legacy, type, bare, taken, born, cw, mw, bw>>

\* A call of the cascade fails without effect.
DeleteFails(d) ==
    /\ Running(d)
    /\ ~(IsImage(Top(d).item) /\ Top(d).stage = 2)
    /\ dw' = Abort(d)
    /\ UNCHANGED <<table, index, legacy, type, bare, objects, taken, born, cw, mw, bw>>

EndDelete(d) ==
    /\ dw[d] # IdleDelete
    /\ dw' = [dw EXCEPT ![d] = IdleDelete]
    /\ UNCHANGED <<table, index, legacy, type, bare, objects, taken, born, cw, mw, bw>>

----------------------------------------------------------------------------
(* cmd/backfill with -apply *)

\* The attributes that tell a record's kind, on records older than entity types.
Attributes == [category |-> {}, deck |-> {"category_id"}, card |-> {"deck_id"},
               section |-> {"card_id"}, questionImage |-> {"card_id", "image_url"},
               sectionImage |-> {"card_answer_section_id", "image_url"}]

\* Mutant of inferEntityType: it does not look for an image's own attribute.
inferParentOnly(attributes) ==
    IF "category_id" \in attributes THEN "deck"
    ELSE IF "deck_id" \in attributes THEN "card"
    ELSE IF "card_answer_section_id" \in attributes THEN "sectionImage"
    ELSE IF "card_id" \in attributes THEN "section"
    ELSE None

inferEntityType(attributes) ==
    IF "category_id" \in attributes THEN "deck"
    ELSE IF "deck_id" \in attributes THEN "card"
    ELSE IF "card_answer_section_id" \in attributes THEN "sectionImage"
    ELSE IF {"card_id", "image_url"} \subseteq attributes THEN "questionImage"
    ELSE IF "card_id" \in attributes THEN "section"
    ELSE None

InferredType(i) == inferEntityType(Attributes[Kind[i]])

\* The records that the backfill is for.
ToBackfill == {i \in table : type[i] = None /\ InferredType(i) # None}

StartBackfill(b) ==
    /\ bw[b].pc = "idle"
    /\ bw' = [bw EXCEPT ![b] = [IdleBackfill EXCEPT !.pc = "scan", !.left = ToBackfill]]
    /\ UNCHANGED <<table, index, legacy, type, bare, objects, taken, born, cw, dw, mw>>

\* A scan returns what is in the table for as long as it runs; of what comes
\* or goes meanwhile it may return any part. Its reads are not consistent: an old
\* record may still be returned without a type after it got one, or was deleted.
ScanUntyped(b) ==
    /\ bw[b].pc = "scan" /\ bw[b].page = {}
    /\ \E page \in SUBSET {i \in born \cap Untyped : InferredType(i) # None} :
          bw' = [bw EXCEPT ![b] = [@ EXCEPT !.page = page, !.left = bw[b].left \ page]]
    /\ UNCHANGED <<table, index, legacy, type, bare, objects, taken, born, cw, dw, mw>>

\* The update has no condition: of a record that is no longer there it leaves the
\* bare id. The SDK sends it again when its response is lost.
SetEntityType(b) ==
    /\ bw[b].pc = "scan"
    /\ \E i \in bw[b].page :
          /\ bare' = IF i \in table THEN bare ELSE bare \cup {i}
          /\ type' = [type EXCEPT ![i] = InferredType(i)]
          /\ \/ bw' = [bw EXCEPT ![b].page = @ \ {i}]
             \/ bw' = [bw EXCEPT ![b] = IdleBackfill]  \* response lost
             \/ UNCHANGED bw                           \* sent again
    /\ UNCHANGED <<table, index, legacy, objects, taken, born, cw, dw, mw>>

CompleteBackfill(b) ==
    /\ bw[b].pc = "scan" /\ bw[b].page = {}
    /\ bw[b].left \cap ToBackfill = {}
    /\ bw' = [bw EXCEPT ![b] = [IdleBackfill EXCEPT !.pc = "complete"]]
    /\ UNCHANGED <<table, index, legacy, type, bare, objects, taken, born, cw, dw, mw>>

\* Any error ends the run where it is; the owner may start it again.
BackfillFails(b) ==
    /\ bw[b].pc = "scan"
    /\ bw' = [bw EXCEPT ![b] = IdleBackfill]
    /\ UNCHANGED <<table, index, legacy, type, bare, objects, taken, born, cw, dw, mw>>

----------------------------------------------------------------------------
(* cmd/migrate-media with --apply: migration.Run, migrateRecord *)

\* What the scan's filter lets through, as far as it has no storage key.
Unmigrated == {i \in table \cap legacy : type[i] \in ImageKinds}

StartMigration(m) ==
    /\ mw[m].pc = "idle"
    /\ mw' = [mw EXCEPT ![m] = [IdleMigrate EXCEPT
                 !.pc = "scan", !.left = Unmigrated,
                 !.verified = \E b \in Backfiller : bw[b].pc = "complete"]]
    /\ UNCHANGED <<table, index, legacy, type, bare, objects, taken, born, cw, dw, bw>>

\* A page of the scan; records that have a key already are skipped. A bare id has
\* no parent, which makes it an entry with an error.
ScanPage(m) ==
    /\ mw[m].pc = "scan" /\ mw[m].page = {}
    /\ \E page \in SUBSET Unmigrated, ids \in SUBSET {i \in bare : IsImage(i)} :
          /\ page \cup ids # {}
          /\ mw' = [mw EXCEPT ![m] = [@ EXCEPT !.page = page, !.left = mw[m].left \ page,
                                               !.errors = mw[m].errors \/ ids # {}]]
    /\ UNCHANGED <<table, index, legacy, type, bare, objects, taken, born, cw, dw, bw>>

Migrated(m, error) ==
    [mw EXCEPT ![m] = [@ EXCEPT !.pc = "scan", !.item = None, !.errors = mw[m].errors \/ error]]

\* The next entry of the page: its source is read and normalized, or refused.
MigrateRecord(m) ==
    /\ mw[m].pc = "scan"
    /\ \E i \in mw[m].page :
          mw' = [mw EXCEPT ![m] =
                    [@ EXCEPT !.pc = "put", !.item = i, !.page = mw[m].page \ {i}]]
    /\ UNCHANGED <<table, index, legacy, type, bare, objects, taken, born, cw, dw, bw>>

\* The object is new, or there already with the very same bytes.
CopyObject(m) ==
    /\ mw[m].pc = "put"
    /\ objects' = objects \cup {mw[m].item}
    /\ mw' \in {[mw EXCEPT ![m].pc = "attach"], Migrated(m, TRUE)}
    /\ UNCHANGED <<table, index, legacy, type, bare, taken, born, cw, dw, bw>>

\* Mutants of AttachKey: the update has no condition, so it may create the item;
\* or its condition names the type but not the URL that was read.
AttachKeyAnyway(m) ==
    /\ mw[m].pc = "attach"
    /\ table' = table \cup {mw[m].item}
    /\ legacy' = legacy \ {mw[m].item} /\ bare' = bare \ {mw[m].item}
    /\ mw' = Migrated(m, FALSE)
    /\ UNCHANGED <<index, type, objects, taken, born, cw, dw, bw>>

AttachKeyByType(m) ==
    /\ mw[m].pc = "attach"
    /\ LET i == mw[m].item
           keyless == Found(i) /\ i \in legacy \cup bare
       IN
       /\ table' = IF keyless THEN table \cup {i} ELSE table
       /\ legacy' = legacy \ {i} /\ bare' = bare \ {i}
       /\ mw' = Migrated(m, ~keyless)
    /\ UNCHANGED <<index, type, objects, taken, born, cw, dw, bw>>

\* Refused as "record_changed" unless the record still is there, without a key
\* and with the URL that was read, which a bare id has not.
\* A lost response is an error too: the SDK's second attempt finds the key set.
AttachKey(m) ==
    /\ mw[m].pc = "attach"
    /\ LET i == mw[m].item
           unchanged == Found(i) /\ i \in legacy
       IN
       /\ legacy' = IF unchanged THEN legacy \ {i} ELSE legacy
       /\ \E error \in BOOLEAN : (error \/ unchanged) /\ mw' = Migrated(m, error)
    /\ UNCHANGED <<table, index, type, bare, objects, taken, born, cw, dw, bw>>

MigrateFails(m) ==
    /\ mw[m].pc \in {"put", "attach"}
    /\ mw' = Migrated(m, TRUE)
    /\ UNCHANGED <<table, index, legacy, type, bare, objects, taken, born, cw, dw, bw>>

\* Mutant of EndMigration: the page cap ends a run like the end of the table.
EndAtPageCap(m) ==
    /\ mw[m].pc = "scan" /\ mw[m].page = {}
    /\ ~mw[m].errors
    /\ mw' = [mw EXCEPT ![m] = [IdleMigrate EXCEPT !.pc = "clean",
                                                   !.verified = mw[m].verified]]
    /\ UNCHANGED <<table, index, legacy, type, bare, objects, taken, born, cw, dw, bw>>

\* The last page is done and no entry reports an error: exit status 0.
EndMigration(m) ==
    /\ mw[m].pc = "scan" /\ mw[m].page = {}
    /\ mw[m].left \cap Unmigrated = {}
    /\ ~mw[m].errors
    /\ mw' = [mw EXCEPT ![m] = [IdleMigrate EXCEPT !.pc = "clean",
                                                   !.verified = mw[m].verified]]
    /\ UNCHANGED <<table, index, legacy, type, bare, objects, taken, born, cw, dw, bw>>

\* The run fails: a scan call, the page or entry limit, an entry's error, an
\* interrupt. Whatever the end was, the owner may run it again.
StopMigration(m) ==
    /\ mw[m].pc # "idle"
    /\ mw' = [mw EXCEPT ![m] = IdleMigrate]
    /\ UNCHANGED <<table, index, legacy, type, bare, objects, taken, born, cw, dw, bw>>

----------------------------------------------------------------------------
(* DynamoDB brings an index up to date, one record at a time *)

Propagate ==
    /\ \E i \in Item : \/ i \in Indexed \ index /\ index' = index \cup {i}
                       \/ i \in index \ Indexed /\ index' = index \ {i}
    /\ UNCHANGED <<table, legacy, type, bare, objects, taken, born, cw, dw, mw, bw>>

CreateNext(w) ==
    \/ ReceiveCreate(w)
    \/ CheckParent(w)
    \/ PutObject(w)
    \/ CreateRecord(w)
    \/ CreateFails(w)

DeleteStep(d) ==
    \/ ListChildren(d)
    \/ DeleteChild(d)
    \/ GetImage(d)
    \/ RemoveRecord(d)
    \/ DeleteObject(d)

DeleteNext(d) == ReceiveDelete(d) \/ DeleteStep(d) \/ DeleteFails(d) \/ EndDelete(d)

MigrateNext(m) ==
    \/ StartMigration(m)
    \/ ScanPage(m)
    \/ MigrateRecord(m)
    \/ CopyObject(m)
    \/ AttachKey(m)
    \/ MigrateFails(m)
    \/ EndMigration(m)
    \/ StopMigration(m)

BackfillNext(b) ==
    \/ StartBackfill(b)
    \/ ScanUntyped(b)
    \/ SetEntityType(b)
    \/ CompleteBackfill(b)
    \/ BackfillFails(b)

Next ==
    \/ \E w \in CreateWorker : CreateNext(w)
    \/ \E d \in DeleteWorker : DeleteNext(d)
    \/ \E m \in Migrator : MigrateNext(m)
    \/ \E b \in Backfiller : BackfillNext(b)
    \/ Propagate

Spec == Init /\ [][Next]_vars

----------------------------------------------------------------------------
(* Properties *)

\* Every variable holds a value of its kind; a record has an id that was
\* generated, and no entity type but its own.
TypeOK ==
    /\ table \subseteq born /\ index \subseteq born /\ born \subseteq taken
    /\ taken \subseteq Item
    /\ legacy \subseteq table \cap Legacy
    /\ bare \subseteq (born \cap Untyped) \ table
    /\ type \in [Item -> Kinds \cup {None}]
    /\ \A i \in Item : type[i] \in {None, Kind[i]}
    /\ objects \subseteq {i \in taken : IsImage(i)}
    /\ cw \in [CreateWorker -> CreateLocal]
    /\ dw \in [DeleteWorker -> DeleteLocal]
    /\ mw \in [Migrator -> MigrateLocal]
    /\ bw \in [Backfiller -> BackfillLocal]

\* No record points at a missing image: objects are stored before the record
\* that names them and deleted after it, also when a migration, a second
\* migration and a cascade work on the same image.
RecordHasObject ==
    \A i \in table : IsImage(i) /\ i \notin legacy => i \in objects

\* A migration that ends without an error after a completed backfill has left
\* no image behind: the backfill gave every old image the type that the scan
\* looks for, and neither a cascade, a second migration nor the page limit made
\* the run pass over one of them.
CleanMigrationIsComplete ==
    \A m \in Migrator : mw[m].pc = "clean" /\ mw[m].verified => table \cap legacy = {}

\* No record returns once it is deleted. The backfill writes what it has read,
\* late or twice and without a condition, and so may leave the bare id of a
\* record; but no migration that read the image before makes it one again, with a
\* key and an object and without the card that it was on.
DeletedStaysDeleted == [][table' \cap born \subseteq table]_vars

\* The child that the n-th activation of a cascade is deleting.
Current(d, n) == IF n < Len(dw[d].stack) THEN {dw[d].stack[n + 1].item} ELSE {}

\* A cascade goes on to the next child, and in the end to the parent, only when
\* each child that it has listed is gone, whether it deleted that child itself,
\* another request did, or the index listed it too late.
ListedChildrenAreGone ==
    \A d \in DeleteWorker : \A n \in 1..Len(dw[d].stack) :
        LET f == dw[d].stack[n] IN (f.seen \ (f.todo \cup Current(d, n))) \cap table = {}

\* No record outlives its parent.
NoOrphans == \A i \in table : Parent[i] # None => Parent[i] \in table

\* An activation is nearer to its end: at a later stage, or with less to delete.
Advances(f, g) ==
    /\ g.item = f.item
    /\ g.stage > f.stage \/ (g.stage = f.stage /\ g.todo \subseteq f.todo /\ g.todo # f.todo)

\* So is a stack: up to some activation nothing has changed, and that one is
\* nearer to its end, or has ended with all above it.
StackAdvances(s, t) ==
    \E n \in 1..Len(s) :
        /\ Len(t) >= n - 1 /\ \A k \in 1..(n - 1) : t[k] = s[k]
        /\ Len(t) >= n => Advances(s[n], t[n])

\* The guard of some step of a cascade holds.
CanGoOn(d) ==
    LET f == Top(d) IN
    \/ f.todo # {}
    \/ f.stage < Stages(f.item)
    \/ ReadyToRemove(f)
    \/ IsImage(f.item) /\ f.stage \in {0, 2}

\* A cascade ends, if its calls return: it never waits for another, is never more
\* than five activations deep, and each of its steps brings it nearer to its
\* end, whatever is created, deleted, listed or migrated below it meanwhile.
CascadesAdvance ==
    /\ [](\A d \in DeleteWorker : Running(d) => CanGoOn(d) /\ Len(dw[d].stack) <= 5)
    /\ [][\A d \in DeleteWorker :
            Running(d) /\ dw'[d] # dw[d] => StackAdvances(dw[d].stack, dw'[d].stack)]_vars

\* The lives of the records as the table and the bucket show them.
Life == INSTANCE RecordLife WITH
          past <- born,
          there <- table,
          shown <- {i \in table \ legacy : IsImage(i) => i \in objects},
          Sealed <- Untyped = {} /\ CreateWorker = {}

\* The table, its indexes and the bucket implement the lives of the records.
ImplementsRecordLife == Life!LifeSpec

\* A cascade takes its next step, and from some time on it only takes steps of
\* its own: no call fails without effect and no invocation is killed.
CascadeFairness ==
    /\ \A d \in DeleteWorker : WF_vars(DeleteStep(d))
    /\ <>[][\A d \in DeleteWorker : Running(d) /\ dw'[d] # dw[d] => DeleteStep(d)]_vars

LiveSpec == Spec /\ CascadeFairness

WorkingOn(i) == \E d \in DeleteWorker : Running(d) /\ dw[d].root = i

\* Once every image has its key, a delete that is asked for again and again
\* succeeds in the end: what other deletes, migrations and the attempts before
\* it have left behind, images that were refused at first among them, never
\* blocks it.
RetriedDeleteSucceeds ==
    <>[](legacy \cup {i \in bare : IsImage(i)} = {}) =>
        \A i \in Item : []<>WorkingOn(i) => <>(i \notin table)

----------------------------------------------------------------------------
(* What makes the properties inductive: what each invocation knows *)

\* An invocation works on ids that were generated or read from the table, and
\* only a record that was there from the start may have no type.
WorkIsKnown ==
    /\ \A i \in Item : type[i] = None => i \in born
    /\ \A w \in CreateWorker :
          /\ cw[w].pc # "idle" => cw[w].item \in taken \ Legacy /\ type[cw[w].item] # None
          /\ cw[w].pc = "put" => IsImage(cw[w].item)
    /\ \A m \in Migrator :
          /\ mw[m].page \subseteq {i \in born : IsImage(i)}
          /\ mw[m].pc \in {"put", "attach"} => mw[m].item \in born /\ IsImage(mw[m].item)
    /\ \A b \in Backfiller :
          bw[b].page \subseteq {i \in born \cap Untyped : InferredType(i) # None}

\* A backfill has every record without a type still before it.
BackfillIsOnTrack(b) ==
    /\ bw[b].pc = "scan" => ToBackfill \subseteq bw[b].left \cup bw[b].page
    /\ bw[b].pc = "complete" => ToBackfill = {}

\* A migration that began with typed records has every legacy image before it,
\* unless it has reported an error.
MigrationIsOnTrack(m) ==
    LET l == mw[m]
        ahead == l.left \cup l.page \cup (IF l.pc \in {"put", "attach"} THEN {l.item} ELSE {})
    IN
    l.verified =>
        /\ ToBackfill = {}
        /\ l.pc \in {"scan", "put", "attach"} /\ ~l.errors => legacy \subseteq ahead
        /\ l.pc = "clean" => legacy = {}

MigrationInductive ==
    /\ \A b \in Backfiller : BackfillIsOnTrack(b)
    /\ \A m \in Migrator : MigrationIsOnTrack(m)

\* A create under way has an id of its own that was never stored, with an
\* object if it is an image's.
CreateIsNew(w) ==
    cw[w].pc # "idle" =>
        /\ cw[w].item \notin born
        /\ \A v \in CreateWorker \ {w} : cw[v].pc # "idle" => cw[v].item # cw[w].item
        /\ cw[w].pc = "create" /\ IsImage(cw[w].item) => cw[w].item \in objects

\* An activation and the child it is deleting: an image's object goes only after
\* its record, every child that was listed is gone or still to come, and while
\* nothing is created no stored child of a kind already listed was missed.
FrameIsTrue(f, current) ==
    /\ IsImage(f.item) /\ f.stage = 2 => f.item \in born \ table
    /\ f.seen \subseteq born
    /\ Untyped = {} => (f.seen \ (f.todo \cup current)) \cap table = {}
    /\ Untyped = {} /\ CreateWorker = {} =>
         \A i \in table, k \in 1..Stages(f.item) :
            Parent[i] = f.item /\ k <= f.stage /\ Kind[i] = ChildKinds[Kind[f.item]][k]
              => i \in f.seen

\* The level of a record's kind in the tree.
Level(i) == [category |-> 1, deck |-> 2, card |-> 3, section |-> 4,
             questionImage |-> 4, sectionImage |-> 5][Kind[i]]

\* The n-th activation works at the n-th level or below, on children of its own
\* record; only an image that has its key gets past the first stage.
FrameIsPlaced(f, n) ==
    /\ n <= Level(f.item)
    /\ f.todo \subseteq {i \in Item : Parent[i] = f.item}
    /\ IsImage(f.item) /\ f.stage > 0 => f.item \notin legacy
    /\ ~IsImage(f.item) => f.stage <= Stages(f.item)

\* A create that has got past its check has found its parent.
WorkIsPlaced ==
    /\ \A d \in DeleteWorker : \A n \in 1..Len(dw[d].stack) : FrameIsPlaced(dw[d].stack[n], n)
    /\ \A w \in CreateWorker : cw[w].pc \in {"put", "create"} =>
                               Parent[cw[w].item] \in born \cup {None}

\* No image lacks its object, no create its object or its own id, and no cascade
\* has missed a child.
LibraryInductive ==
    /\ RecordHasObject
    /\ \A w \in CreateWorker : CreateIsNew(w)
    /\ \A m \in Migrator : mw[m].pc = "attach" /\ mw[m].item \in legacy =>
                              mw[m].item \in objects
    /\ \A d \in DeleteWorker : \A n \in 1..Len(dw[d].stack) :
          FrameIsTrue(dw[d].stack[n], Current(d, n))
    /\ Untyped = {} => \A i \in Item : type[i] = Kind[i]
    /\ Untyped = {} /\ CreateWorker = {} => Indexed \subseteq index /\ NoOrphans

=============================================================================
