---------------------------- MODULE UploadQuota ----------------------------
(***************************************************************************)
(* The daily budget of image uploads: concurrent uploads reserve their     *)
(* share of the UTC day's upload_budget item before they store anything.   *)
(* A reservation may be counted twice, when the SDK resends an update      *)
(* whose response was lost, and midnight may pass at any time.             *)
(***************************************************************************)
EXTENDS Naturals, FiniteSets

CONSTANTS
    Uploader,    \* invocations serving an image upload
    LastDay,     \* the last day of the model; days are 0..LastDay
    MaxUploads,  \* dailyUploadCount
    MaxBytes,    \* dailyUploadBytes
    MaxSize      \* maxUploadBytes

ASSUME LimitsAssumption ==
    /\ LastDay \in Nat /\ MaxUploads \in Nat \ {0}
    /\ MaxBytes \in Nat /\ MaxSize \in 1..MaxBytes

Day == 0..LastDay

VARIABLES
    today,    \* the current UTC day
    budget,   \* each day's counters; zero if there is no item for the day
    stored,   \* observer: what was stored in S3 on each day's budget
    uw        \* local state of each upload

vars == <<today, budget, stored, uw>>

Counters == [uploads: Nat, bytes: Nat]

NothingYet == [uploads |-> 0, bytes |-> 0]

Plus(c, size) == [uploads |-> c.uploads + 1, bytes |-> c.bytes + size]

\* "dated" tells that the update has been built, with the key of its day.
UploadPc == {"idle", "reserve", "put", "done"}
Status == {0, 201, 429, 500}

UploadLocal == [pc: UploadPc, size: 0..(MaxSize + 1), day: Day, dated: BOOLEAN,
                status: Status]

IdleUpload == [pc |-> "idle", size |-> 0, day |-> 0, dated |-> FALSE, status |-> 0]

Init ==
    /\ today = 0
    /\ budget = [d \in Day |-> NothingYet]
    /\ stored = [d \in Day |-> NothingYet]
    /\ uw = [u \in Uploader |-> IdleUpload]

----------------------------------------------------------------------------
(* uploadImage, from the normalized image on *)

Answer(u, status) == [uw EXCEPT ![u] = [@ EXCEPT !.pc = "done", !.status = status]]

\* MaxSize + 1 stands for the images whose encoding is too long: they are refused
\* by the encoder's bounded buffer and again by ConsumeUpload.
ReceiveUpload(u) ==
    /\ uw[u].pc = "idle"
    /\ \E size \in 1..(MaxSize + 1) :
          uw' = [uw EXCEPT ![u] = [IdleUpload EXCEPT !.pc = "reserve", !.size = size]]
    /\ UNCHANGED <<today, budget, stored>>

\* The day whose item an upload's update names.
DayOf(u) == IF uw[u].dated THEN uw[u].day ELSE today

\* Mutant of Fits: the budget that is left is compared before the addition.
FitsBefore(c, size) == c.uploads < MaxUploads /\ c.bytes <= MaxBytes

\* The condition of the update.
Fits(c, size) == c.uploads < MaxUploads /\ c.bytes <= MaxBytes - size

\* Mutant of Reserve: the budget is read, and charged only after the upload.
ReserveLater(u) ==
    /\ uw[u].pc = "reserve"
    /\ uw[u].size \in 1..MaxSize
    /\ Fits(budget[DayOf(u)], uw[u].size)
    /\ uw' = [uw EXCEPT ![u] = [@ EXCEPT !.pc = "put", !.day = DayOf(u), !.dated = TRUE]]
    /\ UNCHANGED <<today, budget, stored>>

Reserve(u) ==
    /\ uw[u].pc = "reserve"
    /\ uw[u].size \in 1..MaxSize
    /\ Fits(budget[DayOf(u)], uw[u].size)
    /\ budget' = [budget EXCEPT ![DayOf(u)] = Plus(@, uw[u].size)]
    /\ \E pc \in {"put", "reserve", "done"} :  \* accepted, resent, response lost
          uw' = [uw EXCEPT ![u] = [@ EXCEPT !.pc = pc, !.day = DayOf(u), !.dated = TRUE,
                                            !.status = IF pc = "done" THEN 500 ELSE 0]]
    /\ UNCHANGED <<today, stored>>

\* ErrUploadQuota.
ReserveRefused(u) ==
    /\ uw[u].pc = "reserve"
    /\ uw[u].size \in 1..MaxSize
    /\ ~Fits(budget[DayOf(u)], uw[u].size)
    /\ uw' = [uw EXCEPT ![u] = [@ EXCEPT !.pc = "done", !.day = DayOf(u), !.dated = TRUE,
                                         !.status = 429]]
    /\ UNCHANGED <<today, budget, stored>>

\* Mutant of UploadFails: a failed upload gives its reservation back.
RefundOnFailure(u) ==
    /\ uw[u].pc = "put"
    /\ budget' = [budget EXCEPT ![uw[u].day] = [uploads |-> @.uploads - 1,
                                                bytes |-> @.bytes - uw[u].size]]
    /\ uw' = Answer(u, 500)
    /\ UNCHANGED <<today, stored>>

\* Too large after normalization, or a call of the upload fails. Nothing that
\* was reserved is given back.
UploadFails(u) ==
    /\ uw[u].pc \in {"reserve", "put"}
    /\ uw' = Answer(u, 500)
    /\ UNCHANGED <<today, budget, stored>>

\* Images.Put, and the record created after it.
PutObject(u) ==
    /\ uw[u].pc = "put"
    /\ stored' = [stored EXCEPT ![uw[u].day] = Plus(@, uw[u].size)]
    /\ \E status \in {201, 500} : uw' = Answer(u, status)
    /\ UNCHANGED <<today, budget>>

\* The response leaves, or the invocation is killed where it stands.
EndUpload(u) ==
    /\ uw[u].pc # "idle"
    /\ uw' = [uw EXCEPT ![u] = IdleUpload]
    /\ UNCHANGED <<today, budget, stored>>

NextDay ==
    /\ today < LastDay
    /\ today' = today + 1
    /\ UNCHANGED <<budget, stored, uw>>

UploadNext(u) ==
    \/ ReceiveUpload(u)
    \/ Reserve(u)
    \/ ReserveRefused(u)
    \/ UploadFails(u)
    \/ PutObject(u)
    \/ EndUpload(u)

Next == NextDay \/ \E u \in Uploader : UploadNext(u)

Spec == Init /\ [][Next]_vars

----------------------------------------------------------------------------
(* Properties *)

\* Every variable holds a value of its kind, and an upload past its
\* reservation has a size that the budget accepts.
TypeOK ==
    /\ today \in Day
    /\ budget \in [Day -> Counters]
    /\ stored \in [Day -> Counters]
    /\ uw \in [Uploader -> UploadLocal]
    /\ \A u \in Uploader : uw[u].pc = "put" => uw[u].dated /\ uw[u].size \in 1..MaxSize

\* No day's budget is ever exceeded, however many uploads reserve at once.
BudgetHolds ==
    \A d \in Day : budget[d].uploads <= MaxUploads /\ budget[d].bytes <= MaxBytes

\* What reaches S3 was reserved before, on the day of its reservation, although
\* the object may be stored after midnight: failures only ever waste budget.
StoredIsReserved ==
    \A d \in Day : /\ stored[d].uploads <= budget[d].uploads
                   /\ stored[d].bytes <= budget[d].bytes

\* An upload refused for the quota did not fit, and will not fit that day:
\* "Try again tomorrow" is the right advice.
RefusedMeansFull ==
    \A u \in Uploader :
        uw[u].pc = "done" /\ uw[u].status = 429 => ~Fits(budget[uw[u].day], uw[u].size)

----------------------------------------------------------------------------
(* What makes StoredIsReserved inductive: reservations do not overlap *)

\* Uploads that have reserved from the budget of day d and may still store.
Pending(d) == {u \in Uploader : uw[u].pc = "put" /\ uw[u].day = d}

\* The units 1..total hold, apart from each other, those of which "used" have
\* been stored and a share of their own for each pending upload.
Covered(total, used, pending, share) ==
    \E S \in SUBSET (1..total), R \in [pending -> SUBSET (1..total)] :
        /\ Cardinality(S) = used
        /\ \A u \in pending : Cardinality(R[u]) = share[u] /\ R[u] \cap S = {}
        /\ \A u, v \in pending : u # v => R[u] \cap R[v] = {}

IsApart(d) ==
    /\ Covered(budget[d].uploads, stored[d].uploads, Pending(d), [u \in Uploader |-> 1])
    /\ Covered(budget[d].bytes, stored[d].bytes, Pending(d), [u \in Uploader |-> uw[u].size])

\* Every upload that may still store has a part of its day's budget to itself.
ReservationsAreApart == \A d \in Day : IsApart(d)

=============================================================================
