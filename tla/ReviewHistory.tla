--------------------------- MODULE ReviewHistory ---------------------------
(***************************************************************************)
(* GET /card-reviews beside the requests that add and remove reviews:      *)
(* History finds the card with a consistent read and lists its records     *)
(* page by page from card_id-index, which follows the table in its own     *)
(* time and also lists the card's sections and question images.            *)
(*                                                                         *)
(* The table is seen as the ReviewLog that CardReviews implements. An      *)
(* entry of the index is named by its id: the request id of a record (the  *)
(* log never has two events of one request), or a sibling.                 *)
(***************************************************************************)
EXTENDS ReviewLog, BoundedQuery

CONSTANT Clock  \* Clock[i] is what the invocation that saves request i reads

ASSUME HistoryAssumption ==
    /\ Wanted = RequestId
    /\ Clock \in [RequestId -> Nat]

VARIABLE log    \* observer: every event ever appended, in order

historyVars == <<logVars, queryVars, log>>

Sibling == Entry \ Wanted

\* The card is new; its sections and images are listed already, or not.
HistoryInit ==
    /\ LogInit /\ log = <<>>
    /\ index \in SUBSET Sibling
    /\ q = [r \in Reader |-> IdleQuery]

\* The requests of CardReviews, as far as a reader can see them.
TableChanges ==
    /\ LogNext
    /\ log' = IF Len(events') > Len(events) THEN events' ELSE log
    /\ UNCHANGED queryVars

----------------------------------------------------------------------------
(* service.Reviews.History *)

\* A card that is not there is answered 404 at once.
ReceiveHistory(r) ==
    /\ phase # "gone"
    /\ StartQuery(r)
    /\ UNCHANGED <<logVars, log>>

\* ErrResultLimit is answered 413, any other error 500.
HistoryStep(r) ==
    /\ ReadPage(r) \/ ReadLastPage(r) \/ EndQuery(r)
    /\ UNCHANGED <<logVars, log>>

Revision(i) == CHOOSE n \in 1..Len(log) : log[n].id = i

\* The order in which ListReviews returns records: by time, then by revision.
Earlier(i, j) ==
    \/ Clock[i] < Clock[j]
    \/ Clock[i] = Clock[j] /\ Revision(i) < Revision(j)

\* sort.Slice: the elements of S, each before all that follow it.
InOrder(S, before) ==
    CHOOSE s \in [1..Cardinality(S) -> S] :
        \A m, n \in 1..Cardinality(S) : m < n => <<s[m], s[n]>> \in before

ByTime(S) == {p \in S \X S : Earlier(p[1], p[2])}

ByRevision(S) == {p \in S \X S : Revision(p[1]) < Revision(p[2])}

\* No list has an entry twice (AnswerIsComplete).
ListReviews(r) == InOrder(q[r].items, ByTime(q[r].items))

\* Mutant of History: the order of the clocks is the order of the history.
HistoryByTime(r) == ListReviews(r)

\* The body of the answer.
History(r) ==
    LET reviews == {ListReviews(r)[n] : n \in 1..Len(ListReviews(r))} IN
    InOrder(reviews, ByRevision(reviews))

----------------------------------------------------------------------------
(* The index *)

Toggle(e) == IF e \in index THEN index \ {e} ELSE index \cup {e}

\* DynamoDB brings it up to date, one record at a time, in any order.
PropagateReview ==
    /\ \E i \in RequestId : /\ (\E n \in 1..Len(events) : events[n].id = i) <=> i \notin index
                            /\ IndexChanges(Toggle(i))
    /\ UNCHANGED <<logVars, log>>

\* Sections and question images are created and deleted.
SiblingChanges ==
    /\ \E s \in Sibling : IndexChanges(Toggle(s))
    /\ UNCHANGED <<logVars, log>>

HistoryNext ==
    \/ TableChanges
    \/ \E r \in Reader : ReceiveHistory(r) \/ HistoryStep(r)
    \/ PropagateReview
    \/ SiblingChanges

HistorySpec == HistoryInit /\ [][HistoryNext]_historyVars

----------------------------------------------------------------------------
(* Properties *)

\* A history is read in revision order, whatever the clocks of the invocations
\* said, and follows the log: if the index listed the first k reviews from the
\* request to its answer, they are the first k of the answer, each once and
\* with no gap, also when more reviews or a deletion go on meanwhile.
HistoryFollowsTheLog ==
    \A r \in Reader : q[r].pc = "answered" =>
        LET history == History(r) IN
        /\ \A m, n \in 1..Len(history) :
              m < n => Revision(history[m]) < Revision(history[n])
        /\ \A k \in 1..Len(log) :
              {log[i].id : i \in 1..k} \subseteq q[r].always =>
                 k <= Len(history) /\ \A i \in 1..k : history[i] = log[i].id

----------------------------------------------------------------------------
(* What makes HistoryFollowsTheLog inductive *)

Event == [id: RequestId, rating: Rating]

Logged == {log[n].id : n \in 1..Len(log)}

\* The table holds the first events of the log, all of them while the card is
\* open, none of one request twice; and neither the index nor a query has ever
\* seen a record that is not of the log.
TableIsOfTheLog ==
    /\ log \in Seq(Event) /\ events \in Seq(Event)
    /\ \A m, n \in 1..Len(log) : log[m].id = log[n].id => m = n
    /\ Len(events) <= Len(log) /\ \A n \in 1..Len(events) : events[n] = log[n]
    /\ phase = "open" => events = log
    /\ index \cap Wanted \subseteq Logged
    /\ \A r \in Reader : q[r].pc \in {"reading", "answered"} =>
          q[r].ever \cap Wanted \subseteq Logged

=============================================================================
