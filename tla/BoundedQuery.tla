---------------------------- MODULE BoundedQuery ----------------------------
(***************************************************************************)
(* queryBounded: a list collected page by page from a secondary index, of  *)
(* the entries that pass a filter, while the index goes on changing. It is *)
(* complete or an error, never a part of the list.                         *)
(*                                                                         *)
(* All entries have the same index key and lie in an order of DynamoDB's.  *)
(* A page evaluates the entries behind the last one evaluated, up to its   *)
(* limit, or fewer if they are large; the filter applies afterwards.       *)
(***************************************************************************)
EXTENDS Naturals, FiniteSets

CONSTANTS
    Reader,          \* requests that list
    Entry,           \* entries that may be in the index under the key listed
    Wanted,          \* those of the entity type that the filter asks for
    Position,        \* Position[e] is the place of e in DynamoDB's order
    Size,            \* Size[s] is the length of the entries s in JSON, with separators
    maxResultItems, maxQueryPages, maxQueryPageItems, MaxResultBytes

ASSUME QueryAssumption ==
    /\ IsFiniteSet(Entry) /\ Wanted \subseteq Entry
    /\ Position \in [Entry -> Nat \ {0}]
    /\ \A e, f \in Entry : Position[e] = Position[f] => e = f
    /\ Size \in [SUBSET Wanted -> Nat]
    /\ \A s, t \in SUBSET Wanted : s \cap t = {} => Size[s \cup t] = Size[s] + Size[t]
    /\ maxResultItems \in Nat \ {0} /\ maxQueryPages \in Nat \ {0}
    /\ maxQueryPageItems \in Nat \ {0} /\ MaxResultBytes \in Nat

VARIABLES
    index,  \* the entries that the index lists now
    q       \* local state of each query

queryVars == <<index, q>>

----------------------------------------------------------------------------
(* Local states *)

QueryPc == {"idle", "reading", "answered", "refused"}

\* "items" are the entries collected, "length" how many times one was appended,
\* "bytes" resultBytes and "start" the position of ExclusiveStartKey. Observers:
\* "always" are the entries listed ever since the query began, "ever" those
\* listed at some time since.
QueryLocal == [pc: QueryPc, items: SUBSET Wanted, length: Nat, bytes: Nat,
               start: Nat, pageNumber: Nat, always: SUBSET Entry, ever: SUBSET Entry]

IdleQuery == [pc |-> "idle", items |-> {}, length |-> 0, bytes |-> 0, start |-> 0,
              pageNumber |-> 0, always |-> {}, ever |-> {}]

\* The two brackets of the JSON array.
EmptyArray == 2

QueryInit ==
    /\ index \in SUBSET Entry
    /\ q = [r \in Reader |-> IdleQuery]

Reading(r) == q[r].pc = "reading"

----------------------------------------------------------------------------
(* One query *)

StartQuery(r) ==
    /\ q[r].pc = "idle"
    /\ q' = [q EXCEPT ![r] = [IdleQuery EXCEPT !.pc = "reading", !.bytes = EmptyArray,
                                               !.always = index, !.ever = index]]
    /\ UNCHANGED index

\* One more than what is left under the cap proves that the list exceeds it.
Limit(r) ==
    LET left == maxResultItems - q[r].length + 1 IN
    IF left < maxQueryPageItems THEN left ELSE maxQueryPageItems

Rest(r) == {e \in index : Position[e] > q[r].start}

\* The page that ends with this entry of the rest.
Page(r, last) == {e \in Rest(r) : Position[e] <= Position[last]}

\* Mutant of LastEvaluated: the cursor moves only when the filter lets the last
\* entry through.
LastReturned(r, last) == IF last \in Wanted THEN Position[last] ELSE q[r].start

\* LastEvaluatedKey: the last entry of the page, whether it passed the filter
\* or not.
LastEvaluated(r, last) == Position[last]

Refuse(r) == [q EXCEPT ![r].pc = "refused"]

\* The query with a page that a key came with, so that more may follow.
Continue(r, collected, last) ==
    [q EXCEPT ![r] = [collected EXCEPT
        !.pc = IF collected.pageNumber = maxQueryPages THEN "refused" ELSE "reading",
        !.start = LastEvaluated(r, last)]]

Answer(r, collected) == [q EXCEPT ![r] = [collected EXCEPT !.pc = "answered"]]

\* The query with what the filter lets through of a page.
Collected(r, found) ==
    [q[r] EXCEPT !.items = @ \cup found, !.length = @ + Cardinality(found),
                 !.bytes = @ + Size[found], !.pageNumber = @ + 1]

TooLarge(collected) ==
    collected.length > maxResultItems \/ collected.bytes > MaxResultBytes

\* A page that ends at its limit, or at its size, carries a key also when
\* nothing follows.
ReadPage(r) ==
    /\ Reading(r)
    /\ \E last \in Rest(r) :
          LET collected == Collected(r, Page(r, last) \cap Wanted) IN
          /\ Cardinality(Page(r, last)) <= Limit(r)
          /\ q' = IF TooLarge(collected) THEN Refuse(r) ELSE Continue(r, collected, last)
    /\ UNCHANGED index

\* Mutant of ReadLastPage: any page that brings nothing is taken for the last.
ReadEmptyPage(r) ==
    /\ Reading(r)
    /\ LET collected == Collected(r, Rest(r) \cap Wanted) IN
       \/ /\ Cardinality(Rest(r)) <= Limit(r)
          /\ q' = IF TooLarge(collected) THEN Refuse(r) ELSE Answer(r, collected)
       \/ /\ \E last \in Rest(r) : Page(r, last) \cap Wanted = {}
          /\ q' = Answer(r, Collected(r, {}))
    /\ UNCHANGED index

\* Only a page without a key is the last.
ReadLastPage(r) ==
    /\ Reading(r) /\ Cardinality(Rest(r)) <= Limit(r)
    /\ LET collected == Collected(r, Rest(r) \cap Wanted) IN
       q' = IF TooLarge(collected) THEN Refuse(r) ELSE Answer(r, collected)
    /\ UNCHANGED index

\* The answer leaves. Or a call fails, an item does not decode, or the invocation
\* is killed: then nothing of the list is answered.
EndQuery(r) ==
    /\ q[r].pc # "idle"
    /\ q' = [q EXCEPT ![r] = IdleQuery]
    /\ UNCHANGED index

QueryStep(r) == StartQuery(r) \/ ReadPage(r) \/ ReadLastPage(r) \/ EndQuery(r)

----------------------------------------------------------------------------
(* DynamoDB brings the index up to date *)

\* What the queries under way observe of a change.
Observe(listed) ==
    q' = [r \in Reader |->
            IF Reading(r) THEN [q[r] EXCEPT !.always = @ \cap listed, !.ever = @ \cup listed]
            ELSE q[r]]

IndexChanges(listed) ==
    /\ index' = listed
    /\ Observe(listed)

QueryNext ==
    \/ \E r \in Reader : QueryStep(r)
    \/ \E listed \in SUBSET Entry : IndexChanges(listed)

QuerySpec == QueryInit /\ [][QueryNext]_queryVars

----------------------------------------------------------------------------
(* Properties *)

QueryTypeOK ==
    /\ index \subseteq Entry
    /\ q \in [Reader -> QueryLocal]

\* A list that is answered is complete: it has every entry that was listed from
\* the query's start to its end, no matter how the pages fell, which siblings
\* the filter took out of them and what was added and removed in between; it has
\* only entries that were listed during the query, and none of them twice.
AnswerIsComplete ==
    \A r \in Reader : q[r].pc = "answered" =>
        /\ q[r].always \cap Wanted \subseteq q[r].items
        /\ q[r].items \subseteq q[r].ever
        /\ q[r].length = Cardinality(q[r].items)
        /\ q[r].length <= maxResultItems

\* A list is refused only for a limit that it reaches: more entries or more
\* bytes than it may have, or at least one entry for each page that was read.
RefusalIsDue ==
    \A r \in Reader : q[r].pc = "refused" =>
        LET found == q[r].ever \cap Wanted IN
        \/ Cardinality(found) > maxResultItems
        \/ EmptyArray + Size[found] > MaxResultBytes
        \/ Cardinality(q[r].ever) >= maxQueryPages

\* What a query has collected, and what it knows of the index at its cursor
\* while that index goes on changing.
Collects(s, listed) ==
    /\ s.pc \in {"reading", "answered"} =>
         /\ s.items \subseteq s.ever
         /\ s.length = Cardinality(s.items) /\ s.length <= maxResultItems
         /\ s.bytes = EmptyArray + Size[s.items]
    /\ s.pc = "reading" =>
         /\ s.always \subseteq listed /\ listed \subseteq s.ever
         /\ \A e \in s.items : Position[e] <= s.start
         /\ \A e \in s.always \cap Wanted : Position[e] <= s.start => e \in s.items
         /\ s.pageNumber <= Cardinality({e \in s.ever : Position[e] <= s.start})

\* The inductive invariant behind both: at every page, all that was listed
\* throughout and lies before the cursor is collected, none of it twice, and
\* each page has brought the cursor past one entry more.
QueryInductive ==
    /\ QueryTypeOK
    /\ AnswerIsComplete
    /\ RefusalIsDue
    /\ \A r \in Reader : Collects(q[r], index)

=============================================================================
