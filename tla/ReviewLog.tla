----------------------------- MODULE ReviewLog -----------------------------
(***************************************************************************)
(* What a card promises about its reviews, whatever the table, the retries *)
(* and the concurrent requests: while it is open, events are appended one  *)
(* at a time, each idempotency id at most once, each naming the revision   *)
(* it follows; the schedule is the ratings of all of them, in order. Once  *)
(* its deletion begins nothing is appended any more, the events go newest  *)
(* first, and the card goes only after the last of them.                   *)
(***************************************************************************)
EXTENDS Naturals, Sequences

CONSTANTS
    RequestId,    \* idempotency ids
    Rating,       \* review ratings
    MaxRevision   \* the largest number of events

VARIABLES
    events,    \* the events still stored, oldest first: [id, rating]
    schedule,  \* the ratings folded into the card's schedule
    phase      \* "open", "closing" or "gone"

logVars == <<events, schedule, phase>>

LogInit == events = <<>> /\ schedule = <<>> /\ phase = "open"

\* The event of request i takes effect, against the revision it expected.
AppendEvent(i, g, expected) ==
    /\ phase = "open"
    /\ Len(events) = expected
    /\ \A n \in 1..Len(events) : events[n].id # i
    /\ events' = Append(events, [id |-> i, rating |-> g])
    /\ schedule' = Append(schedule, g)
    /\ UNCHANGED phase

Close ==
    /\ phase = "open"
    /\ phase' = "closing"
    /\ UNCHANGED <<events, schedule>>

DropNewest ==
    /\ phase = "closing" /\ events # <<>>
    /\ events' = SubSeq(events, 1, Len(events) - 1)
    /\ UNCHANGED <<schedule, phase>>

Remove ==
    /\ phase = "closing" /\ events = <<>>
    /\ phase' = "gone"
    /\ schedule' = <<>>
    /\ UNCHANGED events

LogNext ==
    \/ \E i \in RequestId, g \in Rating, n \in 0..MaxRevision : AppendEvent(i, g, n)
    \/ Close
    \/ DropNewest
    \/ Remove

LogSpec == LogInit /\ [][LogNext]_logVars
=============================================================================
