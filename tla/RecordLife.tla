----------------------------- MODULE RecordLife -----------------------------
(***************************************************************************)
(* What the library promises of its records, whatever requests, cascades,  *)
(* migrations and backfills do. A record appears once, after the record    *)
(* that it belongs to, and goes for good. An image without a storage key   *)
(* gets one before it can go, and an image that has one can be shown for   *)
(* as long as its record is there. A sealed library, to which nothing is   *)
(* added and in which every record has its type, goes from the leaves up.  *)
(***************************************************************************)
CONSTANTS
    Item,     \* the ids of the records
    Parent,   \* the id of the record that each of them belongs to, or None
    Legacy,   \* the images that may have no storage key at first
    Sealed,   \* whether nothing is added and every record has its type
    None

VARIABLES
    past,     \* the records that are there or were
    there,    \* the records that are there
    shown     \* those of them that can be shown: not an image without a key

lives == <<past, there, shown>>

LifeInit ==
    /\ there \subseteq Item /\ past = there
    /\ shown \subseteq there /\ there \ shown \subseteq Legacy
    /\ \A i \in there : Parent[i] # None => Parent[i] \in there

Appear(i) ==
    /\ ~Sealed
    /\ i \notin past \cup Legacy
    /\ Parent[i] # None => Parent[i] \in past
    /\ past' = past \cup {i} /\ there' = there \cup {i} /\ shown' = shown \cup {i}

GetKey(i) ==
    /\ i \in there \ shown
    /\ shown' = shown \cup {i}
    /\ UNCHANGED <<past, there>>

Go(i) ==
    /\ i \in shown
    /\ Sealed => \A j \in there : Parent[j] # i
    /\ there' = there \ {i} /\ shown' = shown \ {i}
    /\ UNCHANGED past

LifeNext == \E i \in Item : Appear(i) \/ GetKey(i) \/ Go(i)

LifeSpec == LifeInit /\ [][LifeNext]_lives
=============================================================================
