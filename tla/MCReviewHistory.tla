-------------------------- MODULE MCReviewHistory --------------------------
(* A card with up to three reviews, a section and a drawing for TLC. *)
EXTENDS ReviewHistory, FiniteSetsExt, TLC

CONSTANTS i1, i2, i3, section, drawing

\* The siblings fill a page between the first and the last reviews.
IndexOrder == i2 :> 1 @@ section :> 2 @@ drawing :> 3 @@ i1 :> 4 @@ i3 :> 5

\* Two small records together, but none with the large one, fit the bytes.
RecordSize == [s \in SUBSET RequestId |-> MapThenSumSet(LAMBDA i : IF i = i3 THEN 6 ELSE 2, s)]

\* Two invocations that read the same time, and one that reads a later time.
SkewedClock == i1 :> 2 @@ i2 :> 1 @@ i3 :> 1

=============================================================================
