--------------------------- MODULE MCCardReviews ---------------------------
(* Small instances of CardReviews for TLC. *)
EXTENDS CardReviews, TLC

\* Invocations of one kind, and request ids, are interchangeable.
Interchangeable == Permutations(ReviewWorker) \cup Permutations(DeleteWorker)
                   \cup Permutations(EditWorker) \cup Permutations(RequestId)

=============================================================================
