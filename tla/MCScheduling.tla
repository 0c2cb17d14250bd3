---------------------------- MODULE MCScheduling ----------------------------
(* A card with a few reviews for TLC. *)
EXTENDS Scheduling, TLC

Interchangeable == Permutations(Reviewer)

=============================================================================
