----------------------------- MODULE MCLibrary -----------------------------
(* Small libraries for TLC: at most one branch of the tree of each kind. *)
EXTENDS Library, TLC

CONSTANTS category, deck, card, section, drawing, photo, scan

\* A category with one record of every kind below it.
BranchKind == [i \in Item |-> CASE i = category -> "category"
                                [] i = deck -> "deck"
                                [] i = card -> "card"
                                [] i = section -> "section"
                                [] i \in {drawing, scan} -> "questionImage"
                                [] i = photo -> "sectionImage"]

BranchParent == [i \in Item |-> CASE i = category -> None
                                  [] i = deck -> category
                                  [] i = card -> deck
                                  [] i \in {section, drawing, scan} -> card
                                  [] i = photo -> section]

\* The same branch from the card on.
CardParent == [BranchParent EXCEPT ![card] = None]

\* The same branch from the deck on.
DeckParent == [BranchParent EXCEPT ![deck] = None]

Interchangeable == Permutations(CreateWorker) \cup Permutations(DeleteWorker)
                   \cup Permutations(Migrator)

=============================================================================
