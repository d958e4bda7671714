--------------------------- MODULE MCReviewBudget ---------------------------
(* Two sessions share the ledger; the processes are interchangeable.        *)
EXTENDS ReviewBudget, TLC

Symmetric == Permutations(Tokens)
=============================================================================
