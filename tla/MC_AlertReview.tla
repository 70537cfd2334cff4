-------------------------- MODULE MC_AlertReview --------------------------
(* Small instances of AlertSystem and AlertReview for TLC. *)
EXTENDS AlertReview, TLC

CONSTANTS routine, overridden, a1

\* One type with the default window and one whose override is 0.
TwoKinds == (routine :> 2) @@ (overridden :> 0)

OfRoutine == a1 :> routine

Symmetry == Permutations(Reviewers)
=============================================================================
