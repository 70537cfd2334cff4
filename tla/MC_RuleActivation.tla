------------------------- MODULE MC_RuleActivation -------------------------
(* Small instances of RuleActivation for TLC. *)
EXTENDS RuleActivation, TLC

\* Cameras, versions and readers are only compared for equality.
Symmetry == Permutations(Cameras) \cup Permutations(Versions) \cup Permutations(Readers)
=============================================================================
