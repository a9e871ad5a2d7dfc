-------------------------- MODULE MCActionProfManual --------------------------
(* TLC instances of ActionProfManual. *)
EXTENDS ActionProfManual, TLC

Symmetry == Permutations(Action) \cup Permutations(Group)
=============================================================================
