----------------------------- MODULE TargetsMC -----------------------------
(* Small instances of Targets for TLC. *)
EXTENDS Targets, TLC

Symmetry == Permutations(CR) \union Permutations(Plat) \union Permutations(Server)
=============================================================================
