----------------------- MODULE CentreonServiceGroupMC -----------------------
(* Small instances of CentreonServiceGroup for TLC. *)
EXTENDS CentreonServiceGroup, TLC

CONSTANT x

PlainPolicy ==
  [noCreate |-> FALSE, noUpdate |-> FALSE, noDelete |-> FALSE, exclude |-> {}]

FrozenPolicy == [noCreate |-> TRUE, noUpdate |-> TRUE, noDelete |-> TRUE, exclude |-> {}]

PlainOrFrozen == {PlainPolicy, FrozenPolicy}

OneGroup == [s \in Service |-> x]

Symmetry == Permutations(CSG)
=============================================================================
