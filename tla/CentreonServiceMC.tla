------------------------- MODULE CentreonServiceMC -------------------------
(* Small instances of CentreonService for TLC. *)
EXTENDS CentreonService, TLC

PlainPolicy ==
  [noCreate |-> FALSE, noUpdate |-> FALSE, noDelete |-> FALSE, exclude |-> {}]

OnlyPlain == {PlainPolicy}

NoUpdate == [PlainPolicy EXCEPT !.noUpdate = TRUE]
OnlyNoUpdate == {NoUpdate}

NoDelete == {PlainPolicy, [PlainPolicy EXCEPT !.noDelete = TRUE]}

NoWriteOrName ==
  {PlainPolicy, [NoUpdate EXCEPT !.noCreate = TRUE], [PlainPolicy EXCEPT !.exclude = {"name"}]}

NothingFound == {{}}
AnyFound == SUBSET Id

Symmetry == Permutations(CR) \union Permutations(Host) \union Permutations(Name)
=============================================================================
