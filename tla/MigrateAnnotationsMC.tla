----------------------- MODULE MigrateAnnotationsMC -----------------------
(* Small instances of MigrateAnnotations for TLC. *)
EXTENDS MigrateAnnotations, TLC

CONSTANTS a, b, c, Other

\* Two objects of one kind, which share the variable, and one of the next kind.
TwoKinds == (a :> 1) @@ (b :> 1) @@ (c :> 2)

References == {Old, New, Other}

OneOrTwo ==
  {<<>>, <<Old>>, <<Other>>, <<Old, Old>>, <<Other, Old>>, <<New, Old>>}
=============================================================================
