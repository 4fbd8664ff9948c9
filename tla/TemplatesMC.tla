---------------------------- MODULE TemplatesMC ----------------------------
(* Small instances of Templates for TLC. *)
EXTENDS Templates, TLC

CONSTANTS p, q, t, u, np, nq, b1, b2

\* Each parent has names of its own, as "{{ .templateName }}-{{ .name }}" gives.
Renders(x, b) == [name |-> IF x = p THEN np ELSE nq, body |-> b]

\* One child per parent, with either body; a child for one parent only; an
\* error for one parent only.
SomeContent ==
  { [x \in Parent |-> Renders(x, b)] : b \in Body }
    \union { [x \in Parent |-> IF x = p THEN o ELSE Renders(x, b1)] :
               o \in {Nothing, Failure} }

SomeAnnotations == {<<>>, <<t, u>>}

\* p is annotated with two templates, which give one child for each parent.
Annotated ==
  [ parent |-> [x \in Parent |-> IF x = p THEN [templates |-> <<t, u>>, uid |-> 1] ELSE NoObj],
    template |-> [x \in Template |-> [y \in Parent |-> Renders(y, IF x = t THEN b1 ELSE b2)]],
    child |-> [n \in Name |-> NoObj] ]

\* ... and p has a child from before the labels were introduced.
WithOldChild ==
  [Annotated EXCEPT !.child[np] = [owner |-> p, uid |-> 1, label |-> NoLabel, body |-> b2]]

SomeStart == {Annotated, WithOldChild}

OwnLabels == [x \in Parent |-> x]
\* An Ingress and a Route of one name in one namespace.
SameLabel == [x \in Parent |-> p]
=============================================================================
