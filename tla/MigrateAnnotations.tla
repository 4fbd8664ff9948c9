------------------------- MODULE MigrateAnnotations -------------------------
(***************************************************************************)
(* The one-shot tool that replaces one template reference by another in    *)
(* the annotations of the cluster's objects, while users and controllers   *)
(* go on changing them.                                                    *)
(*                                                                         *)
(* It takes the kinds in a fixed order.  For each it lists the objects     *)
(* once and then updates those whose list of templates names the old one,  *)
(* on the version it listed.  Any error ends the run; it may be started    *)
(* again.  The list of one object is decoded into the variable that still  *)
(* holds the list of the object before it.                                 *)
(***************************************************************************)
EXTENDS Naturals, Sequences, SequencesExt

CONSTANTS
  Object,       \* namespaces, secrets, nodes, ingresses and routes
  KindOf,       \* KindOf[o]: the place of the object's kind in the order
  LastKind,     \* how many kinds are migrated (routes only where they exist)
  Old, New,     \* the template to replace, the one to replace it by
  Ref,          \* references to templates
  Lists,        \* the lists of references found in annotations
  NoAnnotation, \* the annotation is missing or empty
  Malformed,    \* the annotation is not a list of references
  Absent,       \* the object does not exist
  MaxEdits,     \* bound: how often others write objects
  MaxFaults     \* bound: how many requests of the tool fail

ASSUME KindAssumption == LastKind \in Nat \ {0} /\ KindOf \in [Object -> 1..LastKind]
ASSUME OldAssumption == Old \in Ref /\ New \in Ref /\ Old # New
ASSUME ListsAssumption == \A l \in Lists : l \in Seq(Ref)
ASSUME BoundAssumption == MaxEdits \in Nat /\ MaxFaults \in Nat

VARIABLES
  annotation,  \* annotation[o]: in the API server, or Absent
  running,     \* the tool runs
  kind,        \* the kind it is at
  listed,      \* listed[o]: what the list of o's kind said
  todo,        \* the objects of that list still to process
  found,       \* listNamespacedName, the references decoded last
  stale,       \* objects written by others since their kind was listed
  completed,   \* the last run came to its end
  edits, faults

vars == <<annotation, running, kind, listed, todo, found, stale, completed,
          edits, faults>>

Absence == {NoAnnotation, Malformed, Absent}

Init ==
  /\ annotation \in [Object -> Lists \union Absence]
  /\ running = FALSE /\ kind = 0 /\ todo = {} /\ found = <<>> /\ stale = {}
  /\ listed = [o \in Object |-> Absent]
  /\ completed = FALSE
  /\ edits = 0 /\ faults = 0

-----------------------------------------------------------------------------
\* Others create, edit, annotate or delete an object, or write it without
\* touching the annotation.
Edit(o) ==
  /\ edits < MaxEdits /\ edits' = edits + 1
  /\ \E a \in Lists \union Absence : annotation' = [annotation EXCEPT ![o] = a]
  /\ stale' = IF KindOf[o] <= kind THEN stale \union {o} ELSE stale
  /\ UNCHANGED <<running, kind, listed, todo, found, completed, faults>>

\* List returns every object of the kind; the variable starts empty.
List(k) ==
  /\ kind' = k
  /\ listed' = [o \in Object |-> IF KindOf[o] = k THEN annotation[o] ELSE listed[o]]
  /\ todo' = { o \in Object : KindOf[o] = k /\ annotation[o] # Absent }
  /\ found' = <<>>

migrateAnnotations ==
  /\ ~running /\ running' = TRUE
  /\ List(1)
  /\ stale' = {} /\ completed' = FALSE
  /\ UNCHANGED <<annotation, edits, faults>>

NextKind ==
  /\ running /\ todo = {} /\ kind < LastKind
  /\ List(kind + 1)
  /\ UNCHANGED <<annotation, running, stale, completed, edits, faults>>

Complete ==
  /\ running /\ todo = {} /\ kind = LastKind
  /\ running' = FALSE /\ completed' = TRUE
  /\ UNCHANGED <<annotation, kind, listed, todo, found, stale, edits, faults>>

Abort == running' = FALSE /\ todo' = {} /\ UNCHANGED <<found, completed>>

NamesOld(refs) == Old \in ToSet(refs)

\* Mutant of Migrated: the loop stops at the first hit.
MigratedFirst(refs) ==
  IF NamesOld(refs)
  THEN [refs EXCEPT ![CHOOSE i \in DOMAIN refs : refs[i] = Old] = New]
  ELSE refs

\* What the loop over the references makes of them.
Migrated(refs) == [i \in DOMAIN refs |-> IF refs[i] = Old THEN New ELSE refs[i]]

\* The references of o as the loop sees them: an object without annotation is
\* judged by what the one before it left.
Decoded(o) == IF listed[o] = NoAnnotation THEN found ELSE listed[o]

NeedsUpdate(o) == IF listed[o] = Malformed THEN FALSE ELSE NamesOld(Decoded(o))

Leaves(o) ==
  /\ running /\ o \in todo /\ listed[o] # Malformed /\ ~NeedsUpdate(o)
  /\ found' = Decoded(o) /\ todo' = todo \ {o}
  /\ UNCHANGED <<annotation, running, kind, listed, stale, completed, edits, faults>>

\* Mutant of Update: the references are replaced in a copy of the list.
UpdateCopies(o) ==
  /\ running /\ o \in todo /\ NeedsUpdate(o)
  /\ o \notin stale
  /\ found' = Decoded(o) /\ todo' = todo \ {o}
  /\ annotation' = [annotation EXCEPT ![o] = Migrated(Decoded(o))]
  /\ UNCHANGED <<running, kind, listed, stale, completed, edits, faults>>

\* The update is made to the version that was listed.
Update(o) ==
  /\ running /\ o \in todo /\ NeedsUpdate(o)
  /\ o \notin stale
  /\ found' = Migrated(Decoded(o)) /\ todo' = todo \ {o}
  /\ annotation' = [annotation EXCEPT ![o] = found']
  /\ UNCHANGED <<running, kind, listed, stale, completed, edits, faults>>

\* The annotation cannot be decoded, or the object has another version.
Refused(o) ==
  /\ running /\ o \in todo
  /\ listed[o] = Malformed \/ (o \in stale /\ NeedsUpdate(o))
  /\ Abort
  /\ UNCHANGED <<annotation, kind, listed, stale, edits, faults>>

\* A list or an update fails; the update may have been applied.
RequestFails ==
  /\ running /\ faults < MaxFaults /\ faults' = faults + 1
  /\ \/ UNCHANGED annotation
     \/ \E o \in todo \ stale :
          /\ NeedsUpdate(o)
          /\ annotation' = [annotation EXCEPT ![o] = Migrated(Decoded(o))]
  /\ Abort
  /\ UNCHANGED <<kind, listed, stale, edits>>

Next ==
  \/ migrateAnnotations \/ NextKind \/ Complete \/ RequestFails
  \/ \E o \in Object : Edit(o) \/ Leaves(o) \/ Update(o) \/ Refused(o)

Spec == Init /\ [][Next]_vars

-----------------------------------------------------------------------------
(***************************************************************************)
(* Properties.                                                             *)
(***************************************************************************)

\* The tool changes an annotation only by replacing the old reference in the list
\* the object has at that moment: it undoes no edit made since it listed the object
\* and gives no object the list of another one, although the variable is shared.
OnlyReplaces ==
  [][edits' = edits =>
       \A o \in Object :
         annotation'[o] # annotation[o] =>
           /\ annotation[o] \notin Absence
           /\ annotation'[o] = Migrated(annotation[o])]_vars

\* After a run that came to its end, whatever the runs before it left half done,
\* no object refers to the old template, except those others wrote after their
\* kind was listed.
CompletedIsClean ==
  completed =>
    \A o \in Object \ stale :
      annotation[o] \notin Absence => ~NamesOld(annotation[o])
=============================================================================
