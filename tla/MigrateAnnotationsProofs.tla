---------------------- MODULE MigrateAnnotationsProofs ----------------------
(***************************************************************************)
(* Theorems about MigrateAnnotations, for every value of its constants.    *)
(*                                                                         *)
(* The shared variable is harmless because it never holds the old          *)
(* reference between two objects (FoundClean), and the update of an object *)
(* is made to what it still has (TodoCurrent).                             *)
(***************************************************************************)
EXTENDS MigrateAnnotations, TLAPS

USE KindAssumption, OldAssumption

Maps ==
  /\ annotation = [o \in Object |-> annotation[o]]
  /\ listed = [o \in Object |-> listed[o]]

Control ==
  /\ kind \in Nat /\ edits \in Nat
  /\ \A o \in todo : o \in Object /\ KindOf[o] = kind
  /\ running => ~completed
  /\ completed => kind = LastKind /\ todo = {}
  /\ ~running => todo = {}

TodoCurrent ==
  \A o \in todo \ stale : annotation[o] = listed[o] /\ listed[o] # Absent

FoundClean == ~NamesOld(found)

\* The objects that are done name the old template no more.
Clean(o) == annotation[o] \notin Absence => ~NamesOld(annotation[o])

DoneClean ==
  running \/ completed =>
    \A o \in Object \ (stale \union todo) : KindOf[o] <= kind => Clean(o)

Inv == Maps /\ Control /\ TodoCurrent /\ FoundClean /\ DoneClean

(***************************************************************************)
(* The replacement.                                                        *)
(***************************************************************************)
LEMMA MigratedClean == ASSUME NEW refs PROVE ~NamesOld(Migrated(refs))
BY DEF NamesOld, Migrated, ToSet

LEMMA EmptyClean == ~NamesOld(<<>>)
BY DEF NamesOld, ToSet

\* An update is made to the object's own list, which is still what was listed.
LEMMA UpdateOwn ==
  ASSUME Inv, NEW o \in todo \ stale, NeedsUpdate(o)
  PROVE  /\ annotation[o] \notin Absence
         /\ Decoded(o) = annotation[o]
<1>1. annotation[o] = listed[o] /\ listed[o] # Absent
  BY DEF Inv, TodoCurrent
<1>2. listed[o] # Malformed /\ NamesOld(Decoded(o))
  BY DEF NeedsUpdate
<1>3. listed[o] # NoAnnotation
  BY <1>2 DEF Inv, FoundClean, Decoded
<1> QED BY <1>1, <1>2, <1>3 DEF Decoded, Absence

(***************************************************************************)
(* The invariant.                                                          *)
(***************************************************************************)
LEMMA InvInit == Init => Inv
<1> SUFFICES ASSUME Init
             PROVE  Inv
  OBVIOUS
<1>1. Maps
  BY DEF Init, Maps
<1> QED BY <1>1, EmptyClean DEF Init, Inv, Control, TodoCurrent, FoundClean, DoneClean

LEMMA InvEdit == ASSUME Inv, NEW o \in Object, Edit(o) PROVE Inv'
<1>1. PICK a : annotation' = [annotation EXCEPT ![o] = a]
  BY DEF Edit
<1> USE DEF Edit, Inv
<1>2. Maps'
  BY <1>1 DEF Maps
<1>3. Control'
  BY DEF Control
<1>4. \A r \in Object : r \notin stale' /\ KindOf[r] <= kind => annotation'[r] = annotation[r]
  BY <1>1 DEF Maps
<1>5. TodoCurrent'
  BY <1>3, <1>4 DEF TodoCurrent, Control
<1>6. FoundClean'
  BY DEF FoundClean, NamesOld
<1>7. stale \subseteq stale'
  OBVIOUS
<1>8. DoneClean'
  BY <1>4, <1>7 DEF DoneClean, Clean, NamesOld
<1> QED BY <1>2, <1>3, <1>5, <1>6, <1>8

\* What a list of the next kind establishes.
LEMMA InvList ==
  ASSUME Inv, NEW k \in Nat, List(k), running', ~completed', UNCHANGED <<annotation, edits>>,
         stale' \subseteq stale,
         \A o \in Object \ stale' : KindOf[o] < k => Clean(o)
  PROVE  Inv'
<1> USE DEF List, Inv
<1>1. Maps'
  BY DEF Maps
<1>2. Control'
  BY DEF Control
<1>3. TodoCurrent'
  BY DEF TodoCurrent, Maps
<1>4. FoundClean'
  BY EmptyClean DEF FoundClean, NamesOld
<1>5. DoneClean'
  <2> SUFFICES ASSUME NEW o \in Object, o \notin stale', o \notin todo',
                      KindOf[o] <= k
               PROVE  Clean(o)'
    BY DEF DoneClean
  <2>1. CASE KindOf[o] < k
    BY <2>1 DEF Clean, NamesOld
  <2>2. CASE KindOf[o] = k
    BY <2>2 DEF Clean, Absence
  <2> QED BY <2>1, <2>2
<1> QED BY <1>1, <1>2, <1>3, <1>4, <1>5

LEMMA InvStart == ASSUME Inv, migrateAnnotations PROVE Inv'
<1>1. \A o \in Object : ~(KindOf[o] < 1)
  OBVIOUS
<1> QED BY <1>1, InvList DEF migrateAnnotations

LEMMA InvNextKind == ASSUME Inv, NextKind PROVE Inv'
<1>1. kind + 1 \in Nat
  BY DEF Inv, Control
<1>2. \A o \in Object \ stale : KindOf[o] < kind + 1 => Clean(o)
  BY DEF NextKind, Inv, DoneClean, Control
<1>3. ~completed
  BY DEF NextKind, Inv, Control
<1> QED BY <1>1, <1>2, <1>3, InvList DEF NextKind

LEMMA InvComplete == ASSUME Inv, Complete PROVE Inv'
BY DEF Complete, Inv, Maps, Control, TodoCurrent, FoundClean, DoneClean, Clean, NamesOld

LEMMA InvLeaves == ASSUME Inv, NEW o \in Object, Leaves(o) PROVE Inv'
<1> USE DEF Leaves, Inv
<1>1. ~NamesOld(Decoded(o))
  BY DEF NeedsUpdate
<1>2. Maps' /\ Control' /\ TodoCurrent'
  BY DEF Maps, Control, TodoCurrent
<1>3. FoundClean'
  BY <1>1 DEF FoundClean, NamesOld
<1>4. o \notin stale => Clean(o)
  BY <1>1 DEF TodoCurrent, Clean, Decoded, Absence
<1>5. DoneClean'
  BY <1>4 DEF DoneClean, Clean, NamesOld
<1> QED BY <1>2, <1>3, <1>5

LEMMA InvUpdate == ASSUME Inv, NEW o \in Object, Update(o) PROVE Inv'
<1> USE DEF Update, Inv
<1>1. ~NamesOld(found')
  BY MigratedClean
<1>2. /\ annotation'[o] = found'
      /\ \A r \in Object \ {o} : annotation'[r] = annotation[r]
  BY DEF Maps
<1>3. Maps' /\ Control'
  BY DEF Maps, Control
<1>4. TodoCurrent'
  BY <1>2, <1>3 DEF TodoCurrent, Control
<1>5. FoundClean'
  BY <1>1 DEF FoundClean, NamesOld
<1>6. DoneClean'
  BY <1>1, <1>2 DEF DoneClean, Clean, NamesOld
<1> QED BY <1>3, <1>4, <1>5, <1>6

LEMMA InvRefused == ASSUME Inv, NEW o \in Object, Refused(o) PROVE Inv'
BY DEF Refused, Abort, Inv, Maps, Control, TodoCurrent, FoundClean, NamesOld, DoneClean

LEMMA InvFails == ASSUME Inv, RequestFails PROVE Inv'
<1> USE DEF RequestFails, Abort, Inv
<1>1. Maps'
  <2>1. CASE UNCHANGED annotation
    BY <2>1 DEF Maps
  <2>2. ASSUME NEW o \in todo \ stale,
               annotation' = [annotation EXCEPT ![o] = Migrated(Decoded(o))]
        PROVE  Maps'
    BY <2>2 DEF Maps
  <2> QED BY <2>1, <2>2
<1>2. Control' /\ TodoCurrent' /\ FoundClean' /\ DoneClean'
  BY DEF Control, TodoCurrent, FoundClean, NamesOld, DoneClean
<1> QED BY <1>1, <1>2

LEMMA InvNext == Inv /\ [Next]_vars => Inv'
<1> SUFFICES ASSUME Inv, [Next]_vars
             PROVE  Inv'
  OBVIOUS
<1>1. CASE UNCHANGED vars
  BY <1>1 DEF vars, Inv, Maps, Control, TodoCurrent, FoundClean, DoneClean, Clean, NamesOld
<1>2. CASE Next
  BY <1>2, InvEdit, InvStart, InvNextKind, InvComplete, InvLeaves, InvUpdate,
     InvRefused, InvFails DEF Next
<1> QED BY <1>1, <1>2

LEMMA InvTheorem == Spec => []Inv
BY InvInit, InvNext, PTL DEF Spec

(***************************************************************************)
(* After a run that came to its end, whatever the runs before it left half *)
(* done, no object refers to the old template, except those others wrote   *)
(* after their kind was listed.                                            *)
(***************************************************************************)
THEOREM CleanTheorem == Spec => []CompletedIsClean
<1>1. Inv => CompletedIsClean
  BY DEF Inv, Control, DoneClean, Clean, CompletedIsClean
<1> QED BY <1>1, InvTheorem, PTL

(***************************************************************************)
(* The tool changes an annotation only by replacing the old reference in   *)
(* the list the object has at that moment.                                 *)
(***************************************************************************)
Replaces ==
  edits' = edits =>
    \A o \in Object :
      annotation'[o] # annotation[o] =>
        /\ annotation[o] \notin Absence
        /\ annotation'[o] = Migrated(annotation[o])

LEMMA ReplacesOne ==
  ASSUME Inv, NEW o \in todo \ stale, NeedsUpdate(o),
         annotation' = [annotation EXCEPT ![o] = Migrated(Decoded(o))]
  PROVE  Replaces
<1>1. annotation[o] \notin Absence /\ Decoded(o) = annotation[o]
  BY UpdateOwn
<1>2. \A r \in Object \ {o} : annotation'[r] = annotation[r]
  BY DEF Inv, Maps
<1>3. o \in Object => annotation'[o] = Migrated(annotation[o])
  BY <1>1 DEF Inv, Maps
<1> QED BY <1>1, <1>2, <1>3 DEF Replaces

LEMMA ReplacesNext == Inv /\ [Next]_vars => [Replaces]_vars
<1> SUFFICES ASSUME Inv, Next
             PROVE  Replaces
  OBVIOUS
<1>1. CASE UNCHANGED annotation
  BY <1>1 DEF Replaces
<1>2. ASSUME NEW o \in Object, Edit(o)
      PROVE  Replaces
  <2>1. edits' = edits + 1 /\ edits # edits'
    BY <1>2 DEF Edit, Inv, Control
  <2> QED BY <2>1 DEF Replaces
<1>3. ASSUME NEW o \in Object, Update(o)
      PROVE  Replaces
  BY <1>3, ReplacesOne DEF Update
<1>4. CASE RequestFails
  BY <1>1, <1>4, ReplacesOne DEF RequestFails
<1> QED BY <1>1, <1>2, <1>3, <1>4
        DEF Next, migrateAnnotations, NextKind, Complete, Leaves, Refused

THEOREM OnlyReplacesTheorem == Spec => OnlyReplaces
<1>1. Replaces <=> (edits' = edits =>
         \A o \in Object :
           annotation'[o] # annotation[o] =>
             /\ annotation[o] \notin Absence
             /\ annotation'[o] = Migrated(annotation[o]))
  BY DEF Replaces
<1>2. Spec => [][Replaces]_vars
  BY InvTheorem, ReplacesNext, PTL DEF Spec
<1> QED BY <1>1, <1>2, PTL DEF OnlyReplaces
=============================================================================
