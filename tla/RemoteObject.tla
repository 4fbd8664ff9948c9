---------------------------- MODULE RemoteObject ----------------------------
(***************************************************************************)
(* What a reconciler of remote objects promises, whatever the object: it   *)
(* writes to the remote system only on behalf of resources it keeps (they  *)
(* have its finalizer), and it lets a resource go only when nothing of it  *)
(* is left there.                                                          *)
(*                                                                         *)
(* CentreonService, CentreonServiceGroup and Targets implement it.  A      *)
(* resource is excused when its policy, an edit or a fault cost it the     *)
(* promise: those modules say when that is.                                *)
(***************************************************************************)
CONSTANTS
  Resource,  \* the custom resources
  Identity,  \* what tells remote objects apart
  Nobody,    \* the owner of an object that does not exist
  Foreign,   \* the owner of an object no resource ever wrote
  Again      \* whether outdated copies of a resource are delivered again, so that
             \* a pass may repeat its deletion after it was let go

VARIABLES
  kept,     \* the resources that have the finalizer
  owner,    \* owner[i]: the resource that wrote the remote object i last
  excused   \* the resources the promise does not hold for any more

vars == <<kept, owner, excused>>

Init ==
  /\ kept = {} /\ excused = {}
  /\ owner \in [Identity -> {Nobody, Foreign}]

Keep(r) ==
  /\ kept' = kept \union {r}
  /\ UNCHANGED owner

\* The object is created, or written over.
Write(r, i) ==
  /\ r \in kept
  /\ owner' = [owner EXCEPT ![i] = r]
  /\ UNCHANGED kept

\* The object gets another identity, which no object may have.
Move(r, i, j) ==
  /\ r \in kept
  /\ owner[i] # Nobody /\ owner[j] = Nobody
  /\ owner' = [owner EXCEPT ![i] = Nobody, ![j] = r]
  /\ UNCHANGED kept

\* The object is deleted, perhaps Again after the resource was let go.
Remove(r, i) ==
  /\ r \in kept \/ Again
  /\ owner' = [owner EXCEPT ![i] = Nobody]
  /\ UNCHANGED kept

Release(r) ==
  /\ r \in excused \/ \A i \in Identity : owner[i] # r
  /\ kept' = kept \ {r}
  /\ UNCHANGED owner

Excuse == UNCHANGED <<kept, owner>>

Next ==
  /\ excused \subseteq excused'
  /\ \/ \E r \in Resource :
          \/ Keep(r) \/ Release(r)
          \/ \E i \in Identity :
               \/ Write(r, i) \/ Remove(r, i)
               \/ \E j \in Identity : Move(r, i, j)
     \/ Excuse

Spec == Init /\ [][Next]_vars

\* Every object on the remote system belongs to a resource that can still be
\* reconciled, so the object will be deleted with it, or is excused.
NoOrphan ==
  \A i \in Identity : owner[i] \in kept \union excused \union {Nobody, Foreign}
=============================================================================
