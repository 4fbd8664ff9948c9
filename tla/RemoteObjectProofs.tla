------------------------- MODULE RemoteObjectProofs -------------------------
(***************************************************************************)
(* What the promise of RemoteObject is good for, whatever implements it.   *)
(***************************************************************************)
EXTENDS RemoteObject, TLAPS

Owned == owner \in [Identity -> kept \union excused \union {Nobody, Foreign}]

LEMMA OwnedInit == Init => Owned
  BY DEF Init, Owned

LEMMA OwnedNext == Owned /\ [Next]_vars => Owned'
<1> SUFFICES ASSUME Owned, [Next]_vars
             PROVE  Owned'
  OBVIOUS
<1>1. CASE UNCHANGED vars
  BY <1>1 DEF vars, Owned
<1>2. CASE Next
  <2>1. excused \subseteq excused'
    BY <1>2 DEF Next
  <2>2. ASSUME NEW r \in Resource, Keep(r)
        PROVE  Owned'
    BY <2>1, <2>2 DEF Owned, Keep
  <2>3. ASSUME NEW r \in Resource, Release(r)
        PROVE  Owned'
    <3>1. owner' = owner /\ kept' = kept \ {r}
      BY <2>3 DEF Release
    <3>2. ASSUME NEW i \in Identity
          PROVE  owner[i] \in kept' \union excused' \union {Nobody, Foreign}
      BY <2>1, <2>3, <3>1 DEF Owned, Release
    <3> QED BY <3>1, <3>2 DEF Owned
  <2>4. ASSUME NEW r \in Resource, NEW i \in Identity, Write(r, i) \/ Remove(r, i)
        PROVE  Owned'
    BY <2>1, <2>4 DEF Owned, Write, Remove
  <2>5. ASSUME NEW r \in Resource, NEW i \in Identity, NEW j \in Identity,
               Move(r, i, j)
        PROVE  Owned'
    BY <2>1, <2>5 DEF Owned, Move
  <2>6. CASE Excuse
    BY <2>1, <2>6 DEF Owned, Excuse
  <2> QED BY <1>2, <2>2, <2>3, <2>4, <2>5, <2>6 DEF Next
<1> QED BY <1>1, <1>2

(***************************************************************************)
(* No object is orphaned: each one on the remote system was written last   *)
(* by a resource that still has its finalizer, so that the object will be  *)
(* deleted with it, by one that is excused, or by none.                    *)
(***************************************************************************)
THEOREM NoOrphanTheorem == Spec => []NoOrphan
<1>1. Owned => NoOrphan
  BY DEF Owned, NoOrphan
<1> QED BY <1>1, OwnedInit, OwnedNext, PTL DEF Spec
=============================================================================
