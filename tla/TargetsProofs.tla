--------------------------- MODULE TargetsProofs ---------------------------
(***************************************************************************)
(* Theorems about Targets, for every value of its constants, and about the *)
(* map it is composed with.                                                *)
(***************************************************************************)
EXTENDS Targets, TLAPS

USE BoundAssumption, AbsentAssumption, RefsAssumption

(***************************************************************************)
(* A resource that names a platform never gets the client of another one.  *)
(***************************************************************************)
LEMMA MapTypeNext ==
  platforms \in [Map!Key -> Entry \union {NoEntry}] /\ [Map!Next]_platforms
    => platforms' \in [Map!Key -> Entry \union {NoEntry}]
<1> SUFFICES ASSUME platforms \in [Map!Key -> Entry \union {NoEntry}],
                    [Map!Next]_platforms
             PROVE  platforms' \in [Map!Key -> Entry \union {NoEntry}]
  OBVIOUS
<1>1. CASE Map!Fill
  BY <1>1 DEF Map!Fill
<1>2. CASE Map!Clear
  BY <1>2 DEF Map!Clear, Map!Cleared
<1>3. ASSUME NEW p \in Plat, Map!Remove(p)
      PROVE  platforms' \in [Map!Key -> Entry \union {NoEntry}]
  BY <1>3 DEF Map!Remove
<1>4. ASSUME NEW p \in Plat, NEW e \in Entry, Map!Put(p, e)
      PROVE  platforms' \in [Map!Key -> Entry \union {NoEntry}]
  BY <1>4 DEF Map!Put
<1>5. CASE UNCHANGED platforms
  BY <1>5
<1> QED BY <1>1, <1>2, <1>3, <1>4, <1>5 DEF Map!Next

Honoured == platforms \in [Map!Key -> Entry \union {NoEntry}] /\ Map!RefIsHonoured

LEMMA HonouredNext == Honoured /\ [Map!Next]_platforms => Honoured'
<1> SUFFICES ASSUME Honoured, [Map!Next]_platforms
             PROVE  Honoured'
  OBVIOUS
<1> USE DEF Honoured, Map!RefIsHonoured, Map!Key
<1>1. CASE Map!Fill
  BY <1>1 DEF Map!Fill
<1>2. CASE Map!Clear
  BY <1>2 DEF Map!Clear, Map!Cleared
<1>3. ASSUME NEW p \in Plat, Map!Remove(p)
      PROVE  Honoured'
  BY <1>3, MapTypeNext DEF Map!Remove, Map!KeySets
<1>4. ASSUME NEW p \in Plat, NEW e \in Entry, Map!Put(p, e)
      PROVE  Honoured'
  BY <1>4, MapTypeNext DEF Map!Put, Map!KeySets
<1>5. CASE UNCHANGED platforms
  BY <1>5
<1> QED BY <1>1, <1>2, <1>3, <1>4, <1>5 DEF Map!Next

THEOREM HonouredTheorem == Map!Spec => []Map!RefIsHonoured
<1>1. Map!Init => Honoured
  BY DEF Map!Init, Map!Cleared, Map!Key, Map!RefIsHonoured, Honoured
<1>2. Honoured => Map!RefIsHonoured
  BY DEF Honoured
<1> QED BY <1>1, <1>2, HonouredNext, PTL DEF Map!Spec

(***************************************************************************)
(* Types.                                                                  *)
(***************************************************************************)
LEMMA TypeInit == Init => TypeOK
<1> SUFFICES ASSUME Init
             PROVE  TypeOK
  OBVIOUS
<1>1. platforms \in [Map!Key -> Entry \union {NoEntry}]
  BY DEF Init, Map!Init, Map!Cleared
<1>2. changes \in 0..MaxChanges /\ faults \in 0..MaxFaults
  BY DEF Init
<1> QED BY <1>1, <1>2 DEF Init, TypeOK

LEMMA TypeMap ==
  ASSUME TypeOK, Start \/ Stop \/ \E p \in Plat : ChangePlatform(p)
  PROVE  TypeOK'
<1>1. Map!Next
  <2>1. CASE Start
    BY <2>1 DEF Start, Map!Next
  <2>2. CASE Stop
    BY <2>2 DEF Stop, Map!Next
  <2>3. ASSUME NEW p \in Plat, ChangePlatform(p)
        PROVE  Map!Next
    BY <2>3 DEF ChangePlatform, Map!Next
  <2> QED BY <2>1, <2>2, <2>3
<1>2. platforms' \in [Map!Key -> Entry \union {NoEntry}]
  BY <1>1, MapTypeNext DEF TypeOK
<1>3. CASE Start
  BY <1>2, <1>3 DEF Start, TypeOK
<1>4. CASE Stop
  <2>1. faults' \in 0..MaxFaults
    BY <1>4 DEF Stop, TypeOK
  <2> QED BY <1>2, <1>4, <2>1 DEF Stop, TypeOK
<1>5. ASSUME NEW p \in Plat, ChangePlatform(p)
      PROVE  TypeOK'
  BY <1>2, <1>5 DEF ChangePlatform, TypeOK
<1> QED BY <1>3, <1>4, <1>5

LEMMA TypeResource ==
  ASSUME TypeOK, NEW c \in CR, User(c) \/ CacheSync(c) \/ Resync(c)
  PROVE  TypeOK'
<1>1. CASE CreateResource(c)
  BY <1>1 DEF CreateResource, TypeOK, Obj
<1>2. CASE DeleteResource(c)
  <2>1. [obj[c] EXCEPT !.deleting = TRUE] \in Obj
    BY <1>2 DEF DeleteResource, Obj
  <2> QED BY <1>2, <2>1 DEF DeleteResource, TypeOK
<1>3. CASE CacheSync(c) \/ Resync(c)
  BY <1>3 DEF CacheSync, Resync, TypeOK
<1> QED BY <1>1, <1>2, <1>3 DEF User

LEMMA Served ==
  ASSUME TypeOK, NEW o \in Obj, GetClient(o) # NoEntry
  PROVE  GetClient(o).server \in Server
<1>1. GetPlatform(o) \in Map!Key
  BY DEF GetPlatform, Obj, Map!Key
<1> QED BY <1>1 DEF GetClient, TypeOK, Entry

LEMMA TypeReconcile ==
  ASSUME TypeOK, NEW c \in CR, Reconcile(c)
  PROVE  TypeOK'
<1>1. CASE ReconcileAbsent(c) \/ ReconcileNoDiff(c)
  BY <1>1 DEF ReconcileAbsent, ReconcileNoDiff, Ready, Take, TypeOK
<1>2. CASE AddFinalizer(c)
  <2>1. [obj[c] EXCEPT !.fin = TRUE] \in Obj
    BY <1>2 DEF AddFinalizer, Obj
  <2> QED BY <1>2, <2>1 DEF AddFinalizer, TypeOK
<1>3. CASE ReconcileDelete(c) \/ ReconcileWrite(c)
  <2>1. GetClient(cache[c]).server \in Server
    BY <1>3, Served DEF ReconcileDelete, ReconcileWrite, Ready
  <2> QED BY <1>3, <2>1 DEF ReconcileDelete, ReconcileWrite, Ready, Take, Begin,
             TypeOK, Pass
<1> QED BY <1>1, <1>2, <1>3 DEF Reconcile

LEMMA TypeWork ==
  ASSUME TypeOK, Work \/ CallFails
  PROVE  TypeOK'
<1>1. pass \in Pass /\ pass.cr \in CR /\ pass.server \in Server
  BY DEF Work, CallFails, Write, Delete, RemoveFinalizer, TypeOK, Pass
<1>2. CASE Write
  BY <1>1, <1>2 DEF Write, Call, OnError, TypeOK
<1>3. CASE Delete
  <2>1. [pass EXCEPT !.pc = "release"] \in Pass
    BY <1>1 DEF Pass
  <2> QED BY <1>1, <1>3, <2>1 DEF Delete, Call, OnError, TypeOK
<1>4. CASE RemoveFinalizer \/ CallFails
  BY <1>1, <1>4 DEF RemoveFinalizer, CallFails, OnError, TypeOK
<1> QED BY <1>2, <1>3, <1>4 DEF Work

LEMMA TypeNext == TypeOK /\ [Next]_vars => TypeOK'
<1>1. UNCHANGED vars /\ TypeOK => TypeOK'
  BY DEF vars, TypeOK
<1> QED BY <1>1, TypeMap, TypeResource, TypeReconcile, TypeWork DEF Next

THEOREM TypeCorrect == Spec => []TypeOK
  BY TypeInit, TypeNext, PTL DEF Spec

(***************************************************************************)
(* The promise.  The owner of a service wrote it through one of the        *)
(* clients it used.  The operator's copy never shows a finalizer that the  *)
(* resource does not have, unless the resource was released, which the     *)
(* copy then saw coming; so the resource of a pass that writes has its     *)
(* finalizer, and one that a pass deletes for is being deleted or gone.    *)
(* Once the deletion was made the service on that server is not its.       *)
(***************************************************************************)
OwnerUsed == \A s \in Server : remote[s] \in CR => s \in used[remote[s]]

\* A live resource with the finalizer, and one on its way out.
Finalized(o) == o \in Obj /\ o.fin
Leaving(o) == o = Gone \/ (o \in Obj /\ o.deleting)

CacheFollows ==
  \A c \in CR : Finalized(cache[c]) =>
    /\ obj[c] = Gone \/ Finalized(obj[c])
    /\ cache[c].deleting => Leaving(obj[c])
    /\ obj[c] = Gone => cache[c].deleting

PassFollows ==
  pass # NoPass =>
    /\ pass.pc = "write" => Finalized(obj[pass.cr])
    /\ pass.pc # "write" => /\ Leaving(obj[pass.cr])
                            /\ Finalized(cache[pass.cr]) => cache[pass.cr].deleting
    /\ pass.pc = "release" => /\ pass.server \in used[pass.cr]
                              /\ remote[pass.server] # pass.cr

PromiseInv == OwnerUsed /\ CacheFollows /\ PassFollows

LEMMA PromiseInit == Init => PromiseInv
  BY DEF Init, PromiseInv, OwnerUsed, CacheFollows, PassFollows, Finalized

LEMMA PromiseNext == TypeOK /\ PromiseInv /\ [Next]_vars => PromiseInv'
<1> SUFFICES ASSUME TypeOK, PromiseInv, [Next]_vars
             PROVE  PromiseInv'
  OBVIOUS
<1> USE DEF PromiseInv, OwnerUsed, CacheFollows, PassFollows, Finalized, Leaving
<1>1. CASE Start \/ Stop \/ \E p \in Plat : ChangePlatform(p)
  BY <1>1 DEF Start, Stop, ChangePlatform
<1>2. ASSUME NEW c \in CR, User(c) \/ CacheSync(c) \/ Resync(c)
      PROVE  PromiseInv'
  <2>1. CASE CreateResource(c)
    BY <2>1 DEF CreateResource, TypeOK, Pass
  <2>2. CASE DeleteResource(c)
    <3>1. [obj[c] EXCEPT !.deleting = TRUE] \in Obj
      BY <2>2 DEF DeleteResource, Obj
    <3>2. [obj[c] EXCEPT !.deleting = TRUE].fin = obj[c].fin
      BY <2>2 DEF DeleteResource, Obj
    <3>3. [obj[c] EXCEPT !.deleting = TRUE].deleting
      BY <2>2 DEF DeleteResource, Obj
    <3> QED BY <2>2, <3>1, <3>2, <3>3 DEF DeleteResource, TypeOK, Pass
  <2>3. CASE CacheSync(c)
    BY <2>3 DEF CacheSync, TypeOK, Pass
  <2>4. CASE Resync(c)
    BY <2>4 DEF Resync
  <2> QED BY <1>2, <2>1, <2>2, <2>3, <2>4 DEF User
<1>3. ASSUME NEW c \in CR, Reconcile(c)
      PROVE  PromiseInv'
  <2>1. CASE ReconcileAbsent(c) \/ ReconcileNoDiff(c)
    BY <2>1 DEF ReconcileAbsent, ReconcileNoDiff, Ready, Take
  <2>2. CASE AddFinalizer(c)
    <3>1. [obj[c] EXCEPT !.fin = TRUE] \in Obj /\ [obj[c] EXCEPT !.fin = TRUE].fin
      BY <2>2 DEF AddFinalizer, Obj
    <3> QED BY <2>2, <3>1 DEF AddFinalizer, TypeOK
  <2>3. CASE ReconcileDelete(c)
    BY <2>3 DEF ReconcileDelete, Ready, Take, Begin
  <2>4. CASE ReconcileWrite(c)
    BY <2>4 DEF ReconcileWrite, Ready, Take, Begin
  <2> QED BY <1>3, <2>1, <2>2, <2>3, <2>4 DEF Reconcile
<1>4. CASE Work \/ CallFails
  <2>1. pass \in Pass /\ pass.cr \in CR /\ pass.server \in Server
    BY <1>4 DEF Work, CallFails, Write, Delete, RemoveFinalizer, TypeOK, Pass
  <2>2. CASE Write
    BY <2>1, <2>2 DEF Write, Call, OnError, TypeOK
  <2>3. CASE Delete
    <3>1. [pass EXCEPT !.pc = "release"] \in Pass
      BY <2>1 DEF Pass
    <3> QED BY <2>1, <2>3, <3>1 DEF Delete, Call, OnError, TypeOK, Pass
  <2>4. CASE RemoveFinalizer
    BY <2>1, <2>4 DEF RemoveFinalizer, OnError, TypeOK
  <2>5. CASE CallFails
    BY <2>5 DEF CallFails, OnError
  <2> QED BY <1>4, <2>2, <2>3, <2>4, <2>5 DEF Work
<1>5. CASE UNCHANGED vars
  BY <1>5 DEF vars
<1> QED BY <1>1, <1>2, <1>3, <1>4, <1>5 DEF Next

Kept == {c \in CR : obj[c] \in Obj /\ obj[c].fin}

Excused == {c \in CR : \E s, t \in used[c] : s # t}

LEMMA PromiseStep ==
  ASSUME TypeOK, PromiseInv, [Next]_vars
  PROVE  [Promise!Next]_Promise!vars
<1> USE DEF Promise!Next
<1>1. Excused \subseteq Excused'
  <2>1. \A c \in CR : used[c] \subseteq used'[c]
    <3>1. CASE Write \/ Delete
      BY <3>1 DEF Write, Delete, Call, TypeOK, Pass
    <3>2. CASE UNCHANGED used
      BY <3>2
    <3>3. CASE Start \/ Stop \/ \E p \in Plat : ChangePlatform(p)
      BY <3>3 DEF Start, Stop, ChangePlatform
    <3>4. ASSUME NEW c \in CR, User(c) \/ CacheSync(c) \/ Resync(c) \/ Reconcile(c)
          PROVE  UNCHANGED used
      BY <3>4 DEF User, CreateResource, DeleteResource, CacheSync, Resync, Reconcile,
         ReconcileAbsent, AddFinalizer, ReconcileDelete, ReconcileWrite,
         ReconcileNoDiff, Begin
    <3>5. CASE RemoveFinalizer \/ CallFails
      BY <3>5 DEF RemoveFinalizer, CallFails
    <3> QED BY <3>1, <3>2, <3>3, <3>4, <3>5 DEF Next, Work, vars
  <2> QED BY <2>1 DEF Excused
<1>2. ASSUME UNCHANGED <<Kept, remote>>
      PROVE  Promise!Next
  BY <1>1, <1>2 DEF Promise!Excuse, Kept, Excused
<1>3. CASE Start \/ Stop \/ CallFails \/ \E p \in Plat : ChangePlatform(p)
  BY <1>2, <1>3 DEF Start, Stop, CallFails, ChangePlatform, Kept
<1>4. ASSUME NEW c \in CR, User(c) \/ CacheSync(c) \/ Resync(c)
      PROVE  Promise!Next
  <2>1. CASE CreateResource(c)
    BY <1>2, <2>1 DEF CreateResource, Kept, TypeOK, Obj
  <2>2. CASE DeleteResource(c)
    <3>1. [obj[c] EXCEPT !.deleting = TRUE] \in Obj
      BY <2>2 DEF DeleteResource, Obj
    <3>2. [obj[c] EXCEPT !.deleting = TRUE].fin = obj[c].fin
      BY <2>2 DEF DeleteResource, Obj
    <3> QED BY <1>2, <2>2, <3>1, <3>2 DEF DeleteResource, Kept, TypeOK
  <2>3. CASE CacheSync(c) \/ Resync(c)
    BY <1>2, <2>3 DEF CacheSync, Resync, Kept
  <2> QED BY <1>4, <2>1, <2>2, <2>3 DEF User
<1>5. ASSUME NEW c \in CR, Reconcile(c)
      PROVE  Promise!Next
  <2>1. CASE AddFinalizer(c)
    <3>1. [obj[c] EXCEPT !.fin = TRUE] \in Obj /\ [obj[c] EXCEPT !.fin = TRUE].fin
      BY <2>1 DEF AddFinalizer, Obj
    <3>2. Kept' = Kept \union {c} /\ UNCHANGED remote
      BY <2>1, <3>1 DEF AddFinalizer, Kept, TypeOK
    <3>3. Promise!Keep(c)
      BY <3>2 DEF Promise!Keep, Kept
    <3> QED BY <1>1, <3>3 DEF Excused
  <2>2. CASE ~AddFinalizer(c)
    BY <1>2, <1>5, <2>2 DEF Reconcile, ReconcileAbsent, ReconcileDelete,
       ReconcileWrite, ReconcileNoDiff, Begin, Kept
  <2> QED BY <2>1, <2>2
<1>6. CASE Write \/ Delete
  <2>1. pass.server \in Server /\ pass.cr \in CR
    BY <1>6 DEF Write, Delete, TypeOK, Pass
  <2>2. UNCHANGED Kept
    BY <1>6 DEF Write, Delete, Call, Kept
  <2>3. CASE Write
    <3>0. pass.cr \in Kept
      BY <2>1, <2>3 DEF Write, PromiseInv, PassFollows, Finalized, Kept
    <3>1. Promise!Write(pass.cr, pass.server)
      BY <2>2, <2>3, <3>0 DEF Write, Call, Promise!Write, Kept
    <3> QED BY <1>1, <2>1, <3>1 DEF Excused
  <2>4. CASE Delete
    <3>1. Promise!Remove(pass.cr, pass.server)
      BY <2>2, <2>4 DEF Delete, Call, Promise!Remove, Kept
    <3> QED BY <1>1, <2>1, <3>1 DEF Excused
  <2> QED BY <1>6, <2>3, <2>4
<1>7. CASE RemoveFinalizer
  <2>1. /\ pass \in Pass /\ pass.cr \in CR /\ pass.server \in Server
        /\ pass.server \in used[pass.cr] /\ remote[pass.server] # pass.cr
    BY <1>7 DEF RemoveFinalizer, TypeOK, Pass, PromiseInv, PassFollows
  <2>2. PICK c \in CR : c = pass.cr
    BY <2>1
  <2>3. c \in Excused \/ \A s \in Server : remote[s] # c
    BY <2>1, <2>2 DEF PromiseInv, OwnerUsed, Excused
  <2>4. CASE obj' = [obj EXCEPT ![c] = Gone]
    <3>1. Kept' = Kept \ {c} /\ UNCHANGED remote
      BY <1>7, <2>4 DEF RemoveFinalizer, Kept, TypeOK
    <3>2. Promise!Release(c)
      BY <2>3, <3>1 DEF Promise!Release, Kept, Excused
    <3> QED BY <1>1, <3>2 DEF Excused
  <2>5. CASE UNCHANGED obj
    BY <1>2, <1>7, <2>5 DEF RemoveFinalizer, Kept
  <2> QED BY <1>7, <2>2, <2>4, <2>5 DEF RemoveFinalizer
<1>8. CASE UNCHANGED vars
  BY <1>8 DEF vars, Promise!vars
<1> QED BY <1>3, <1>4, <1>5, <1>6, <1>7, <1>8 DEF Next, Work

(***************************************************************************)
(* No resource is let go before its service is deleted, whatever becomes   *)
(* of the map, of the calls and of the operator, unless its passes were    *)
(* sent to several servers.                                                *)
(***************************************************************************)
THEOREM PromiseTheorem == Spec => ImplementsPromise
<1>1. Init => Promise!Init
  BY DEF Init, Promise!Init
<1> QED BY <1>1, TypeInit, TypeNext, PromiseInit, PromiseNext, PromiseStep, PTL
        DEF Spec, ImplementsPromise, Promise!Spec

\* Whoever wrote a service last is able to delete it.
NoServiceOrphaned ==
  \A s \in Server : remote[s] # NoSvc =>
    \/ obj[remote[s]] \in Obj /\ obj[remote[s]].fin
    \/ \E t, u \in used[remote[s]] : t # u

\* The promise, read where it is proved to be of use.
Reconciler == INSTANCE RemoteObjectProofs WITH
  Resource <- CR, Identity <- Server, Nobody <- NoSvc, Foreign <- NoSvc,
  Again <- TRUE,
  kept <- {c \in CR : obj[c] \in Obj /\ obj[c].fin}, owner <- remote,
  excused <- {c \in CR : \E s, t \in used[c] : s # t}

(***************************************************************************)
(* Nothing is orphaned (RemoteObjectProofs): the service on a server was   *)
(* written last by a resource that exists and has its finalizer, so that   *)
(* it will be deleted with it, or by one whose passes were sent to several *)
(* servers.                                                                *)
(***************************************************************************)
THEOREM OrphanTheorem == Spec => []NoServiceOrphaned
<1>1. Promise!Init => Reconciler!Init
  BY DEF Promise!Init, Reconciler!Init
<1>2. [Promise!Next]_(Promise!vars) => [Reconciler!Next]_(Reconciler!vars)
  BY DEF Promise!Next, Promise!vars, Promise!Keep, Promise!Release, Promise!Write,
         Promise!Remove, Promise!Move, Promise!Excuse, Reconciler!Next,
         Reconciler!vars, Reconciler!Keep, Reconciler!Release, Reconciler!Write,
         Reconciler!Remove, Reconciler!Move, Reconciler!Excuse
<1>3. TypeOK /\ Reconciler!NoOrphan => NoServiceOrphaned
  BY DEF Reconciler!NoOrphan, NoServiceOrphaned
<1> QED BY <1>1, <1>2, <1>3, TypeCorrect, PromiseTheorem,
           Reconciler!NoOrphanTheorem, PTL
        DEF ImplementsPromise, Promise!Spec, Reconciler!Spec
=============================================================================
