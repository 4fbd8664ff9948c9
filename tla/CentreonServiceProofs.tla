----------------------- MODULE CentreonServiceProofs -----------------------
(***************************************************************************)
(* Theorems about CentreonService, for every value of its constants.       *)
(***************************************************************************)
EXTENDS CentreonService, FiniteSetTheorems, TLAPS

(***************************************************************************)
(* The type invariant is not inductive: the calls of a pass write fields   *)
(* of the service the pass works on, which has to exist.                   *)
(***************************************************************************)
PassHasService ==
  pass # NoPass /\ pass.pc \in {"fill", "update"} => remote[pass.at] \in Svc

TypeInv == TypeOK /\ PassHasService

USE PolicyAssumption, FoundAssumption, BoundAssumption, AbsentAssumption

LEMMA TypeInit == Init => TypeInv
  BY DEF Init, TypeInv, TypeOK, PassHasService, Svc

\* What users do keeps the types.
LEMMA TypeUser ==
  ASSUME TypeInv, NEW c \in CR, User(c)
  PROVE  TypeInv'
<1> USE DEF TypeInv, TypeOK, PassHasService
<1>1. CASE ValidateCreate(c)
  BY <1>1 DEF ValidateCreate, Obj
<1>2. CASE ValidateUpdate(c)
  <2>1. PICK i \in Id, v \in Cfg, p \in Policy :
          req' = [req EXCEPT ![c] =
                    [obj[c] EXCEPT !.id = i, !.cfg = v, !.policy = p]]
    BY <1>2 DEF ValidateUpdate
  <2>2. obj[c] \in Obj /\ edits < MaxEdits /\ edits' = edits + 1
        /\ UNCHANGED <<obj, cache, dirty, queue, pass, remote, faults, slip, left>>
    BY <1>2 DEF ValidateUpdate
  <2>3. [obj[c] EXCEPT !.id = i, !.cfg = v, !.policy = p] \in Obj
    BY <2>2 DEF Obj
  <2>4. req' \in [CR -> Obj \union {NoReq}]
    BY <2>1, <2>3
  <2>5. edits' \in 0..MaxEdits
    BY <2>2
  <2> QED BY <2>2, <2>4, <2>5
<1>3. ASSUME NEW o \in Obj \union {Gone}, UserWrite(c, o), UNCHANGED edits
      PROVE  TypeInv'
  BY <1>3 DEF UserWrite, Store, Pass
<1>4. CASE Persist(c)
  BY <1>3, <1>4 DEF Persist
<1>5. CASE UserDelete(c)
  <2>1. obj[c] \in Obj /\ [obj[c] EXCEPT !.deleting = TRUE] \in Obj
    BY <1>5 DEF UserDelete, Obj
  <2> QED BY <1>3, <1>5, <2>1 DEF UserDelete
<1> QED BY <1>1, <1>2, <1>4, <1>5 DEF User

\* The informer and the start of a pass keep the types.
LEMMA TypeReconcile ==
  ASSUME TypeInv, NEW c \in CR, CacheSync(c) \/ Reconcile(c)
  PROVE  TypeInv'
<1> USE DEF TypeInv, TypeOK, PassHasService
<1>1. CASE CacheSync(c)
  BY <1>1 DEF CacheSync
<1>2. CASE ReconcileAbsent(c)
  BY <1>2 DEF ReconcileAbsent, Take, k8s
<1>3. CASE AddFinalizer(c)
  <2>1. [cache[c] EXCEPT !.fin = TRUE] \in Obj
    BY <1>3 DEF AddFinalizer, Obj
  <2> QED BY <1>3, <2>1 DEF AddFinalizer, Take, Store
<1>4. ASSUME NEW pc \in {"create", "update", "delete"}, NEW i \in Id,
             NEW todo \in SUBSET Field, cache[c] \in Obj,
             pc = "update" => remote[i] \in Svc,
             Take(c), Begin(c, pc, i, todo)
      PROVE  TypeInv'
  <2>1. pass' \in Pass
    BY <1>4 DEF Begin, Pass
  <2>2. pass'.at = i /\ pass'.pc = pc
    BY <1>4 DEF Begin
  <2> QED BY <1>4, <2>1, <2>2 DEF Begin, Take, k8s
<1>5. CASE ReconcileDelete(c)
  BY <1>4, <1>5 DEF ReconcileDelete, Obj
<1>6. CASE ReconcileCreate(c)
  BY <1>4, <1>6 DEF ReconcileCreate, Obj
<1>7. CASE ReconcileUpdate(c)
  <2>1. Get(cache[c]) \in Id
    BY <1>7 DEF ReconcileUpdate, Get, Obj
  <2>2. Diff(cache[c], Get(cache[c])) \in SUBSET Field
    BY DEF Diff
  <2> QED BY <1>4, <1>7, <2>1, <2>2 DEF ReconcileUpdate
<1>8. CASE ReconcileNoDiff(c)
  BY <1>8 DEF ReconcileNoDiff, Take, k8s
<1> QED BY <1>1, <1>2, <1>3, <1>5, <1>6, <1>7, <1>8 DEF Reconcile

\* Ending a pass, or learning of a call's success, keeps the types.
LEMMA TypeAbort ==
  ASSUME TypeInv, NEW p \in Pass, Abort(p)
  PROVE  /\ pass' \in Pass \union {NoPass} /\ queue' \subseteq CR
         /\ slip' \subseteq CR /\ PassHasService'
  BY DEF TypeInv, TypeOK, Abort, Pass, PassHasService

LEMMA TypeReply ==
  ASSUME TypeInv, NEW next \in Pass, Reply(next),
         next.pc \in {"fill", "update"} => remote'[next.at] \in Svc
  PROVE  /\ pass' \in Pass \union {NoPass} /\ queue' \subseteq CR
         /\ slip' \subseteq CR /\ faults' \in 0..MaxFaults /\ PassHasService'
<1>1. CASE pass' = next /\ UNCHANGED <<queue, faults, slip>>
  BY <1>1 DEF TypeInv, TypeOK, PassHasService
<1>2. CASE faults < MaxFaults /\ faults' = faults + 1 /\ Abort(next)
  BY <1>2, TypeAbort DEF TypeInv, TypeOK
<1> QED BY <1>1, <1>2 DEF Reply

LEMMA DoneType ==
  ASSUME TypeInv, pass # NoPass, NEW f \in Field, NEW i \in Id
  PROVE  Done(f, i) \in Pass /\ Done(f, i).at = i
  BY DEF TypeInv, TypeOK, Done, Pass

\* The calls of a pass keep the types.
LEMMA TypeMove ==
  ASSUME TypeInv, NEW f \in Field, NEW to \in Id, InUpdate(f), Move(f, to)
  PROVE  TypeInv'
<1>1. pass \in Pass /\ pass.at \in Id /\ pass.cr \in CR /\ remote[pass.at] \in Svc
  BY DEF TypeInv, TypeOK, InUpdate, PassHasService, Pass
<1>2. CASE remote[to] = NoSvc
  <2>1. [remote[pass.at] EXCEPT !.owner = pass.cr] \in Svc
    BY <1>1 DEF Svc
  <2>2. to # pass.at
    BY <1>1, <1>2
  <2>3. remote' \in [Id -> Svc \union {NoSvc}] /\ remote'[to] \in Svc
    BY <1>1, <1>2, <2>1, <2>2 DEF Move, TypeInv, TypeOK
  <2>4. Done(f, to) \in Pass /\ Done(f, to).at = to
    BY DoneType DEF InUpdate
  <2>5. Reply(Done(f, to))
    BY <1>2 DEF Move
  <2> QED BY <2>3, <2>4, <2>5, TypeReply DEF Move, TypeInv, TypeOK, k8s
<1>3. CASE remote[to] # NoSvc
  BY <1>1, <1>3, TypeAbort DEF Move, TypeInv, TypeOK, k8s
<1> QED BY <1>2, <1>3

LEMMA TypeSkip ==
  ASSUME TypeInv, NEW pc, NEW flag, NEW next \in {"status", "release"},
         SkipCall(pc, flag, next)
  PROVE  /\ pass' \in Pass /\ PassHasService'
         /\ UNCHANGED <<k8s, queue, remote, faults, slip>>
<1>1. [pass EXCEPT !.pc = next] \in Pass /\ [pass EXCEPT !.pc = next].pc = next
  BY DEF TypeInv, TypeOK, SkipCall, Pass
<1> QED BY <1>1 DEF SkipCall, PassHasService

LEMMA TypeRecord ==
  ASSUME TypeInv, NEW st \in Id, Record(st)
  PROVE  TypeInv'
<1>1. pass \in Pass /\ pass.cr \in CR /\ pass.snap \in Obj
  BY DEF TypeInv, TypeOK, Record, Pass
<1>2. [pass.snap EXCEPT !.st = st] \in Obj
  BY <1>1 DEF Obj
<1>3. CASE pass.fresh
  BY <1>1, <1>2, <1>3 DEF Record, Store, TypeInv, TypeOK, PassHasService
<1>4. CASE ~pass.fresh
  BY <1>1, <1>4, TypeAbort DEF Record, TypeInv, TypeOK
<1> QED BY <1>3, <1>4

LEMMA TypeWork ==
  ASSUME TypeInv, Work
  PROVE  TypeInv'
<1>0. pass \in Pass /\ pass.cr \in CR /\ pass.at \in Id
      /\ pass.snap \in Obj /\ pass.snap.id \in Id /\ pass.snap.cfg \in Cfg
  BY DEF TypeInv, TypeOK, Pass, Obj, Work, SkipCall, CreateSkipped, CreateAdd,
         CreateFill, UpdateSkipped, UpdateSetCfg, UpdateRename, UpdateSetHost,
         InUpdate, WriteStatus, Record, DeleteRemote, DeleteSkipped,
         RemoveFinalizer
<1>1. CASE CreateSkipped
  BY <1>1, TypeSkip DEF CreateSkipped, TypeInv, TypeOK, k8s
<1>2. CASE CreateAdd
  <2> DEFINE next == [pass EXCEPT !.pc = "fill", !.moved = TRUE]
  <2>1. CASE remote[pass.at] = NoSvc
    <3>1. next \in Pass /\ next.at = pass.at
      BY <1>0 DEF Pass
    <3>2. remote' \in [Id -> Svc \union {NoSvc}] /\ remote'[pass.at] \in Svc
      BY <1>0, <1>2, <2>1 DEF CreateAdd, TypeInv, TypeOK, Svc
    <3>3. Reply(next) /\ UNCHANGED <<k8s, left>>
      BY <1>2, <2>1 DEF CreateAdd
    <3> QED BY <3>1, <3>2, <3>3, TypeReply DEF TypeInv, TypeOK, k8s
  <2>2. CASE remote[pass.at] # NoSvc
    BY <1>0, <1>2, <2>2, TypeAbort DEF CreateAdd, TypeInv, TypeOK, k8s
  <2> QED BY <2>1, <2>2
<1>3. CASE CreateFill
  <2>1. remote' \in [Id -> Svc \union {NoSvc}]
    BY <1>0, <1>3 DEF CreateFill, TypeInv, TypeOK, PassHasService, Svc
  <2>2. [pass EXCEPT !.pc = "status"] \in Pass
        /\ [pass EXCEPT !.pc = "status"].pc = "status"
    BY <1>0 DEF Pass
  <2> QED BY <1>3, <2>1, <2>2, TypeReply DEF CreateFill, TypeInv, TypeOK, k8s
<1>4. CASE UpdateSkipped
  BY <1>4, TypeSkip DEF UpdateSkipped, TypeInv, TypeOK, k8s
<1>5. CASE UpdateSetCfg
  <2>1. remote' \in [Id -> Svc \union {NoSvc}] /\ remote'[pass.at] \in Svc
    BY <1>0, <1>5 DEF UpdateSetCfg, TypeInv, TypeOK, Svc
  <2>2. Done("cfg", pass.at) \in Pass /\ Done("cfg", pass.at).at = pass.at
    BY <1>0, <1>5, DoneType DEF UpdateSetCfg, InUpdate, Field
  <2> QED BY <1>5, <2>1, <2>2, TypeReply DEF UpdateSetCfg, TypeInv, TypeOK, k8s
<1>6. CASE UpdateRename
  <2>1. [pass.at EXCEPT !.name = pass.snap.id.name] \in Id
    BY <1>0 DEF Id
  <2> QED BY <1>6, <2>1, TypeMove DEF UpdateRename, Field
<1>7. CASE UpdateSetHost
  <2>1. [pass.at EXCEPT !.host = pass.snap.id.host] \in Id
    BY <1>0 DEF Id
  <2> QED BY <1>7, <2>1, TypeMove DEF UpdateSetHost, Field
<1>8. CASE WriteStatus
  BY <1>0, <1>8, TypeRecord DEF WriteStatus
<1>9. CASE DeleteRemote
  <2>1. [pass EXCEPT !.pc = "release"] \in Pass
        /\ [pass EXCEPT !.pc = "release"].pc = "release"
    BY <1>0 DEF Pass
  <2>2. remote' \in [Id -> Svc \union {NoSvc}] /\ left' \subseteq CR
    BY <1>0, <1>9 DEF DeleteRemote, TypeInv, TypeOK
  <2> QED BY <1>9, <2>1, <2>2, TypeReply DEF DeleteRemote, TypeInv, TypeOK, k8s
<1>10. CASE DeleteSkipped
  BY <1>0, <1>10, TypeSkip DEF DeleteSkipped, TypeInv, TypeOK, k8s
<1>11. CASE RemoveFinalizer
  <2>1. CASE pass.fresh /\ validateResourceUnicity(pass.cr, pass.snap.id)
    BY <1>0, <1>11, <2>1
       DEF RemoveFinalizer, Store, TypeInv, TypeOK, PassHasService
  <2>2. CASE ~(pass.fresh /\ validateResourceUnicity(pass.cr, pass.snap.id))
    BY <1>0, <1>11, <2>2, TypeAbort DEF RemoveFinalizer, TypeInv, TypeOK
  <2> QED BY <2>1, <2>2
<1> QED BY <1>1, <1>2, <1>3, <1>4, <1>5, <1>6, <1>7, <1>8, <1>9, <1>10, <1>11
        DEF Work

LEMMA TypeFault ==
  ASSUME TypeInv, CallFails \/ Restart
  PROVE  TypeInv'
<1>1. CASE CallFails
  BY <1>1, TypeAbort DEF CallFails, TypeInv, TypeOK, k8s
<1>2. CASE Restart
  BY <1>2 DEF Restart, TypeInv, TypeOK, PassHasService, Pass
<1> QED BY <1>1, <1>2

LEMMA TypeStutter == TypeInv /\ UNCHANGED vars => TypeInv'
  BY DEF TypeInv, TypeOK, PassHasService, vars

LEMMA TypeNext == TypeInv /\ [Next]_vars => TypeInv'
  BY TypeUser, TypeReconcile, TypeWork, TypeFault, TypeStutter DEF Next

(***************************************************************************)
(* Every variable keeps its type, and a pass only ever writes fields of a  *)
(* service that exists.                                                    *)
(***************************************************************************)
THEOREM TypeCorrect == Spec => [](TypeOK /\ PassHasService)
<1>1. Spec => []TypeInv
  BY TypeInit, TypeNext, PTL DEF Spec
<1>2. TypeInv => TypeOK /\ PassHasService
  BY DEF TypeInv
<1> QED BY <1>1, <1>2, PTL

-----------------------------------------------------------------------------
(***************************************************************************)
(* FinalizerFirst.  The cache and the running pass are older than the API  *)
(* server; what makes the property inductive is that a finalizer, once     *)
(* seen, is still there (or the resource is gone), and that whoever owns a *)
(* service was seen with it.                                               *)
(***************************************************************************)

Finalized(c) == obj[c] # Unborn /\ (obj[c] \in Obj => obj[c].fin)

CacheFollows ==
  \A c \in CR :
    /\ c \notin dirty => cache[c] = obj[c]
    /\ cache[c] \in Obj => obj[c] # Unborn
    /\ cache[c] \in Obj /\ cache[c].fin => Finalized(c)

RequestFollows ==
  \A c \in CR :
    req[c] # NoReq =>
      /\ obj[c] # Gone
      /\ obj[c] = Unborn => ~req[c].fin
      /\ obj[c] \in Obj => req[c].fin = obj[c].fin

PassFollows ==
  pass # NoPass =>
    /\ Finalized(pass.cr)
    /\ pass.fresh => obj[pass.cr] = pass.snap

OwnerFinalized ==
  \A i \in Id :
    remote[i] # NoSvc /\ remote[i].owner \in CR => Finalized(remote[i].owner)

FinInv == CacheFollows /\ RequestFollows /\ PassFollows /\ OwnerFinalized

LEMMA FinInit == Init => FinInv
  BY DEF Init, FinInv, CacheFollows, RequestFollows, PassFollows,
         OwnerFinalized, Svc

\* The running pass goes on for the same resource, or ends.
PassGoesOn ==
  pass' # NoPass =>
    /\ pass # NoPass /\ pass'.cr = pass.cr /\ pass'.snap = pass.snap
    /\ pass'.fresh => pass.fresh

\* Storing a version that keeps the finalizer, or removing the resource,
\* keeps the invariant.
LEMMA FinStore ==
  ASSUME TypeInv, FinInv, NEW c \in CR, NEW o \in Obj \union {Gone}, Store(c, o),
         UNCHANGED <<cache, remote>>, PassGoesOn,
         pass' # NoPass /\ pass'.cr = c => ~pass'.fresh,
         o \in Obj => obj[c] # Gone /\ (obj[c] \in Obj /\ obj[c].fin => o.fin)
  PROVE  FinInv'
<1> USE DEF TypeInv, TypeOK, FinInv, Finalized
<1>1. /\ obj' = [obj EXCEPT ![c] = o] /\ dirty' = dirty \union {c}
      /\ req' = [req EXCEPT ![c] = NoReq]
  BY DEF Store
<1>2. \A d \in CR : Finalized(d) => Finalized(d)'
  BY <1>1
<1>3. CacheFollows'
  BY <1>1, <1>2 DEF CacheFollows
<1>4. RequestFollows'
  BY <1>1 DEF RequestFollows
<1>5. PassFollows'
  <2> SUFFICES ASSUME pass' # NoPass
               PROVE  Finalized(pass.cr)' /\ (pass'.fresh => obj'[pass.cr] = pass.snap)
    BY DEF PassFollows, PassGoesOn
  <2>1. pass \in Pass /\ pass.cr \in CR /\ PassFollows /\ pass # NoPass
    BY DEF PassGoesOn, Pass
  <2>2. Finalized(pass.cr)'
    BY <1>2, <2>1 DEF PassFollows, PassGoesOn
  <2>3. ASSUME pass'.fresh PROVE obj'[pass.cr] = pass.snap
    BY <1>1, <2>1, <2>3 DEF PassFollows, PassGoesOn
  <2> QED BY <2>2, <2>3
<1>6. OwnerFinalized'
  BY <1>2 DEF OwnerFinalized
<1> QED BY <1>3, <1>4, <1>5, <1>6

\* Only the resource of the running pass becomes the owner of a service.
OwnersGrow ==
  \A i \in Id :
    remote'[i] # NoSvc =>
      \/ pass # NoPass /\ remote'[i].owner = pass.cr
      \/ \E j \in Id : remote[j] # NoSvc /\ remote'[i].owner = remote[j].owner

LEMMA FinRemote ==
  ASSUME TypeInv, FinInv, UNCHANGED <<obj, cache, dirty, req>>,
         PassGoesOn, OwnersGrow
  PROVE  FinInv'
<1> USE DEF TypeInv, TypeOK, FinInv, Finalized
<1>1. CacheFollows' /\ RequestFollows'
  BY DEF CacheFollows, RequestFollows
<1>2. PassFollows'
  BY DEF PassFollows, PassGoesOn
<1>3. OwnerFinalized'
  BY DEF OwnerFinalized, OwnersGrow, PassFollows
<1> QED BY <1>1, <1>2, <1>3

\* A pass ends, or goes on with a record that differs in its progress only.
LEMMA FinReply ==
  ASSUME TypeInv, NEW next \in Pass,
         next.cr = pass.cr, next.snap = pass.snap, next.fresh = pass.fresh,
         pass # NoPass, Reply(next) \/ Abort(next)
  PROVE  PassGoesOn
  BY DEF Reply, Abort, PassGoesOn

LEMMA FinUser ==
  ASSUME TypeInv, FinInv, NEW c \in CR, User(c)
  PROVE  FinInv'
<1> USE DEF TypeInv, TypeOK, FinInv
<1>1. ASSUME UNCHANGED <<obj, cache, dirty, pass, remote>>, RequestFollows'
      PROVE  FinInv'
  BY <1>1 DEF CacheFollows, PassFollows, OwnerFinalized, Finalized
<1>2. CASE ValidateCreate(c)
  <2> DEFINE new(i, v, p) == [id |-> i, cfg |-> v, policy |-> p, st |-> NoId,
                              fin |-> FALSE, deleting |-> FALSE]
  <2>1. PICK i \in Id, v \in Cfg, p \in Policy :
          req' = [req EXCEPT ![c] = new(i, v, p)]
    BY <1>2 DEF ValidateCreate
  <2>2. ~new(i, v, p).fin
    OBVIOUS
  <2> HIDE DEF new
  <2>3. obj[c] = Unborn /\ UNCHANGED obj
    BY <1>2 DEF ValidateCreate
  <2>4. RequestFollows'
    BY <2>1, <2>2, <2>3 DEF RequestFollows
  <2> QED BY <1>1, <1>2, <2>4 DEF ValidateCreate
<1>3. CASE ValidateUpdate(c)
  <2>1. PICK i \in Id, v \in Cfg, p \in Policy :
          req' = [req EXCEPT ![c] =
                    [obj[c] EXCEPT !.id = i, !.cfg = v, !.policy = p]]
    BY <1>3 DEF ValidateUpdate
  <2>2. obj[c] \in Obj /\ UNCHANGED <<obj, cache, dirty, pass, remote>>
    BY <1>3 DEF ValidateUpdate
  <2>3. [obj[c] EXCEPT !.id = i, !.cfg = v, !.policy = p].fin = obj[c].fin
    BY <2>2 DEF Obj
  <2>4. RequestFollows'
    BY <2>1, <2>2, <2>3 DEF RequestFollows
  <2> QED BY <1>1, <2>2, <2>4
<1>4. ASSUME NEW o \in Obj \union {Gone}, UserWrite(c, o),
             o \in Obj => obj[c] # Gone /\ (obj[c] \in Obj /\ obj[c].fin => o.fin)
      PROVE  FinInv'
  <2>1. PassGoesOn /\ (pass' # NoPass /\ pass'.cr = c => ~pass'.fresh)
    BY <1>4 DEF UserWrite, PassGoesOn, Pass
  <2> QED BY <1>4, <2>1, FinStore DEF UserWrite
<1>5. CASE Persist(c)
  BY <1>4, <1>5 DEF Persist, RequestFollows
<1>6. CASE UserDelete(c)
  <2>1. obj[c] \in Obj /\ [obj[c] EXCEPT !.deleting = TRUE] \in Obj
        /\ [obj[c] EXCEPT !.deleting = TRUE].fin = obj[c].fin
    BY <1>6 DEF UserDelete, Obj
  <2> QED BY <1>4, <1>6, <2>1 DEF UserDelete
<1> QED BY <1>2, <1>3, <1>5, <1>6 DEF User

LEMMA FinReconcile ==
  ASSUME TypeInv, FinInv, NEW c \in CR, CacheSync(c) \/ Reconcile(c)
  PROVE  FinInv'
<1> USE DEF TypeInv, TypeOK, FinInv
<1>1. CASE CacheSync(c)
  BY <1>1 DEF CacheSync, CacheFollows, RequestFollows, PassFollows,
              OwnerFinalized, Finalized
<1>2. ASSUME UNCHANGED <<obj, cache, dirty, req, pass, remote>>
      PROVE  FinInv'
  BY <1>2 DEF CacheFollows, RequestFollows, PassFollows, OwnerFinalized, Finalized
<1>3. CASE AddFinalizer(c)
  <2>1. [cache[c] EXCEPT !.fin = TRUE] \in Obj
        /\ [cache[c] EXCEPT !.fin = TRUE].fin
    BY <1>3 DEF AddFinalizer, Obj
  <2>2. obj[c] = cache[c] /\ pass' = NoPass
    BY <1>3 DEF AddFinalizer, CacheFollows, Take
  <2> QED BY <1>3, <2>1, <2>2, FinStore DEF AddFinalizer, PassGoesOn
<1>4. ASSUME NEW pc, NEW i, NEW todo, cache[c] \in Obj, cache[c].fin,
             Begin(c, pc, i, todo)
      PROVE  FinInv'
  <2>1. /\ pass'.cr = c /\ pass'.snap = cache[c] /\ pass'.fresh = (c \notin dirty)
        /\ UNCHANGED <<obj, cache, dirty, req, remote>>
    BY <1>4 DEF Begin, k8s
  <2>2. CacheFollows' /\ RequestFollows' /\ OwnerFinalized'
    BY <2>1 DEF CacheFollows, RequestFollows, OwnerFinalized, Finalized
  <2>3. PassFollows'
    BY <1>4, <2>1 DEF CacheFollows, PassFollows, Finalized
  <2> QED BY <2>2, <2>3
<1>5. CASE ReconcileDelete(c)
  BY <1>4, <1>5 DEF ReconcileDelete
<1>6. CASE ReconcileCreate(c)
  BY <1>4, <1>6 DEF ReconcileCreate
<1>7. CASE ReconcileUpdate(c)
  BY <1>4, <1>7 DEF ReconcileUpdate
<1>8. CASE ReconcileAbsent(c) \/ ReconcileNoDiff(c)
  BY <1>2, <1>8 DEF ReconcileAbsent, ReconcileNoDiff, k8s
<1> QED BY <1>1, <1>3, <1>5, <1>6, <1>7, <1>8 DEF Reconcile

\* What every call of a pass that stores nothing in the API server has in common.
LEMMA WorkFrame ==
  ASSUME TypeInv, Work, ~WriteStatus, ~RemoveFinalizer
  PROVE  PassGoesOn /\ OwnersGrow /\ UNCHANGED <<obj, cache, dirty, req>>
<1> USE DEF TypeInv, TypeOK, k8s
<1>0. pass \in Pass /\ pass # NoPass /\ pass.at \in Id
  BY DEF Pass, Work, SkipCall, CreateSkipped, CreateAdd, CreateFill, UpdateSkipped,
         UpdateSetCfg, UpdateRename, UpdateSetHost, InUpdate, DeleteRemote,
         DeleteSkipped
<1>1. ASSUME NEW next \in Pass, Reply(next) \/ Abort(next),
             next.cr = pass.cr, next.snap = pass.snap, next.fresh = pass.fresh
      PROVE  PassGoesOn
  BY <1>0, <1>1, FinReply
<1>2. ASSUME Abort(pass)
      PROVE  PassGoesOn
  BY <1>2 DEF Abort, PassGoesOn
<1>3. ASSUME NEW pc, NEW flag, NEW next \in {"status", "release"},
             SkipCall(pc, flag, next)
      PROVE  PassGoesOn /\ OwnersGrow
  BY <1>0, <1>3 DEF SkipCall, PassGoesOn, OwnersGrow, Pass
<1>4. CASE CreateSkipped \/ UpdateSkipped \/ DeleteSkipped
  BY <1>3, <1>4 DEF CreateSkipped, UpdateSkipped, DeleteSkipped, SkipCall
<1>5. CASE CreateAdd
  <2> DEFINE next == [pass EXCEPT !.pc = "fill", !.moved = TRUE]
  <2>1. next \in Pass /\ next.cr = pass.cr /\ next.snap = pass.snap
        /\ next.fresh = pass.fresh
    BY <1>0 DEF Pass
  <2>2. PassGoesOn
    BY <1>1, <1>2, <1>5, <2>1 DEF CreateAdd
  <2>3. OwnersGrow
    BY <1>0, <1>5 DEF CreateAdd, OwnersGrow
  <2> QED BY <1>5, <2>2, <2>3 DEF CreateAdd
<1>6. CASE CreateFill
  <2> DEFINE next == [pass EXCEPT !.pc = "status"]
  <2>1. next \in Pass /\ next.cr = pass.cr /\ next.snap = pass.snap
        /\ next.fresh = pass.fresh
    BY <1>0 DEF Pass
  <2>2. PassGoesOn
    BY <1>1, <1>6, <2>1 DEF CreateFill
  <2>3. remote[pass.at] \in Svc
    BY <1>0, <1>6 DEF CreateFill, PassHasService
  <2>4. OwnersGrow
    BY <1>0, <1>6, <2>3 DEF CreateFill, OwnersGrow, Svc
  <2> QED BY <1>6, <2>2, <2>4 DEF CreateFill
<1>7. ASSUME NEW f \in Field, NEW i \in Id
      PROVE  /\ Done(f, i) \in Pass /\ Done(f, i).cr = pass.cr
             /\ Done(f, i).snap = pass.snap /\ Done(f, i).fresh = pass.fresh
  BY <1>0 DEF Done, Pass
<1>8. CASE UpdateSetCfg
  <2>1. PassGoesOn
    BY <1>0, <1>1, <1>7, <1>8 DEF UpdateSetCfg, Field
  <2>2. OwnersGrow
    BY <1>0, <1>8 DEF UpdateSetCfg, OwnersGrow
  <2> QED BY <1>8, <2>1, <2>2 DEF UpdateSetCfg
<1>9. ASSUME NEW f \in Field, NEW to \in Id, InUpdate(f), Move(f, to)
      PROVE  PassGoesOn /\ OwnersGrow /\ UNCHANGED <<obj, cache, dirty, req>>
  <2>1. PassGoesOn
    BY <1>1, <1>2, <1>7, <1>9 DEF Move
  <2>2. remote[pass.at] \in Svc
    BY <1>9 DEF InUpdate, PassHasService
  <2> DEFINE moved == [remote[pass.at] EXCEPT !.owner = pass.cr]
  <2>3. moved.owner = pass.cr
    BY <2>2 DEF Svc
  <2>4. OwnersGrow
    <3>1. \/ remote' = [remote EXCEPT ![to] = moved, ![pass.at] = NoSvc]
          \/ remote' = remote
      BY <1>9 DEF Move
    <3> HIDE DEF moved
    <3> QED BY <1>0, <2>3, <3>1 DEF OwnersGrow
  <2> QED BY <1>9, <2>1, <2>4 DEF Move
<1>10. CASE UpdateRename \/ UpdateSetHost
  <2>1. pass.snap.id \in Id
    BY <1>0 DEF Pass, Obj
  <2>2. /\ [pass.at EXCEPT !.name = pass.snap.id.name] \in Id
        /\ [pass.at EXCEPT !.host = pass.snap.id.host] \in Id
    BY <1>0, <2>1 DEF Id
  <2> QED BY <1>9, <1>10, <2>2 DEF UpdateRename, UpdateSetHost, Field
<1>11. CASE DeleteRemote
  <2> DEFINE next == [pass EXCEPT !.pc = "release"]
  <2>1. next \in Pass /\ next.cr = pass.cr /\ next.snap = pass.snap
        /\ next.fresh = pass.fresh
    BY <1>0 DEF Pass
  <2>2. PassGoesOn
    BY <1>1, <1>11, <2>1 DEF DeleteRemote
  <2>3. OwnersGrow
    BY <1>11 DEF DeleteRemote, OwnersGrow
  <2> QED BY <1>11, <2>2, <2>3 DEF DeleteRemote
<1> QED BY <1>4, <1>5, <1>6, <1>8, <1>10, <1>11 DEF Work

LEMMA FinWork ==
  ASSUME TypeInv, FinInv, Work
  PROVE  FinInv'
<1> USE DEF TypeInv, TypeOK
<1>1. CASE ~WriteStatus /\ ~RemoveFinalizer
  BY <1>1, WorkFrame, FinRemote
<1>2. ASSUME WriteStatus \/ RemoveFinalizer
      PROVE  pass \in Pass /\ pass # NoPass /\ pass.cr \in CR
             /\ pass.snap \in Obj /\ pass.snap.id \in Id
  BY <1>2 DEF WriteStatus, Record, RemoveFinalizer, Pass, Obj
<1>3. ASSUME Abort(pass), UNCHANGED <<obj, cache, dirty, req, remote>>
      PROVE  FinInv'
  BY <1>3, FinRemote DEF Abort, PassGoesOn, OwnersGrow
<1>4. CASE WriteStatus
  <2>1. CASE pass.fresh
    <3> DEFINE o == [pass.snap EXCEPT !.st = pass.snap.id]
    <3>1. o \in Obj /\ o.fin = pass.snap.fin
      BY <1>2, <1>4 DEF Obj
    <3>2. obj[pass.cr] = pass.snap
      BY <1>2, <1>4, <2>1 DEF FinInv, PassFollows
    <3>3. Store(pass.cr, o) /\ pass' = NoPass /\ UNCHANGED <<cache, remote>>
      BY <1>4, <2>1 DEF WriteStatus, Record
    <3>4. PassGoesOn
      BY <3>3 DEF PassGoesOn
    <3>5. pass.snap # Gone
      BY <1>2, <1>4
    <3> HIDE DEF o
    <3> QED BY <1>2, <1>4, <3>1, <3>2, <3>3, <3>4, <3>5, FinStore
  <2>2. CASE ~pass.fresh
    BY <1>3, <1>4, <2>2 DEF WriteStatus, Record
  <2> QED BY <2>1, <2>2
<1>5. CASE RemoveFinalizer
  <2>1. CASE pass.fresh /\ validateResourceUnicity(pass.cr, pass.snap.id)
    BY <1>2, <1>5, <2>1, FinStore DEF RemoveFinalizer, PassGoesOn
  <2>2. CASE ~(pass.fresh /\ validateResourceUnicity(pass.cr, pass.snap.id))
    BY <1>3, <1>5, <2>2 DEF RemoveFinalizer
  <2> QED BY <2>1, <2>2
<1> QED BY <1>1, <1>4, <1>5

LEMMA FinFault ==
  ASSUME TypeInv, FinInv, CallFails \/ Restart
  PROVE  FinInv'
<1>1. CASE CallFails
  BY <1>1, FinRemote DEF CallFails, Abort, PassGoesOn, OwnersGrow, k8s
<1>2. CASE Restart
  BY <1>2 DEF Restart, TypeInv, TypeOK, FinInv, CacheFollows, RequestFollows,
              PassFollows, OwnerFinalized, Finalized
<1> QED BY <1>1, <1>2

LEMMA FinStutter == FinInv /\ UNCHANGED vars => FinInv'
  BY DEF FinInv, CacheFollows, RequestFollows, PassFollows, OwnerFinalized,
         Finalized, vars

LEMMA FinNext == TypeInv /\ FinInv /\ [Next]_vars => FinInv'
  BY FinUser, FinReconcile, FinWork, FinFault, FinStutter DEF Next

(***************************************************************************)
(* Whatever fails and however stale the cache is, a resource that owns a   *)
(* service has the finalizer.                                              *)
(***************************************************************************)
THEOREM FinalizerTheorem == Spec => []FinalizerFirst
<1>1. Spec => [](TypeInv /\ FinInv)
  BY TypeInit, TypeNext, FinInit, FinNext, PTL DEF Spec
<1>2. FinInv => FinalizerFirst
  BY DEF FinInv, OwnerFinalized, Finalized, FinalizerFirst, Owned
<1> QED BY <1>1, <1>2, PTL

-----------------------------------------------------------------------------
(***************************************************************************)
(* FinalizedUnique, when specs keep their identity.  Two resources may be  *)
(* admitted with one identity, but the finalizer of the second is only     *)
(* added by an update that is validated against a cache that shows the     *)
(* first, because the worker itself read the first from that cache before  *)
(* it gave it its finalizer, and a cached resource keeps its identity.     *)
(***************************************************************************)

SameId ==
  \A c \in CR :
    obj[c] \in Obj =>
      /\ cache[c] \in Obj => cache[c].id = obj[c].id
      /\ req[c] # NoReq => req[c].id = obj[c].id
      /\ obj[c].fin => cache[c] \in Obj

IdInv == SameId /\ FinalizedUnique

LEMMA IdInit == Init => IdInv
  BY DEF Init, IdInv, SameId, FinalizedUnique

\* A stored version with the identity and the finalizer of the one before it.
LEMMA IdStore ==
  ASSUME TypeInv, FinInv, IdInv, NEW c \in CR, NEW o \in Obj \union {Gone},
         Store(c, o), UNCHANGED cache,
         o \in Obj => /\ obj[c] # Gone
                      /\ obj[c] \in Obj => o.id = obj[c].id
                      /\ o.fin => obj[c] \in Obj /\ obj[c].fin
  PROVE  IdInv'
<1> USE DEF TypeInv, TypeOK, Store
<1>1. SameId'
  BY DEF IdInv, SameId, FinInv, CacheFollows
<1>2. FinalizedUnique'
  BY DEF IdInv, FinalizedUnique
<1> QED BY <1>1, <1>2 DEF IdInv

LEMMA IdStutter ==
  ASSUME IdInv, UNCHANGED <<obj, cache, req>>
  PROVE  IdInv'
  BY DEF IdInv, SameId, FinalizedUnique

LEMMA IdUser ==
  ASSUME ~MayRename, TypeInv, FinInv, IdInv, NEW c \in CR, User(c)
  PROVE  IdInv'
<1> USE DEF TypeInv, TypeOK
<1>1. CASE ValidateCreate(c)
  BY <1>1 DEF ValidateCreate, IdInv, SameId, FinalizedUnique
<1>2. CASE ValidateUpdate(c)
  <2>1. PICK i \in Id, v \in Cfg, p \in Policy :
          /\ i = obj[c].id
          /\ req' = [req EXCEPT ![c] =
                       [obj[c] EXCEPT !.id = i, !.cfg = v, !.policy = p]]
    BY <1>2 DEF ValidateUpdate
  <2>2. obj[c] \in Obj /\ UNCHANGED <<obj, cache>>
    BY <1>2 DEF ValidateUpdate
  <2>3. [obj[c] EXCEPT !.id = i, !.cfg = v, !.policy = p].id = obj[c].id
    BY <2>1, <2>2 DEF Obj
  <2> QED BY <2>1, <2>2, <2>3 DEF IdInv, SameId, FinalizedUnique
<1>3. CASE Persist(c)
  <2>1. /\ req[c] \in Obj /\ obj[c] # Gone
        /\ obj[c] \in Obj => req[c].id = obj[c].id
        /\ req[c].fin => obj[c] \in Obj /\ obj[c].fin
    BY <1>3 DEF Persist, FinInv, RequestFollows, IdInv, SameId
  <2>2. Store(c, req[c]) /\ UNCHANGED cache
    BY <1>3 DEF Persist, UserWrite
  <2> QED BY <2>1, <2>2, IdStore
<1>4. CASE UserDelete(c)
  <2> DEFINE o == [obj[c] EXCEPT !.deleting = TRUE]
  <2>1. obj[c] \in Obj /\ o \in Obj /\ o.id = obj[c].id /\ o.fin = obj[c].fin
    BY <1>4 DEF UserDelete, Obj
  <2>2. (Store(c, o) \/ Store(c, Gone)) /\ UNCHANGED cache
    BY <1>4 DEF UserDelete, UserWrite
  <2> HIDE DEF o
  <2> QED BY <2>1, <2>2, IdStore
<1> QED BY <1>1, <1>2, <1>3, <1>4 DEF User

LEMMA IdReconcile ==
  ASSUME TypeInv, FinInv, IdInv, NEW c \in CR, CacheSync(c) \/ Reconcile(c)
  PROVE  IdInv'
<1> USE DEF TypeInv, TypeOK
<1>1. CASE CacheSync(c)
  BY <1>1 DEF CacheSync, IdInv, SameId, FinalizedUnique
<1>2. CASE AddFinalizer(c)
  <2> DEFINE o == [cache[c] EXCEPT !.fin = TRUE]
  <2>1. cache[c] \in Obj /\ obj[c] = cache[c]
    BY <1>2 DEF AddFinalizer, FinInv, CacheFollows
  <2>2. o \in Obj /\ o.id = cache[c].id
    BY <2>1 DEF Obj
  <2>3. /\ obj' = [obj EXCEPT ![c] = o] /\ req' = [req EXCEPT ![c] = NoReq]
        /\ cache' = cache /\ validateResourceUnicity(c, cache[c].id)
    BY <1>2 DEF AddFinalizer, Store
  <2> HIDE DEF o
  <2>4. SameId'
    BY <2>1, <2>2, <2>3 DEF IdInv, SameId
  <2>5. \A d \in CR \ {c} : obj[d] \in Obj /\ obj[d].fin => obj[d].id # o.id
    BY <2>2, <2>3 DEF IdInv, SameId, validateResourceUnicity
  <2>6. FinalizedUnique'
    BY <2>2, <2>3, <2>5 DEF IdInv, FinalizedUnique
  <2> QED BY <2>4, <2>6 DEF IdInv
<1>3. CASE Reconcile(c) /\ ~AddFinalizer(c)
  BY <1>3, IdStutter DEF Reconcile, ReconcileAbsent, ReconcileDelete,
     ReconcileCreate, ReconcileUpdate, ReconcileNoDiff, Begin, k8s
<1> QED BY <1>1, <1>2, <1>3

LEMMA IdWork ==
  ASSUME TypeInv, FinInv, IdInv, Work
  PROVE  IdInv'
<1> USE DEF TypeInv, TypeOK
<1>1. CASE ~WriteStatus /\ ~RemoveFinalizer
  BY <1>1, WorkFrame, IdStutter
<1>2. ASSUME WriteStatus \/ RemoveFinalizer
      PROVE  pass \in Pass /\ pass # NoPass /\ pass.cr \in CR
             /\ pass.snap \in Obj /\ pass.snap.id \in Id
  BY <1>2 DEF WriteStatus, Record, RemoveFinalizer, Pass, Obj
<1>3. CASE WriteStatus
  <2> DEFINE o == [pass.snap EXCEPT !.st = pass.snap.id]
  <2>1. o \in Obj /\ o.fin = pass.snap.fin /\ o.id = pass.snap.id
    BY <1>2, <1>3 DEF Obj
  <2>2. CASE pass.fresh
    <3>1. obj[pass.cr] = pass.snap
      BY <1>2, <1>3, <2>2 DEF FinInv, PassFollows
    <3>2. Store(pass.cr, o) /\ UNCHANGED cache
      BY <1>3, <2>2 DEF WriteStatus, Record
    <3> HIDE DEF o
    <3> QED BY <1>2, <1>3, <2>1, <3>1, <3>2, IdStore
  <2>3. CASE ~pass.fresh
    BY <1>3, <2>3, IdStutter DEF WriteStatus, Record
  <2> QED BY <2>2, <2>3
<1>4. CASE RemoveFinalizer
  <2>1. CASE pass.fresh /\ validateResourceUnicity(pass.cr, pass.snap.id)
    BY <1>2, <1>4, <2>1, IdStore DEF RemoveFinalizer
  <2>2. CASE ~(pass.fresh /\ validateResourceUnicity(pass.cr, pass.snap.id))
    BY <1>4, <2>2, IdStutter DEF RemoveFinalizer
  <2> QED BY <2>1, <2>2
<1> QED BY <1>1, <1>3, <1>4

LEMMA IdNext ==
  ASSUME ~MayRename
  PROVE  TypeInv /\ FinInv /\ IdInv /\ [Next]_vars => IdInv'
<1> SUFFICES ASSUME TypeInv, FinInv, IdInv, [Next]_vars
             PROVE  IdInv'
  OBVIOUS
<1>1. CASE CallFails
  BY <1>1, IdStutter DEF CallFails, k8s
<1>2. CASE Restart
  BY <1>2 DEF Restart, IdInv, SameId, FinalizedUnique, TypeInv, TypeOK
<1>3. CASE UNCHANGED vars
  BY <1>3, IdStutter DEF vars
<1> QED BY <1>1, <1>2, <1>3, IdUser, IdReconcile, IdWork DEF Next

(***************************************************************************)
(* When specs keep their identity, no two finalized resources share one,   *)
(* however late the cache is.                                              *)
(***************************************************************************)
THEOREM UniqueTheorem ==
  ASSUME ~MayRename
  PROVE  Spec => []FinalizedUnique
<1>1. Spec => [](TypeInv /\ FinInv /\ IdInv)
  BY TypeInit, TypeNext, FinInit, FinNext, IdInit, IdNext, PTL DEF Spec
<1>2. IdInv => FinalizedUnique
  BY DEF IdInv
<1> QED BY <1>1, <1>2, PTL

-----------------------------------------------------------------------------
(***************************************************************************)
(* StatusTracksService and OneServicePerResource, with renames.  A pass    *)
(* that may write reads the status the server has: the queue only gets a   *)
(* key with the version that the cache received, or back from its own pass *)
(* (StatusSeen).  So a pass starts from the one service of its resource,   *)
(* and until it moved that service its failure costs nothing (Tracked).    *)
(***************************************************************************)

On(c) == pass # NoPass /\ pass.cr = c

\* The running pass creates or updates the service of c.
Active(c) == On(c) /\ pass.pc \notin {"delete", "release"}

StatusSeen ==
  \A c \in CR :
    (c \in queue \/ On(c)) /\ cache[c] \in Obj /\ cache[c].fin =>
      obj[c] \in Obj /\ obj[c].st = cache[c].st

ReqStatus ==
  \A c \in CR :
    /\ req[c] # NoReq /\ obj[c] \in Obj => req[c].st = obj[c].st
    /\ req[c] # NoReq /\ obj[c] = Unborn => req[c].st = NoId

PassSeen ==
  pass # NoPass =>
    /\ obj[pass.cr] \in Obj /\ obj[pass.cr].st = pass.snap.st
    /\ pass.fresh => pass.cr \notin dirty \union queue

Tracked ==
  \A c \in CR \ slip : \A i \in Owned(c) :
    /\ Owned(c) = {i}
    /\ obj[c] \in Obj \/ c \in left
    /\ On(c) /\ pass.pc = "release" => c \in left
    /\ Active(c) => pass.at = i
    /\ obj[c] \in Obj /\ (Active(c) => ~pass.moved) => obj[c].st = i

TrackInv == StatusSeen /\ ReqStatus /\ PassSeen /\ Tracked

LEMMA TrackInit == Init => TrackInv
<1> SUFFICES ASSUME Init PROVE TrackInv
  OBVIOUS
<1>1. \A c \in CR : Owned(c) = {}
  <2>1. \A i \in Id : remote[i] # NoSvc => remote[i].owner = Manual
    BY DEF Init
  <2> QED BY <2>1 DEF Owned
<1> QED BY <1>1 DEF Init, TrackInv, StatusSeen, ReqStatus, PassSeen, Tracked, On

\* A version is stored that keeps the status, by a user.
LEMMA TrackUserWrite ==
  ASSUME TypeInv, FinInv, TrackInv, NEW c \in CR, NEW o \in Obj \union {Gone},
         UserWrite(c, o),
         o = Gone => obj[c] \in Obj /\ ~obj[c].fin,
         o \in Obj /\ obj[c] \in Obj => o.st = obj[c].st,
         o \in Obj => obj[c] # Gone
  PROVE  TrackInv'
<1> USE DEF TypeInv, TypeOK
<1>1. /\ obj' = [obj EXCEPT ![c] = o] /\ dirty' = dirty \union {c}
      /\ req' = [req EXCEPT ![c] = NoReq]
      /\ UNCHANGED <<cache, queue, remote, slip, left>>
  BY DEF UserWrite, Store
<1>2. /\ pass' # NoPass <=> pass # NoPass
      /\ pass # NoPass => /\ pass'.cr = pass.cr /\ pass'.snap = pass.snap
                          /\ pass'.at = pass.at /\ pass'.moved = pass.moved
                          /\ pass'.pc = pass.pc
                          /\ pass'.fresh => pass.fresh /\ pass.cr # c
  <2>1. CASE pass # NoPass /\ pass.cr = c
    <3>1. pass \in Pass /\ pass' = [pass EXCEPT !.fresh = FALSE]
      BY <2>1 DEF UserWrite
    <3>2. pass' \in Pass
      BY <3>1 DEF Pass
    <3> QED BY <2>1, <3>1, <3>2 DEF Pass
  <2>2. CASE ~(pass # NoPass /\ pass.cr = c)
    BY <2>2 DEF UserWrite
  <2> QED BY <2>1, <2>2
<1>3. \A d \in CR : /\ (On(d)' <=> On(d)) /\ (Active(d)' <=> Active(d))
                     /\ Owned(d)' = Owned(d)
  <2>1. \A d \in CR : On(d)' <=> On(d)
    BY <1>2 DEF On
  <2>2. \A d \in CR : Active(d)' <=> Active(d)
    BY <1>2, <2>1 DEF Active, On
  <2> QED BY <1>1, <2>1, <2>2 DEF Owned
<1>4. obj[c] \in Obj /\ obj[c].fin => o \in Obj
  OBVIOUS
<1>5. StatusSeen'
  <2> SUFFICES ASSUME NEW d \in CR, d \in queue \/ On(d), cache[d] \in Obj, cache[d].fin
               PROVE  obj'[d] \in Obj /\ obj'[d].st = cache[d].st
    BY <1>1, <1>3 DEF StatusSeen
  <2>1. obj[d] \in Obj /\ obj[d].st = cache[d].st /\ obj[d].fin
    BY DEF TrackInv, StatusSeen, FinInv, CacheFollows, Finalized
  <2> QED BY <1>1, <1>4, <2>1
<1>6. ReqStatus'
  BY <1>1 DEF TrackInv, ReqStatus
<1>7. PassSeen'
  <2> SUFFICES ASSUME pass # NoPass
               PROVE  /\ obj'[pass.cr] \in Obj /\ obj'[pass.cr].st = pass.snap.st
                      /\ pass'.fresh => pass.cr \notin dirty' \union queue
    BY <1>1, <1>2 DEF PassSeen
  <2>1. /\ pass.cr \in CR /\ obj[pass.cr] \in Obj /\ obj[pass.cr].st = pass.snap.st
        /\ pass.fresh => pass.cr \notin dirty \union queue
    BY DEF TrackInv, PassSeen, Pass
  <2>2. obj[pass.cr].fin
    BY <2>1 DEF FinInv, PassFollows, Finalized
  <2> QED BY <1>1, <1>2, <1>4, <2>1, <2>2
<1>8. Tracked'
  <2> SUFFICES ASSUME NEW d \in CR \ slip, NEW i \in Owned(d)
               PROVE  /\ obj'[d] \in Obj \/ d \in left
                      /\ obj'[d] \in Obj /\ (Active(d) => ~pass.moved)
                           => obj'[d].st = i
    BY <1>1, <1>2, <1>3 DEF TrackInv, Tracked, On, Active
  <2>1. Finalized(d)
    BY DEF Owned, FinInv, OwnerFinalized
  <2>2. /\ obj[d] \in Obj \/ d \in left
        /\ obj[d] \in Obj /\ (Active(d) => ~pass.moved) => obj[d].st = i
    BY DEF TrackInv, Tracked
  <2> QED BY <1>1, <1>4, <2>1, <2>2 DEF Finalized
<1> QED BY <1>5, <1>6, <1>7, <1>8 DEF TrackInv

LEMMA TrackUser ==
  ASSUME TypeInv, FinInv, TrackInv, NEW c \in CR, User(c)
  PROVE  TrackInv'
<1> USE DEF TypeInv, TypeOK
<1>1. ASSUME UNCHANGED <<obj, cache, dirty, queue, pass, remote, slip, left>>, ReqStatus'
      PROVE  TrackInv'
  BY <1>1 DEF TrackInv, StatusSeen, PassSeen, Tracked, On, Active, Owned
<1>2. CASE ValidateCreate(c)
  <2> DEFINE new(i, v, p) == [id |-> i, cfg |-> v, policy |-> p, st |-> NoId,
                              fin |-> FALSE, deleting |-> FALSE]
  <2>1. PICK i \in Id, v \in Cfg, p \in Policy :
          req' = [req EXCEPT ![c] = new(i, v, p)]
    BY <1>2 DEF ValidateCreate
  <2>2. new(i, v, p).st = NoId
    OBVIOUS
  <2> HIDE DEF new
  <2>3. obj[c] = Unborn /\ UNCHANGED <<obj, cache, dirty, queue, pass, remote, slip, left>>
    BY <1>2 DEF ValidateCreate
  <2>4. ReqStatus'
    BY <2>1, <2>2, <2>3 DEF TrackInv, ReqStatus
  <2> QED BY <1>1, <2>3, <2>4
<1>3. CASE ValidateUpdate(c)
  <2> DEFINE new(i, v, p) == [obj[c] EXCEPT !.id = i, !.cfg = v, !.policy = p]
  <2>1. PICK i \in Id, v \in Cfg, p \in Policy :
          req' = [req EXCEPT ![c] = new(i, v, p)]
    BY <1>3 DEF ValidateUpdate
  <2>2. obj[c] \in Obj
        /\ UNCHANGED <<obj, cache, dirty, queue, pass, remote, slip, left>>
    BY <1>3 DEF ValidateUpdate
  <2>3. new(i, v, p).st = obj[c].st
    BY <2>2 DEF Obj
  <2> HIDE DEF new
  <2>4. ReqStatus'
    BY <2>1, <2>2, <2>3 DEF TrackInv, ReqStatus
  <2> QED BY <1>1, <2>2, <2>4
<1>4. CASE Persist(c)
  <2>1. req[c] \in Obj /\ obj[c] # Gone
        /\ (obj[c] \in Obj => req[c].st = obj[c].st)
    BY <1>4 DEF Persist, TrackInv, ReqStatus, FinInv, RequestFollows
  <2>2. UserWrite(c, req[c])
    BY <1>4 DEF Persist
  <2> QED BY <2>1, <2>2, TrackUserWrite
<1>5. CASE UserDelete(c)
  <2> DEFINE o == [obj[c] EXCEPT !.deleting = TRUE]
  <2>1. obj[c] \in Obj /\ o \in Obj /\ o.st = obj[c].st
    BY <1>5 DEF UserDelete, Obj
  <2>2. UserWrite(c, IF obj[c].fin THEN o ELSE Gone)
    BY <1>5 DEF UserDelete
  <2> HIDE DEF o
  <2> QED BY <2>1, <2>2, TrackUserWrite
<1> QED BY <1>2, <1>3, <1>4, <1>5 DEF User

\* The informer delivers; a pass begins with the status the server has, and
\* with the service the resource has.
LEMMA TrackReconcile ==
  ASSUME TypeInv, FinInv, TrackInv, NEW c \in CR, CacheSync(c) \/ Reconcile(c)
  PROVE  TrackInv'
<1> USE DEF TypeInv, TypeOK
<1>1. CASE CacheSync(c)
  <2>1. /\ c \in dirty
        /\ cache' = [cache EXCEPT ![c] = obj[c]] /\ dirty' = dirty \ {c}
        /\ queue' = queue \union {c}
        /\ UNCHANGED <<obj, req, pass, remote, slip, left>>
    BY <1>1 DEF CacheSync
  <2>2. StatusSeen'
    BY <2>1 DEF TrackInv, StatusSeen, On
  <2>3. PassSeen'
    BY <2>1 DEF TrackInv, PassSeen
  <2>4. ReqStatus' /\ Tracked'
    BY <2>1 DEF TrackInv, ReqStatus, Tracked, On, Active, Owned
  <2> QED BY <2>2, <2>3, <2>4 DEF TrackInv
<1>2. ASSUME queue' \subseteq queue,
             UNCHANGED <<obj, cache, dirty, req, pass, remote, slip, left>>
      PROVE  TrackInv'
  BY <1>2 DEF TrackInv, StatusSeen, ReqStatus, PassSeen, Tracked, On, Active, Owned
<1>3. CASE AddFinalizer(c)
  <2> DEFINE o == [cache[c] EXCEPT !.fin = TRUE]
  <2>1. cache[c] \in Obj /\ obj[c] = cache[c] /\ pass = NoPass
    BY <1>3 DEF AddFinalizer, Take, FinInv, CacheFollows
  <2>2. o \in Obj /\ o.st = obj[c].st
    BY <2>1 DEF Obj
  <2>3. /\ obj' = [obj EXCEPT ![c] = o] /\ req' = [req EXCEPT ![c] = NoReq]
        /\ queue' \subseteq queue /\ pass' = NoPass
        /\ UNCHANGED <<cache, remote, slip, left>>
    BY <1>3, <2>1 DEF AddFinalizer, Take, Store
  <2> HIDE DEF o
  <2>4. StatusSeen'
    BY <2>1, <2>2, <2>3 DEF TrackInv, StatusSeen, On
  <2>5. ReqStatus'
    BY <2>1, <2>2, <2>3 DEF TrackInv, ReqStatus
  <2>6. Tracked'
    BY <2>1, <2>2, <2>3 DEF TrackInv, Tracked, On, Active, Owned
  <2> QED BY <2>3, <2>4, <2>5, <2>6 DEF TrackInv, PassSeen
<1>4. ASSUME NEW pc, NEW i, NEW todo, cache[c] \in Obj, cache[c].fin,
             Take(c), Begin(c, pc, i, todo), pc # "release",
             pc # "delete" => \A j \in Owned(c) : obj[c].st = j => i = j
      PROVE  TrackInv'
  <2>1. /\ pass'.cr = c /\ pass'.snap = cache[c] /\ pass'.fresh = (c \notin dirty)
        /\ pass'.at = i /\ pass'.pc = pc /\ pass'.moved = FALSE
        /\ pass = NoPass /\ c \in queue /\ queue' = queue \ {c}
        /\ UNCHANGED <<obj, cache, dirty, req, remote, slip, left>>
    BY <1>4 DEF Begin, Take, k8s
  <2>2. obj[c] \in Obj /\ obj[c].st = cache[c].st
    BY <1>4, <2>1 DEF TrackInv, StatusSeen
  <2>3. StatusSeen'
    BY <2>1 DEF TrackInv, StatusSeen, On
  <2>4. ReqStatus'
    BY <2>1 DEF TrackInv, ReqStatus
  <2>5. PassSeen'
    BY <2>1, <2>2 DEF PassSeen
  <2>6. Tracked'
    <3> SUFFICES ASSUME NEW d \in CR \ slip, NEW j \in Owned(d)
                 PROVE  /\ Owned(d) = {j}
                        /\ obj[d] \in Obj \/ d \in left
                        /\ pass'.pc # "release"
                        /\ d = c /\ pc # "delete" => pass'.at = j
                        /\ obj[d] \in Obj => obj[d].st = j
      BY <2>1 DEF Tracked, Owned, On, Active
    <3>1. /\ Owned(d) = {j}
          /\ obj[d] \in Obj \/ d \in left
          /\ obj[d] \in Obj => obj[d].st = j
      BY <2>1 DEF TrackInv, Tracked, Active, On
    <3>2. ASSUME d = c, pc # "delete"
          PROVE  pass'.at = j
      BY <1>4, <2>1, <2>2, <3>1, <3>2
    <3>3. pass'.pc # "release"
      BY <1>4, <2>1
    <3> QED BY <3>1, <3>2, <3>3
  <2> QED BY <2>3, <2>4, <2>5, <2>6 DEF TrackInv
<1>5. ASSUME cache[c] \in Obj, cache[c].fin, Take(c)
      PROVE  obj[c].st = cache[c].st
  BY <1>5 DEF Take, TrackInv, StatusSeen
<1>6. CASE ReconcileDelete(c)
  BY <1>4, <1>6 DEF ReconcileDelete
<1>7. CASE ReconcileCreate(c)
  <2>1. \A j \in Owned(c) : obj[c].st # j
    BY <1>5, <1>7 DEF ReconcileCreate, Get, Owned
  <2> QED BY <1>4, <1>7, <2>1 DEF ReconcileCreate
<1>8. CASE ReconcileUpdate(c)
  <2>1. \A j \in Owned(c) : obj[c].st = j => Get(cache[c]) = j
    BY <1>5, <1>8, AbsentAssumption DEF ReconcileUpdate, Get, Owned
  <2> QED BY <1>4, <1>8, <2>1 DEF ReconcileUpdate
<1>9. CASE ReconcileAbsent(c) \/ ReconcileNoDiff(c)
  BY <1>2, <1>9 DEF ReconcileAbsent, ReconcileNoDiff, k8s, Take
<1> QED BY <1>1, <1>3, <1>6, <1>7, <1>8, <1>9 DEF Reconcile

\* The pass as one of its calls leaves it, if it goes on.
NextPass(next) ==
  /\ next \in Pass
  /\ next.cr = pass.cr /\ next.snap = pass.snap /\ next.fresh = pass.fresh

\* The pass creates or updates its service.
Writing(p) == p.pc \notin {"delete", "release"}

\* What a call has to leave of the services of its resource.
TracksNext(next) ==
  \A c \in CR : c = pass.cr /\ c \notin slip =>
    \A i \in Owned(c)' :
      /\ Owned(c)' = {i}
      /\ next.pc = "release" => c \in left'
      /\ Writing(next) => next.at = i
      /\ (Writing(next) => ~next.moved) => obj[c].st = i

\* A call of a pass that stores nothing in the API server: it is answered, or
\* it ends the pass.
LEMMA TrackCall ==
  ASSUME TypeInv, FinInv, TrackInv, pass # NoPass,
         UNCHANGED <<obj, cache, dirty, req>>, left \subseteq left',
         NEW next, NextPass(next), TracksNext(next),
         \/ pass' = next /\ UNCHANGED <<queue, slip>>
         \/ Abort(next),
         \A d \in CR : d # pass.cr => Owned(d)' \subseteq Owned(d)
  PROVE  TrackInv'
<1> USE DEF TypeInv, TypeOK
<1>1. /\ pass \in Pass /\ pass.cr \in CR /\ next \in Pass /\ next # NoPass
      /\ next.cr = pass.cr /\ next.snap = pass.snap /\ next.fresh = pass.fresh
  BY DEF NextPass, Pass
<1>2. /\ pass' = next \/ pass' = NoPass
      /\ queue' \subseteq queue \union {pass.cr} /\ slip \subseteq slip'
      /\ pass' = next => queue' = queue
      /\ pass' = NoPass /\ next.moved => pass.cr \in slip'
  BY <1>1 DEF Abort
<1>3. StatusSeen'
  BY <1>1, <1>2 DEF TrackInv, StatusSeen, On
<1>4. ReqStatus'
  BY DEF TrackInv, ReqStatus
<1>5. PassSeen'
  BY <1>1, <1>2 DEF TrackInv, PassSeen
<1>6. Tracked'
  <2> SUFFICES ASSUME NEW d \in CR, d \notin slip', NEW i \in Owned(d)'
               PROVE  /\ Owned(d)' = {i}
                      /\ obj[d] \in Obj \/ d \in left'
                      /\ On(d)' /\ pass'.pc = "release" => d \in left'
                      /\ Active(d)' => pass'.at = i
                      /\ obj[d] \in Obj /\ (Active(d)' => ~pass'.moved)
                           => obj[d].st = i
    BY <1>1 DEF Tracked
  <2>1. d \notin slip
    BY <1>2
  <2>2. CASE d = pass.cr
    <3>1. /\ Owned(d)' = {i}
          /\ next.pc = "release" => d \in left'
          /\ Writing(next) => next.at = i
          /\ (Writing(next) => ~next.moved) => obj[d].st = i
      BY <2>1, <2>2 DEF TracksNext
    <3>2. obj[d] \in Obj
      BY <2>2 DEF TrackInv, PassSeen
    <3>3. CASE pass' = next
      BY <1>1, <2>2, <3>1, <3>2, <3>3 DEF On, Active, Writing
    <3>4. CASE pass' = NoPass
      <4>1. ~next.moved
        BY <1>2, <2>2, <3>4
      <4>2. ~On(d)' /\ ~Active(d)'
        BY <3>4 DEF On, Active
      <4> QED BY <3>1, <3>2, <4>1, <4>2
    <3> QED BY <1>2, <3>3, <3>4
  <2>3. CASE d # pass.cr
    <3>1. ~On(d) /\ ~Active(d) /\ ~On(d)' /\ ~Active(d)'
      BY <1>1, <1>2, <2>3 DEF On, Active
    <3>2. i \in Owned(d)
      BY <2>3
    <3>3. Owned(d)' = {i}
      BY <2>1, <2>3, <3>2 DEF TrackInv, Tracked
    <3> QED BY <2>1, <3>1, <3>2, <3>3 DEF TrackInv, Tracked
  <2> QED BY <2>2, <2>3
<1> QED BY <1>3, <1>4, <1>5, <1>6 DEF TrackInv

\* The same, for a call that leaves every service where it is, with its owner.
LEMMA TrackStays ==
  ASSUME TypeInv, FinInv, TrackInv, pass # NoPass,
         UNCHANGED <<obj, cache, dirty, req>>, left \subseteq left',
         \A d \in CR : Owned(d)' = Owned(d),
         NEW next, NextPass(next), next.at = pass.at, next.moved = pass.moved,
         Writing(next) <=> Writing(pass),
         next.pc = "release" => pass.pc = "release" \/ pass.cr \in left',
         \/ pass' = next /\ UNCHANGED <<queue, slip>>
         \/ Abort(next)
  PROVE  TrackInv'
<1>1. TracksNext(next)
  <2> SUFFICES ASSUME NEW c \in CR, c = pass.cr, c \notin slip, NEW i \in Owned(c)
               PROVE  /\ Owned(c) = {i}
                      /\ next.pc = "release" => c \in left'
                      /\ Writing(next) => next.at = i
                      /\ (Writing(next) => ~next.moved) => obj[c].st = i
    BY DEF TracksNext
  <2>1. /\ Owned(c) = {i} /\ obj[c] \in Obj
        /\ pass.pc = "release" => c \in left
        /\ Writing(pass) => pass.at = i
        /\ (Writing(pass) => ~pass.moved) => obj[c].st = i
    BY DEF TrackInv, PassSeen, Tracked, On, Active, Writing
  <2> QED BY <2>1
<1>2. \A d \in CR : d # pass.cr => Owned(d)' \subseteq Owned(d)
  OBVIOUS
<1> QED BY <1>1, <1>2, TrackCall

\* However much of the described fields an update leaves, the service becomes the
\* resource's.
LEMMA SetCfgWrites ==
  ASSUME UpdateSetCfg, pass.cr \in CR, pass.snap \in Obj
  PROVE  \E svc \in Svc : /\ svc # NoSvc /\ svc.owner = pass.cr
                          /\ remote' = [remote EXCEPT ![pass.at] = svc]
<1>1. PICK v \in {pass.snap.cfg, Partly(pass.snap.cfg)} :
        remote' = [remote EXCEPT ![pass.at] = [cfg |-> v, owner |-> pass.cr]]
  BY DEF UpdateSetCfg
<1>2. [cfg |-> v, owner |-> pass.cr] \in Svc
  BY <1>1 DEF Svc, Obj
<1> QED BY <1>1, <1>2, AbsentAssumption

\* The calls after Add set what does not tell whose the service is.
LEMMA FillKeepsOwner ==
  ASSUME TypeInv, CreateFill
  PROVE  \A d \in CR : Owned(d)' = Owned(d)
<1> DEFINE svc == [remote[pass.at] EXCEPT !.cfg = pass.snap.cfg]
<1>1. pass.at \in Id /\ remote[pass.at] \in Svc /\ pass.snap.cfg \in Cfg
  BY DEF CreateFill, TypeInv, TypeOK, PassHasService, Pass, Obj
<1>2. svc \in Svc /\ svc.owner = remote[pass.at].owner
  BY <1>1 DEF Svc
<1>3. remote' = [remote EXCEPT ![pass.at] = svc]
  BY DEF CreateFill
<1> HIDE DEF svc
<1> QED BY <1>1, <1>2, <1>3 DEF Owned, TypeInv, TypeOK

LEMMA TrackMove ==
  ASSUME TypeInv, FinInv, TrackInv, NEW f \in Field, NEW to \in Id,
         InUpdate(f), Move(f, to)
  PROVE  TrackInv'
<1> USE DEF TypeInv, TypeOK, k8s
<1>1. /\ pass \in Pass /\ pass # NoPass /\ pass.at \in Id /\ pass.cr \in CR
      /\ pass.pc = "update" /\ remote[pass.at] \in Svc
      /\ UNCHANGED <<obj, cache, dirty, req, left>>
  BY DEF InUpdate, Move, PassHasService, Pass
<1>2. CASE remote[to] = NoSvc
  <2> DEFINE svc == [remote[pass.at] EXCEPT !.owner = pass.cr]
  <2> DEFINE next == Done(f, to)
  <2>1. svc \in Svc /\ svc # NoSvc /\ svc.owner = pass.cr /\ to # pass.at
    BY <1>1, <1>2 DEF Svc
  <2>2. remote' = [remote EXCEPT ![to] = svc, ![pass.at] = NoSvc]
    BY <1>2 DEF Move
  <2>3. /\ NextPass(next) /\ next.at = to /\ next.pc \in {"status", "update"}
        /\ next.moved = (pass.moved \/ to # pass.snap.st)
    BY <1>1 DEF NextPass, Done, Pass
  <2> HIDE DEF svc
  <2>4. \A d \in CR : d # pass.cr => Owned(d)' \subseteq Owned(d)
    BY <1>1, <2>1, <2>2 DEF Owned
  <2>5. TracksNext(next)
    <3> SUFFICES ASSUME NEW c \in CR, c = pass.cr, c \notin slip, NEW i \in Owned(c)'
                 PROVE  /\ Owned(c)' = {i} /\ i = to
                        /\ ~next.moved => obj[c].st = i
      BY <2>3 DEF TracksNext, Writing
    <3>1. \A j \in Owned(c) : j = pass.at
      BY <1>1 DEF TrackInv, Tracked, Active, On
    <3>2. Owned(c)' = {to}
      BY <1>1, <2>1, <2>2, <3>1 DEF Owned
    <3>3. obj[c].st = pass.snap.st
      BY <1>1 DEF TrackInv, PassSeen
    <3> QED BY <2>3, <3>2, <3>3
  <2>6. Reply(next)
    BY <1>2 DEF Move
  <2> HIDE DEF next
  <2> QED BY <1>1, <2>3, <2>4, <2>5, <2>6, TrackCall DEF Reply
<1>3. CASE remote[to] # NoSvc
  <2>1. Abort(pass) /\ UNCHANGED remote
    BY <1>3 DEF Move
  <2> QED BY <1>1, <2>1, TrackStays DEF NextPass, Owned
<1> QED BY <1>2, <1>3

\* A version is stored at the end of a pass.
LEMMA TrackEnd ==
  ASSUME TypeInv, FinInv, TrackInv, pass # NoPass, pass.fresh, pass' = NoPass,
         NEW o \in Obj \union {Gone}, Store(pass.cr, o),
         UNCHANGED <<cache, queue, remote, left>>, slip \subseteq slip',
         \A c \in CR : c = pass.cr /\ c \notin slip' =>
            \A i \in Owned(c) : IF o \in Obj THEN o.st = i ELSE c \in left
  PROVE  TrackInv'
<1> USE DEF TypeInv, TypeOK
<1>1. /\ pass.cr \in CR /\ obj[pass.cr] \in Obj /\ pass.cr \notin queue
      /\ obj' = [obj EXCEPT ![pass.cr] = o]
      /\ req' = [req EXCEPT ![pass.cr] = NoReq]
  BY DEF TrackInv, PassSeen, Pass, Store
<1>2. StatusSeen'
  BY <1>1 DEF TrackInv, StatusSeen, On
<1>3. ReqStatus'
  BY <1>1 DEF TrackInv, ReqStatus
<1>4. Tracked'
  <2> SUFFICES ASSUME NEW d \in CR, d \notin slip', NEW i \in Owned(d)
               PROVE  /\ Owned(d) = {i}
                      /\ obj'[d] \in Obj \/ d \in left
                      /\ obj'[d] \in Obj => obj'[d].st = i
    BY DEF Tracked, On, Active, Owned
  <2>1. d \notin slip /\ Owned(d) = {i}
    BY DEF TrackInv, Tracked
  <2>2. CASE d = pass.cr
    BY <1>1, <2>1, <2>2
  <2>3. CASE d # pass.cr
    <3>1. /\ obj[d] \in Obj \/ d \in left
          /\ obj[d] \in Obj => obj[d].st = i
      BY <2>1, <2>3 DEF TrackInv, Tracked, Active, On
    <3> QED BY <1>1, <2>1, <2>3, <3>1
  <2> QED BY <2>2, <2>3
<1> QED BY <1>2, <1>3, <1>4 DEF TrackInv, PassSeen

LEMMA TrackWork ==
  ASSUME TypeInv, FinInv, TrackInv, Work
  PROVE  TrackInv'
<1> USE DEF TypeInv, TypeOK, k8s
<1>0. /\ pass \in Pass /\ pass # NoPass /\ pass.at \in Id /\ pass.cr \in CR
      /\ pass.snap \in Obj /\ pass.snap.id \in Id
  BY DEF Pass, Obj, Work, SkipCall, CreateSkipped, CreateAdd, CreateFill,
         UpdateSkipped, UpdateSetCfg, UpdateRename, UpdateSetHost, InUpdate,
         WriteStatus, Record, DeleteRemote, DeleteSkipped, RemoveFinalizer
<1>1. ASSUME Abort(pass), UNCHANGED <<obj, cache, dirty, req, remote, left>>
      PROVE  TrackInv'
  BY <1>0, <1>1, TrackStays DEF NextPass, Owned
<1>2. ASSUME NEW pc \in {"status", "release"}, NEW flag,
             Writing(pass) <=> pc = "status",
             SkipCall(pass.pc, flag, pc), left \subseteq left',
             pc = "release" => pass.cr \in left'
      PROVE  TrackInv'
  <2> DEFINE next == [pass EXCEPT !.pc = pc]
  <2>1. /\ NextPass(next) /\ next.at = pass.at /\ next.moved = pass.moved
        /\ next.pc = pc
    BY <1>0 DEF NextPass, Pass
  <2>2. pass' = next /\ UNCHANGED <<queue, slip, obj, cache, dirty, req, remote>>
    BY <1>2 DEF SkipCall
  <2> HIDE DEF next
  <2> QED BY <1>0, <1>2, <2>1, <2>2, TrackStays DEF Owned, Writing
<1>3. CASE CreateSkipped
  BY <1>2, <1>3 DEF CreateSkipped, SkipCall, Writing
<1>4. CASE UpdateSkipped
  BY <1>2, <1>4 DEF UpdateSkipped, SkipCall, Writing
<1>5. CASE DeleteSkipped
  BY <1>2, <1>5 DEF DeleteSkipped, SkipCall, Writing
<1>6. CASE CreateAdd
  <2>1. CASE remote[pass.at] = NoSvc
    <3> DEFINE svc == [cfg |-> Bare, owner |-> pass.cr]
    <3> DEFINE next == [pass EXCEPT !.pc = "fill", !.moved = TRUE]
    <3>1. svc \in Svc /\ svc # NoSvc /\ svc.owner = pass.cr
      BY <1>0 DEF Svc
    <3>2. /\ remote' = [remote EXCEPT ![pass.at] = svc] /\ Reply(next)
          /\ UNCHANGED <<obj, cache, dirty, req, left>> /\ pass.pc = "create"
      BY <1>6, <2>1 DEF CreateAdd
    <3>3. NextPass(next) /\ next.at = pass.at /\ next.pc = "fill" /\ next.moved
      BY <1>0 DEF NextPass, Pass
    <3> HIDE DEF svc, next
    <3>4. \A d \in CR : d # pass.cr => Owned(d)' \subseteq Owned(d)
      BY <1>0, <3>1, <3>2 DEF Owned
    <3>5. ASSUME NEW c \in CR, c = pass.cr, c \notin slip
          PROVE  Owned(c)' = {pass.at}
      <4>1. \A i \in Owned(c) : i = pass.at
        BY <1>0, <3>2, <3>5 DEF TrackInv, Tracked, Active, On
      <4> QED BY <1>0, <3>1, <3>2, <3>5, <4>1 DEF Owned
    <3>6. TracksNext(next)
      BY <3>3, <3>5 DEF TracksNext, Writing
    <3> QED BY <1>0, <3>2, <3>3, <3>4, <3>6, TrackCall DEF Reply
  <2>2. CASE remote[pass.at] # NoSvc
    BY <1>1, <1>6, <2>2 DEF CreateAdd
  <2> QED BY <2>1, <2>2
<1>7. CASE CreateFill
  <2> DEFINE next == [pass EXCEPT !.pc = "status"]
  <2>1. /\ NextPass(next) /\ next.at = pass.at /\ next.moved = pass.moved
        /\ next.pc = "status"
    BY <1>0 DEF NextPass, Pass
  <2>2. /\ remote' = [remote EXCEPT ![pass.at].cfg = pass.snap.cfg] /\ Reply(next)
        /\ UNCHANGED <<obj, cache, dirty, req, left>> /\ pass.pc = "fill"
    BY <1>7 DEF CreateFill
  <2>3. \A d \in CR : Owned(d)' = Owned(d)
    BY <1>7, FillKeepsOwner
  <2> HIDE DEF next
  <2> QED BY <1>0, <2>1, <2>2, <2>3, TrackStays DEF Reply, Writing
<1>8. CASE UpdateSetCfg
  <2> DEFINE next == Done("cfg", pass.at)
  <2>1. PICK svc \in Svc : /\ svc # NoSvc /\ svc.owner = pass.cr
                           /\ remote' = [remote EXCEPT ![pass.at] = svc]
    BY <1>0, <1>8, SetCfgWrites
  <2>2. /\ remote' = [remote EXCEPT ![pass.at] = svc] /\ Reply(next)
        /\ UNCHANGED <<obj, cache, dirty, req, left>> /\ pass.pc = "update"
    BY <1>8, <2>1 DEF UpdateSetCfg, InUpdate
  <2>3. /\ NextPass(next) /\ next.at = pass.at /\ next.pc \in {"status", "update"}
        /\ ~next.moved => pass.at = pass.snap.st
    BY <1>0 DEF NextPass, Done, Pass
  <2> HIDE DEF next
  <2>4. \A d \in CR : d # pass.cr => Owned(d)' \subseteq Owned(d)
    BY <1>0, <2>1, <2>2 DEF Owned
  <2>5. ASSUME NEW c \in CR, c = pass.cr, c \notin slip
        PROVE  Owned(c)' = {pass.at} /\ obj[c].st = pass.snap.st
    <3>1. \A i \in Owned(c) : i = pass.at
      BY <1>0, <2>2, <2>5 DEF TrackInv, Tracked, Active, On
    <3>2. obj[c].st = pass.snap.st
      BY <1>0, <2>5 DEF TrackInv, PassSeen
    <3> QED BY <1>0, <2>1, <2>2, <2>5, <3>1, <3>2 DEF Owned
  <2>6. TracksNext(next)
    BY <2>3, <2>5 DEF TracksNext, Writing
  <2> QED BY <1>0, <2>2, <2>3, <2>4, <2>6, TrackCall DEF Reply
<1>9. CASE UpdateRename \/ UpdateSetHost
  <2>1. /\ [pass.at EXCEPT !.name = pass.snap.id.name] \in Id
        /\ [pass.at EXCEPT !.host = pass.snap.id.host] \in Id
    BY <1>0 DEF Id
  <2> QED BY <1>9, <2>1, TrackMove DEF UpdateRename, UpdateSetHost, Field
<1>10. CASE WriteStatus
  <2>1. CASE pass.fresh
    <3> DEFINE o == [pass.snap EXCEPT !.st = pass.snap.id]
    <3>1. o \in Obj /\ o.st = pass.snap.id
      BY <1>0 DEF Obj
    <3>2. /\ Store(pass.cr, o) /\ pass' = NoPass /\ pass.pc = "status"
          /\ slip' = IF pass.at # pass.snap.id THEN slip \union {pass.cr} ELSE slip
          /\ UNCHANGED <<cache, queue, remote, left>>
      BY <1>10, <2>1 DEF WriteStatus, Record
    <3> HIDE DEF o
    <3>3. ASSUME NEW c \in CR, c = pass.cr, c \notin slip', NEW i \in Owned(c)
          PROVE  o.st = i
      BY <1>0, <3>1, <3>2, <3>3 DEF TrackInv, Tracked, Active, On
    <3> QED BY <1>0, <2>1, <3>1, <3>2, <3>3, TrackEnd
  <2>2. CASE ~pass.fresh
    BY <1>1, <1>10, <2>2 DEF WriteStatus, Record
  <2> QED BY <2>1, <2>2
<1>11. CASE DeleteRemote
  <2> DEFINE next == [pass EXCEPT !.pc = "release"]
  <2>1. NextPass(next) /\ next.pc = "release"
    BY <1>0 DEF NextPass, Pass
  <2>2. /\ remote' = [remote EXCEPT ![pass.snap.id] = NoSvc] /\ Reply(next)
        /\ left' = IF pass.snap.st \in {NoId, pass.snap.id} THEN left
                   ELSE left \union {pass.cr}
        /\ UNCHANGED <<obj, cache, dirty, req>> /\ pass.pc = "delete"
    BY <1>11 DEF DeleteRemote
  <2> HIDE DEF next
  <2>3. \A d \in CR : Owned(d)' = Owned(d) \ {pass.snap.id}
    BY <1>0, <2>2 DEF Owned
  <2>4. TracksNext(next)
    <3> SUFFICES ASSUME NEW c \in CR, c = pass.cr, c \notin slip, NEW i \in Owned(c)'
                 PROVE  Owned(c)' = {i} /\ c \in left' /\ obj[c].st = i
      BY <2>1 DEF TracksNext, Writing
    <3>1. i \in Owned(c) /\ i # pass.snap.id
      BY <2>3
    <3>2. Owned(c) = {i} /\ obj[c].st = i /\ pass.snap.st = i /\ i \in Id
      BY <1>0, <2>2, <3>1 DEF TrackInv, Tracked, PassSeen, Active, On, Owned
    <3>3. c \in left'
      BY <2>2, <3>1, <3>2
    <3>4. Owned(c)' = {i}
      BY <2>3, <3>1, <3>2
    <3> QED BY <3>2, <3>3, <3>4
  <2>5. left \subseteq left'
    BY <2>2
  <2>6. \A d \in CR : d # pass.cr => Owned(d)' \subseteq Owned(d)
    BY <2>3
  <2> QED BY <1>0, <2>1, <2>2, <2>4, <2>5, <2>6, TrackCall DEF Reply
<1>12. CASE RemoveFinalizer
  <2>1. CASE pass.fresh /\ validateResourceUnicity(pass.cr, pass.snap.id)
    <3>1. /\ Store(pass.cr, Gone) /\ pass' = NoPass /\ pass.pc = "release"
          /\ UNCHANGED <<cache, queue, remote, slip, left>>
      BY <1>12, <2>1 DEF RemoveFinalizer
    <3>2. \A c \in CR : c = pass.cr /\ c \notin slip' =>
            \A i \in Owned(c) : c \in left
      BY <1>0, <3>1 DEF TrackInv, Tracked, On
    <3> QED BY <1>0, <2>1, <3>1, <3>2, TrackEnd
  <2>2. CASE ~(pass.fresh /\ validateResourceUnicity(pass.cr, pass.snap.id))
    BY <1>1, <1>12, <2>2 DEF RemoveFinalizer
  <2> QED BY <2>1, <2>2
<1> QED BY <1>3, <1>4, <1>5, <1>6, <1>7, <1>8, <1>9, <1>10, <1>11, <1>12 DEF Work

LEMMA TrackNext == TypeInv /\ FinInv /\ TrackInv /\ [Next]_vars => TrackInv'
<1> SUFFICES ASSUME TypeInv, FinInv, TrackInv, [Next]_vars
             PROVE  TrackInv'
  OBVIOUS
<1>1. CASE CallFails
  BY <1>1, TrackStays DEF CallFails, k8s, NextPass, Owned, TypeInv, TypeOK
<1>2. CASE Restart
  <2>1. StatusSeen' /\ ReqStatus' /\ PassSeen'
    BY <1>2 DEF Restart, TypeInv, TypeOK, TrackInv, StatusSeen, ReqStatus, PassSeen, On
  <2>2. Tracked'
    BY <1>2 DEF Restart, TrackInv, Tracked, On, Active, Owned
  <2> QED BY <2>1, <2>2 DEF TrackInv
<1>3. CASE UNCHANGED vars
  BY <1>3 DEF vars, TrackInv, StatusSeen, ReqStatus, PassSeen, Tracked, On, Active, Owned
<1> QED BY <1>1, <1>2, <1>3, TrackUser, TrackReconcile, TrackWork DEF Next

LEMMA TrackAlways == Spec => [](TypeInv /\ FinInv /\ TrackInv)
  BY TypeInit, TypeNext, FinInit, FinNext, TrackInit, TrackNext, PTL DEF Spec

(***************************************************************************)
(* However specs are renamed and whatever is cut, every service a resource *)
(* wrote is the one its status names or the one the running pass works on, *)
(* unless the pass was cut after a move or the policy skipped the move.    *)
(***************************************************************************)
THEOREM StatusTheorem == Spec => []StatusTracksService
<1>1. TrackInv => StatusTracksService
  BY DEF TrackInv, Tracked, StatusTracksService, Active, On
<1> QED BY <1>1, TrackAlways, PTL

(***************************************************************************)
(* The same resources own one service at most: a rename moves the service  *)
(* it finds by the status, and never creates a second one.                 *)
(***************************************************************************)
THEOREM OneServiceTheorem == Spec => []OneServicePerResource
<1>1. TrackInv => OneServicePerResource
  <2> SUFFICES ASSUME TrackInv, NEW c \in CR \ slip
               PROVE  Cardinality(Owned(c)) <= 1
    BY DEF OneServicePerResource
  <2>1. CASE Owned(c) = {}
    BY <2>1, FS_EmptySet
  <2>2. CASE Owned(c) # {}
    <3>1. PICK i \in Owned(c) : Owned(c) = {i}
      BY <2>2 DEF TrackInv, Tracked
    <3>2. Cardinality({i}) = 1
      BY FS_Singleton
    <3> QED BY <3>1, <3>2
  <2> QED BY <2>1, <2>2
<1> QED BY <1>1, TrackAlways, PTL

-----------------------------------------------------------------------------
(***************************************************************************)
(* The promise of RemoteObject.  With renames, a resource that loses its   *)
(* finalizer still owns a service only if it was left behind or slipped    *)
(* (Tracked).  When specs keep their identity slips do not count: a        *)
(* resource then owns nothing but the service of its spec, which every     *)
(* pass works on and a deletion removes, even when the status is empty     *)
(* because the pass that added the service was cut (FixedInv).             *)
(***************************************************************************)

HomeOwned ==
  \A c \in CR :
    /\ obj[c] \in Obj => /\ obj[c].st \in {NoId, obj[c].id}
                         /\ Owned(c) \subseteq {obj[c].id}
    /\ Owned(c) # {} => obj[c] \in Obj \/ c \in left

PassHome ==
  pass # NoPass =>
    /\ pass.snap.id = obj[pass.cr].id /\ pass.at = pass.snap.id
    /\ pass.todo \subseteq {"cfg"}
    /\ pass.pc = "release" => Owned(pass.cr) = {} \/ pass.cr \in left

FixedInv == HomeOwned /\ PassHome

LEMMA FixedInit == Init => FixedInv
<1> SUFFICES ASSUME Init PROVE FixedInv
  OBVIOUS
<1>1. \A i \in Id : remote[i] # NoSvc => remote[i].owner = Manual
  BY DEF Init
<1>2. \A c \in CR : Owned(c) = {}
  BY <1>1 DEF Owned
<1> QED BY <1>2 DEF Init, FixedInv, HomeOwned, PassHome

\* A version with the same identity is stored, and the pass goes on if it runs.
LEMMA FixedStore ==
  ASSUME TypeInv, FinInv, TrackInv, FixedInv, NEW c \in CR,
         NEW o \in Obj \union {Gone},
         obj' = [obj EXCEPT ![c] = o], UNCHANGED <<remote, left>>,
         o \in Obj => /\ obj[c] # Gone /\ o.st \in {NoId, o.id}
                      /\ obj[c] \in Obj => o.id = obj[c].id,
         o = Gone => Owned(c) = {} \/ c \in left,
         pass' # NoPass =>
           /\ pass # NoPass /\ pass'.cr = pass.cr /\ pass'.snap = pass.snap
           /\ pass'.at = pass.at /\ pass'.todo = pass.todo /\ pass'.pc = pass.pc
           /\ pass.cr = c => o \in Obj
  PROVE  FixedInv'
<1> USE DEF TypeInv, TypeOK
<1>1. \A d \in CR : Owned(d)' = Owned(d)
  BY DEF Owned
<1>2. obj[c] = Unborn => Owned(c) = {}
  BY DEF FinInv, OwnerFinalized, Finalized, Owned
<1>3. HomeOwned'
  BY <1>1, <1>2 DEF FixedInv, HomeOwned
<1>4. PassHome'
  <2> SUFFICES ASSUME pass' # NoPass
               PROVE  /\ pass.snap.id = obj'[pass.cr].id /\ pass.at = pass.snap.id
                      /\ pass.todo \subseteq {"cfg"}
                      /\ pass.pc = "release" => Owned(pass.cr) = {} \/ pass.cr \in left
    BY DEF PassHome, Owned
  <2>1. /\ pass.cr \in CR /\ obj[pass.cr] \in Obj
        /\ pass.snap.id = obj[pass.cr].id /\ pass.at = pass.snap.id
        /\ pass.todo \subseteq {"cfg"}
        /\ pass.pc = "release" => Owned(pass.cr) = {} \/ pass.cr \in left
    BY DEF FixedInv, PassHome, TrackInv, PassSeen, Pass
  <2> QED BY <2>1
<1> QED BY <1>3, <1>4 DEF FixedInv

LEMMA FixedUser ==
  ASSUME TypeInv, FinInv, IdInv, TrackInv, FixedInv, NEW c \in CR, User(c)
  PROVE  FixedInv'
<1> USE DEF TypeInv, TypeOK
<1>1. CASE ValidateCreate(c) \/ ValidateUpdate(c)
  <2>1. UNCHANGED <<obj, pass, remote, left>>
    BY <1>1 DEF ValidateCreate, ValidateUpdate
  <2> QED BY <2>1 DEF FixedInv, HomeOwned, PassHome, Owned
<1>2. ASSUME UserWrite(c, Gone) \/ \E o \in Obj : UserWrite(c, o)
      PROVE  pass' # NoPass =>
               /\ pass # NoPass /\ pass'.cr = pass.cr /\ pass'.snap = pass.snap
               /\ pass'.at = pass.at /\ pass'.todo = pass.todo /\ pass'.pc = pass.pc
  BY <1>2 DEF UserWrite, Pass
<1>3. CASE Persist(c)
  <2>1. /\ req[c] \in Obj /\ obj[c] # Gone /\ UserWrite(c, req[c])
        /\ obj[c] \in Obj => req[c].id = obj[c].id /\ req[c].st = obj[c].st
        /\ obj[c] = Unborn => req[c].st = NoId
    BY <1>3 DEF Persist, FinInv, RequestFollows, IdInv, SameId, TrackInv, ReqStatus
  <2>2. req[c].st \in {NoId, req[c].id}
    BY <2>1 DEF FixedInv, HomeOwned
  <2> QED BY <1>2, <2>1, <2>2, FixedStore DEF UserWrite, Store
<1>4. CASE UserDelete(c)
  <2> DEFINE o == [obj[c] EXCEPT !.deleting = TRUE]
  <2>1. obj[c] \in Obj /\ o \in Obj /\ o.id = obj[c].id /\ o.st = obj[c].st
    BY <1>4 DEF UserDelete, Obj
  <2>2. UserWrite(c, IF obj[c].fin THEN o ELSE Gone)
    BY <1>4 DEF UserDelete
  <2> HIDE DEF o
  <2>3. CASE obj[c].fin
    BY <1>2, <2>1, <2>2, <2>3, FixedStore DEF UserWrite, Store, FixedInv, HomeOwned
  <2>4. CASE ~obj[c].fin
    <3>1. Owned(c) = {}
      BY <2>1, <2>4 DEF FinInv, OwnerFinalized, Finalized, Owned
    <3>2. ~(pass # NoPass /\ pass.cr = c)
      BY <2>1, <2>4 DEF FinInv, PassFollows, Finalized
    <3> QED BY <1>2, <2>1, <2>2, <2>4, <3>1, <3>2, FixedStore DEF UserWrite, Store
  <2> QED BY <2>3, <2>4
<1> QED BY <1>1, <1>3, <1>4 DEF User

LEMMA FixedReconcile ==
  ASSUME TypeInv, FinInv, IdInv, TrackInv, FixedInv,
         NEW c \in CR, CacheSync(c) \/ Reconcile(c)
  PROVE  FixedInv'
<1> USE DEF TypeInv, TypeOK
<1>1. ASSUME UNCHANGED <<obj, pass, remote, left>>
      PROVE  FixedInv'
  BY <1>1 DEF FixedInv, HomeOwned, PassHome, Owned
<1>2. CASE CacheSync(c) \/ ReconcileAbsent(c) \/ ReconcileNoDiff(c)
  BY <1>1, <1>2 DEF CacheSync, ReconcileAbsent, ReconcileNoDiff, k8s
<1>3. CASE AddFinalizer(c)
  <2> DEFINE o == [cache[c] EXCEPT !.fin = TRUE]
  <2>1. cache[c] \in Obj /\ obj[c] = cache[c] /\ pass' = NoPass
    BY <1>3 DEF AddFinalizer, Take, FinInv, CacheFollows
  <2>2. o \in Obj /\ o.st = obj[c].st /\ o.id = obj[c].id
    BY <2>1 DEF Obj
  <2>3. obj' = [obj EXCEPT ![c] = o] /\ UNCHANGED <<remote, left>>
    BY <1>3 DEF AddFinalizer, Store
  <2> HIDE DEF o
  <2> QED BY <2>1, <2>2, <2>3, FixedStore DEF FixedInv, HomeOwned
<1>4. ASSUME NEW pc, NEW i, NEW todo, cache[c] \in Obj, cache[c].fin, Take(c),
             Begin(c, pc, i, todo), pc # "release",
             i \in {cache[c].id, Get(cache[c])}, todo \subseteq Diff(cache[c], i)
      PROVE  FixedInv'
  <2>1. /\ pass'.cr = c /\ pass'.snap = cache[c] /\ pass'.at = i
        /\ pass'.todo = todo /\ pass'.pc = pc
        /\ c \in queue /\ UNCHANGED <<obj, remote, left>>
    BY <1>4 DEF Begin, Take, k8s
  <2>2. obj[c] \in Obj /\ obj[c].st = cache[c].st /\ obj[c].id = cache[c].id
    BY <1>4, <2>1 DEF TrackInv, StatusSeen, IdInv, SameId
  <2>3. i = cache[c].id
    BY <1>4, <2>2 DEF Get, FixedInv, HomeOwned
  <2>4. todo \subseteq {"cfg"}
    BY <1>4, <2>3 DEF Diff, Field
  <2>5. HomeOwned'
    BY <2>1 DEF FixedInv, HomeOwned, Owned
  <2>6. PassHome'
    BY <1>4, <2>1, <2>2, <2>3, <2>4 DEF PassHome
  <2> QED BY <2>5, <2>6 DEF FixedInv
<1>5. CASE ReconcileDelete(c) \/ ReconcileCreate(c)
  BY <1>4, <1>5 DEF ReconcileDelete, ReconcileCreate
<1>6. CASE ReconcileUpdate(c)
  BY <1>4, <1>6 DEF ReconcileUpdate
<1> QED BY <1>2, <1>3, <1>5, <1>6 DEF Reconcile

\* A call of a pass on the service of its spec.
LEMMA FixedCall ==
  ASSUME TypeInv, TrackInv, FixedInv, pass # NoPass, UNCHANGED obj,
         left \subseteq left',
         NEW next, NextPass(next), next.at = pass.at, next.todo \subseteq pass.todo,
         pass' = next \/ pass' = NoPass,
         \A d \in CR : Owned(d)' \subseteq
           IF d = pass.cr THEN Owned(d) \union {pass.snap.id} ELSE Owned(d),
         next.pc = "release" => \/ pass.pc = "release" /\ UNCHANGED remote
                                \/ \A d \in CR : d = pass.cr =>
                                      Owned(d)' = {} \/ d \in left'
  PROVE  FixedInv'
<1> USE DEF TypeInv, TypeOK
<1>1. /\ pass \in Pass /\ pass.cr \in CR /\ obj[pass.cr] \in Obj
      /\ pass.snap.id = obj[pass.cr].id /\ pass.at = pass.snap.id
      /\ pass.todo \subseteq {"cfg"}
      /\ pass.pc = "release" => Owned(pass.cr) = {} \/ pass.cr \in left
  BY DEF FixedInv, PassHome, TrackInv, PassSeen, Pass
<1>2. HomeOwned'
  <2> SUFFICES ASSUME NEW d \in CR
               PROVE  /\ obj[d] \in Obj => /\ obj[d].st \in {NoId, obj[d].id}
                                           /\ Owned(d)' \subseteq {obj[d].id}
                      /\ Owned(d)' # {} => obj[d] \in Obj \/ d \in left'
    BY DEF HomeOwned
  <2>1. CASE d = pass.cr
    <3>1. Owned(d)' \subseteq Owned(d) \union {obj[d].id} /\ obj[d] \in Obj
      BY <1>1, <2>1
    <3> QED BY <3>1 DEF FixedInv, HomeOwned
  <2>2. CASE d # pass.cr
    <3>1. Owned(d)' \subseteq Owned(d)
      BY <2>2
    <3> QED BY <3>1 DEF FixedInv, HomeOwned
  <2> QED BY <2>1, <2>2
<1>3. PassHome'
  <2>1. CASE pass' = NoPass
    BY <2>1 DEF PassHome
  <2>2. CASE pass' = next
    <3>1. PICK d \in CR : d = pass.cr
      BY <1>1
    <3>2. pass'.cr = d /\ pass'.snap = pass.snap /\ pass'.at = pass.at
          /\ pass'.todo \subseteq pass.todo
      BY <2>2, <3>1 DEF NextPass
    <3>3. pass'.pc = "release" => Owned(d)' = {} \/ d \in left'
      <4> SUFFICES ASSUME next.pc = "release"
                   PROVE  Owned(d)' = {} \/ d \in left'
        BY <2>2
      <4>1. CASE pass.pc = "release" /\ UNCHANGED remote
        BY <1>1, <3>1, <4>1 DEF Owned
      <4> QED BY <3>1, <4>1
    <3> QED BY <1>1, <3>1, <3>2, <3>3 DEF PassHome, Owned
  <2> QED BY <2>1, <2>2
<1> QED BY <1>2, <1>3 DEF FixedInv

LEMMA FixedWork ==
  ASSUME TypeInv, FinInv, TrackInv, FixedInv, Work
  PROVE  FixedInv'
<1> USE DEF TypeInv, TypeOK, k8s
<1>0. /\ pass \in Pass /\ pass # NoPass /\ pass.at \in Id /\ pass.cr \in CR
      /\ pass.snap \in Obj /\ pass.snap.id \in Id
      /\ pass.at = pass.snap.id /\ pass.todo \subseteq {"cfg"}
  BY DEF Pass, Obj, Work, SkipCall, CreateSkipped, CreateAdd, CreateFill,
         UpdateSkipped, UpdateSetCfg, UpdateRename, UpdateSetHost, InUpdate,
         WriteStatus, Record, DeleteRemote, DeleteSkipped, RemoveFinalizer,
         FixedInv, PassHome
<1>1. ASSUME Abort(pass), UNCHANGED <<obj, remote, left>>
      PROVE  FixedInv'
  BY <1>0, <1>1, FixedCall DEF Abort, NextPass, Owned
<1>2. ASSUME NEW next, NextPass(next), next.at = pass.at,
             next.todo \subseteq pass.todo, next.pc # "release",
             Reply(next) \/ pass' = next, UNCHANGED <<obj, left>>,
             \A d \in CR : Owned(d)' \subseteq
               IF d = pass.cr THEN Owned(d) \union {pass.snap.id} ELSE Owned(d)
      PROVE  FixedInv'
  BY <1>0, <1>2, FixedCall DEF Reply, Abort
<1>3. CASE CreateSkipped \/ UpdateSkipped
  <2> DEFINE next == [pass EXCEPT !.pc = "status"]
  <2>1. /\ NextPass(next) /\ next.at = pass.at /\ next.todo = pass.todo
        /\ next.pc = "status"
    BY <1>0 DEF NextPass, Pass
  <2>2. pass' = next /\ UNCHANGED <<obj, remote, left>>
    BY <1>3 DEF CreateSkipped, UpdateSkipped, SkipCall
  <2> HIDE DEF next
  <2> QED BY <1>2, <2>1, <2>2 DEF Owned
<1>4. CASE DeleteSkipped
  <2> DEFINE next == [pass EXCEPT !.pc = "release"]
  <2>1. NextPass(next) /\ next.at = pass.at /\ next.todo = pass.todo
    BY <1>0 DEF NextPass, Pass
  <2>2. pass' = next /\ UNCHANGED <<obj, remote>> /\ left' = left \union {pass.cr}
    BY <1>4 DEF DeleteSkipped, SkipCall
  <2> HIDE DEF next
  <2> QED BY <1>0, <2>1, <2>2, FixedCall DEF Owned
<1>5. CASE CreateAdd
  <2>1. CASE remote[pass.at] = NoSvc
    <3> DEFINE svc == [cfg |-> Bare, owner |-> pass.cr]
    <3> DEFINE next == [pass EXCEPT !.pc = "fill", !.moved = TRUE]
    <3>1. svc.owner = pass.cr
      OBVIOUS
    <3>2. /\ remote' = [remote EXCEPT ![pass.at] = svc] /\ Reply(next)
          /\ UNCHANGED <<obj, left>>
      BY <1>5, <2>1 DEF CreateAdd
    <3>3. /\ NextPass(next) /\ next.at = pass.at /\ next.todo = pass.todo
          /\ next.pc = "fill"
      BY <1>0 DEF NextPass, Pass
    <3> HIDE DEF svc, next
    <3>4. \A d \in CR : Owned(d)' \subseteq
            IF d = pass.cr THEN Owned(d) \union {pass.snap.id} ELSE Owned(d)
      BY <1>0, <3>1, <3>2 DEF Owned
    <3> QED BY <1>2, <3>2, <3>3, <3>4
  <2>2. CASE remote[pass.at] # NoSvc
    BY <1>1, <1>5, <2>2 DEF CreateAdd
  <2> QED BY <2>1, <2>2
<1>6. CASE CreateFill
  <2> DEFINE next == [pass EXCEPT !.pc = "status"]
  <2>1. /\ NextPass(next) /\ next.at = pass.at /\ next.todo = pass.todo
        /\ next.pc = "status"
    BY <1>0 DEF NextPass, Pass
  <2>2. /\ remote' = [remote EXCEPT ![pass.at].cfg = pass.snap.cfg] /\ Reply(next)
        /\ UNCHANGED <<obj, left>> /\ pass.pc = "fill"
    BY <1>6 DEF CreateFill
  <2>3. \A d \in CR : Owned(d)' \subseteq Owned(d)
    BY <1>6, FillKeepsOwner
  <2> HIDE DEF next
  <2> QED BY <1>2, <2>1, <2>2, <2>3
<1>7. CASE UpdateSetCfg
  <2> DEFINE next == Done("cfg", pass.at)
  <2>1. PICK svc \in Svc : /\ svc.owner = pass.cr
                           /\ remote' = [remote EXCEPT ![pass.at] = svc]
    BY <1>0, <1>7, SetCfgWrites
  <2>2. /\ remote' = [remote EXCEPT ![pass.at] = svc] /\ Reply(next)
        /\ UNCHANGED <<obj, left>>
    BY <1>7, <2>1 DEF UpdateSetCfg
  <2>3. /\ NextPass(next) /\ next.at = pass.at /\ next.todo \subseteq pass.todo
        /\ next.pc # "release"
    BY <1>0 DEF NextPass, Done, Pass
  <2> HIDE DEF next
  <2>4. \A d \in CR : Owned(d)' \subseteq
          IF d = pass.cr THEN Owned(d) \union {pass.snap.id} ELSE Owned(d)
    BY <1>0, <2>1, <2>2 DEF Owned
  <2> QED BY <1>2, <2>2, <2>3, <2>4
<1>8. CASE UpdateRename \/ UpdateSetHost
  BY <1>0, <1>8 DEF UpdateRename, UpdateSetHost, InUpdate
<1>9. CASE WriteStatus
  <2>1. CASE pass.fresh
    <3> DEFINE o == [pass.snap EXCEPT !.st = pass.snap.id]
    <3>1. o \in Obj /\ o.st = pass.snap.id /\ o.id = pass.snap.id
      BY <1>0 DEF Obj
    <3>2. /\ obj' = [obj EXCEPT ![pass.cr] = o] /\ pass' = NoPass
          /\ UNCHANGED <<remote, left>>
      BY <1>9, <2>1 DEF WriteStatus, Record, Store
    <3>3. obj[pass.cr] \in Obj /\ obj[pass.cr].id = pass.snap.id
      BY <1>0 DEF TrackInv, PassSeen, FixedInv, PassHome
    <3> HIDE DEF o
    <3> QED BY <1>0, <3>1, <3>2, <3>3, FixedStore
  <2>2. CASE ~pass.fresh
    BY <1>1, <1>9, <2>2 DEF WriteStatus, Record
  <2> QED BY <2>1, <2>2
<1>10. CASE DeleteRemote
  <2> DEFINE next == [pass EXCEPT !.pc = "release"]
  <2>1. NextPass(next) /\ next.at = pass.at /\ next.todo = pass.todo
    BY <1>0 DEF NextPass, Pass
  <2>2. /\ remote' = [remote EXCEPT ![pass.snap.id] = NoSvc] /\ Reply(next)
        /\ left \subseteq left' /\ UNCHANGED obj
    BY <1>10 DEF DeleteRemote
  <2> HIDE DEF next
  <2>3. \A d \in CR : Owned(d)' = Owned(d) \ {pass.snap.id}
    BY <1>0, <2>2 DEF Owned
  <2>4. \A d \in CR : d = pass.cr => Owned(d)' = {}
    BY <1>0, <2>3 DEF FixedInv, HomeOwned, PassHome, TrackInv, PassSeen
  <2>5. pass' = next \/ pass' = NoPass
    BY <2>2 DEF Reply, Abort
  <2> QED BY <1>0, <2>1, <2>2, <2>3, <2>4, <2>5, FixedCall
<1>11. CASE RemoveFinalizer
  <2>1. CASE pass.fresh /\ validateResourceUnicity(pass.cr, pass.snap.id)
    <3>1. /\ obj' = [obj EXCEPT ![pass.cr] = Gone] /\ pass' = NoPass
          /\ UNCHANGED <<remote, left>>
      BY <1>11, <2>1 DEF RemoveFinalizer, Store
    <3>2. Owned(pass.cr) = {} \/ pass.cr \in left
      BY <1>0, <1>11 DEF RemoveFinalizer, FixedInv, PassHome
    <3> QED BY <1>0, <3>1, <3>2, FixedStore
  <2>2. CASE ~(pass.fresh /\ validateResourceUnicity(pass.cr, pass.snap.id))
    BY <1>1, <1>11, <2>2 DEF RemoveFinalizer
  <2> QED BY <2>1, <2>2
<1> QED BY <1>3, <1>4, <1>5, <1>6, <1>7, <1>8, <1>9, <1>10, <1>11 DEF Work

LEMMA FixedNext ==
  ASSUME ~MayRename
  PROVE  TypeInv /\ FinInv /\ IdInv /\ TrackInv /\ FixedInv /\ [Next]_vars => FixedInv'
<1> SUFFICES ASSUME TypeInv, FinInv, IdInv, TrackInv, FixedInv, [Next]_vars
             PROVE  FixedInv'
  OBVIOUS
<1>1. CASE CallFails
  BY <1>1, FixedCall DEF CallFails, Abort, k8s, NextPass, Owned, TypeInv, TypeOK
<1>2. CASE Restart \/ UNCHANGED vars
  <2>1. UNCHANGED <<obj, remote, left>> /\ (pass' = NoPass \/ pass' = pass)
    BY <1>2 DEF Restart, vars
  <2> QED BY <2>1 DEF FixedInv, HomeOwned, PassHome, Owned
<1> QED BY <1>1, <1>2, FixedUser, FixedReconcile, FixedWork DEF Next

\* The variables of RemoteObject, as CentreonService reads them.
Kept == {c \in CR : obj[c] \in Obj /\ obj[c].fin}
Owner == [i \in Id |-> IF remote[i] = NoSvc THEN NoSvc ELSE remote[i].owner]
Excused == left \union (IF MayRename THEN slip ELSE {})

PromiseInv ==
  TypeInv /\ FinInv /\ TrackInv /\ (~MayRename => IdInv /\ FixedInv)

LEMMA PromiseAlways == Spec => []PromiseInv
<1>1. Init => PromiseInv
  BY TypeInit, FinInit, TrackInit, IdInit, FixedInit DEF PromiseInv
<1>2. PromiseInv /\ [Next]_vars => PromiseInv'
  <2> SUFFICES ASSUME PromiseInv, [Next]_vars
               PROVE  PromiseInv'
    OBVIOUS
  <2>1. TypeInv' /\ FinInv' /\ TrackInv'
    BY TypeNext, FinNext, TrackNext DEF PromiseInv
  <2>2. ASSUME ~MayRename
        PROVE  IdInv' /\ FixedInv'
    BY <2>2, IdNext, FixedNext DEF PromiseInv
  <2> QED BY <2>1, <2>2 DEF PromiseInv
<1> QED BY <1>1, <1>2, PTL DEF Spec

\* Ghosts only grow.
LEMMA ExcusedGrows == [Next]_vars => Excused \subseteq Excused'
<1> SUFFICES ASSUME [Next]_vars
             PROVE  left \subseteq left' /\ slip \subseteq slip'
  BY DEF Excused
<1>1. ASSUME NEW p, Abort(p)
      PROVE  slip \subseteq slip'
  BY <1>1 DEF Abort
<1>2. ASSUME NEW p, Reply(p)
      PROVE  slip \subseteq slip'
  BY <1>1, <1>2 DEF Reply
<1>3. CASE UNCHANGED <<left, slip>>
  BY <1>3
<1>4. ASSUME NEW c \in CR, User(c) \/ CacheSync(c)
      PROVE  UNCHANGED <<left, slip>>
  BY <1>4 DEF User, ValidateCreate, ValidateUpdate, Persist, UserDelete, UserWrite,
              CacheSync
<1>5. ASSUME NEW c \in CR, Reconcile(c)
      PROVE  UNCHANGED <<left, slip>>
  BY <1>5 DEF Reconcile, ReconcileAbsent, AddFinalizer, ReconcileDelete,
     ReconcileCreate, ReconcileUpdate, ReconcileNoDiff, Begin
<1>6. CASE CreateSkipped \/ UpdateSkipped \/ DeleteSkipped
  BY <1>6 DEF CreateSkipped, UpdateSkipped, DeleteSkipped, SkipCall
<1>7. CASE CreateAdd \/ CreateFill
  BY <1>1, <1>2, <1>7 DEF CreateAdd, CreateFill
<1>8. CASE UpdateSetCfg \/ UpdateRename \/ UpdateSetHost
  BY <1>1, <1>2, <1>8 DEF UpdateSetCfg, UpdateRename, UpdateSetHost, Move
<1>9. CASE WriteStatus
  BY <1>1, <1>9 DEF WriteStatus, Record
<1>10. CASE DeleteRemote
  BY <1>2, <1>10 DEF DeleteRemote
<1>11. CASE RemoveFinalizer \/ CallFails \/ Restart
  BY <1>1, <1>11 DEF RemoveFinalizer, CallFails, Restart
<1> QED BY <1>3, <1>4, <1>5, <1>6, <1>7, <1>8, <1>9, <1>10, <1>11
        DEF Next, Work, vars

\* Storing a version with the finalizer of the one before keeps the set.
LEMMA KeptStays ==
  ASSUME TypeInv, NEW c \in CR, NEW o \in Obj \union {Gone, Unborn},
         obj' = [obj EXCEPT ![c] = o],
         c \in Kept <=> o \in Obj /\ o.fin
  PROVE  Kept' = Kept
  BY DEF TypeInv, TypeOK, Kept

LEMMA KeptUser ==
  ASSUME PromiseInv, NEW c \in CR, User(c)
  PROVE  UNCHANGED <<Kept, remote>>
<1> USE DEF PromiseInv, TypeInv, TypeOK
<1>1. CASE ValidateCreate(c) \/ ValidateUpdate(c)
  BY <1>1 DEF ValidateCreate, ValidateUpdate, Kept
<1>2. CASE Persist(c)
  <2>1. /\ req[c] \in Obj /\ obj[c] # Gone /\ UserWrite(c, req[c])
        /\ obj[c] = Unborn => ~req[c].fin
        /\ obj[c] \in Obj => req[c].fin = obj[c].fin
    BY <1>2 DEF Persist, FinInv, RequestFollows
  <2>2. c \in Kept <=> req[c].fin
    BY <2>1 DEF Kept
  <2> QED BY <2>1, <2>2, KeptStays DEF UserWrite, Store
<1>3. CASE UserDelete(c)
  <2> DEFINE o == [obj[c] EXCEPT !.deleting = TRUE]
  <2>1. obj[c] \in Obj /\ o \in Obj /\ o.fin = obj[c].fin
    BY <1>3 DEF UserDelete, Obj
  <2>2. UserWrite(c, IF obj[c].fin THEN o ELSE Gone)
    BY <1>3 DEF UserDelete
  <2> HIDE DEF o
  <2>3. c \in Kept <=> obj[c].fin
    BY <2>1 DEF Kept
  <2>4. CASE obj[c].fin
    BY <2>1, <2>2, <2>3, <2>4, KeptStays DEF UserWrite, Store
  <2>5. CASE ~obj[c].fin
    BY <2>2, <2>3, <2>5, KeptStays DEF UserWrite, Store
  <2> QED BY <2>4, <2>5
<1> QED BY <1>1, <1>2, <1>3 DEF User

LEMMA PromiseReconcile ==
  ASSUME PromiseInv, NEW c \in CR, CacheSync(c) \/ Reconcile(c),
         Excused \subseteq Excused'
  PROVE  Promise!Next
<1> USE DEF PromiseInv, TypeInv, TypeOK
<1>1. CASE AddFinalizer(c)
  <2> DEFINE o == [cache[c] EXCEPT !.fin = TRUE]
  <2>1. cache[c] \in Obj /\ o \in Obj /\ o.fin
    BY <1>1 DEF AddFinalizer, Obj
  <2>2. obj' = [obj EXCEPT ![c] = o] /\ UNCHANGED remote
    BY <1>1 DEF AddFinalizer, Store
  <2> HIDE DEF o
  <2>3. Kept' = Kept \union {c}
    BY <2>1, <2>2 DEF Kept
  <2>4. Promise!Keep(c)
    BY <2>2, <2>3 DEF Promise!Keep, Kept
  <2> QED BY <2>4 DEF Promise!Next, Excused
<1>2. CASE ~AddFinalizer(c)
  <2>1. UNCHANGED <<obj, remote>>
    BY <1>2 DEF CacheSync, Reconcile, ReconcileAbsent, ReconcileDelete,
       ReconcileCreate, ReconcileUpdate, ReconcileNoDiff, Begin, k8s
  <2>2. Promise!Excuse
    BY <2>1 DEF Promise!Excuse
  <2> QED BY <2>2 DEF Promise!Next, Excused
<1> QED BY <1>1, <1>2

LEMMA PromiseWork ==
  ASSUME PromiseInv, Work, Excused \subseteq Excused'
  PROVE  Promise!Next
<1> USE DEF PromiseInv, TypeInv, TypeOK, k8s
<1>0. /\ pass \in Pass /\ pass # NoPass /\ pass.at \in Id /\ pass.cr \in CR
      /\ pass.snap \in Obj /\ pass.snap.id \in Id
  BY DEF Pass, Obj, Work, SkipCall, CreateSkipped, CreateAdd, CreateFill,
         UpdateSkipped, UpdateSetCfg, UpdateRename, UpdateSetHost, InUpdate,
         WriteStatus, Record, DeleteRemote, DeleteSkipped, RemoveFinalizer
<1>1. PICK c \in CR : c = pass.cr
  BY <1>0
<1>2. c \in Kept
  BY <1>0, <1>1 DEF Kept, FinInv, PassFollows, Finalized, TrackInv, PassSeen
<1>3. ASSUME UNCHANGED <<Kept, Owner>>
      PROVE  Promise!Next
  BY <1>3 DEF Promise!Next, Promise!Excuse, Kept, Owner, Excused
<1>4. ASSUME NEW i \in Id, UNCHANGED obj, Owner' = [Owner EXCEPT ![i] = c]
      PROVE  Promise!Next
  <2>1. Promise!Write(c, i)
    BY <1>2, <1>4 DEF Promise!Write, Kept, Owner
  <2> QED BY <1>4, <2>1 DEF Promise!Next, Excused
<1>5. CASE CreateSkipped \/ UpdateSkipped \/ DeleteSkipped
  BY <1>3, <1>5 DEF CreateSkipped, UpdateSkipped, DeleteSkipped, SkipCall, Kept, Owner
<1>6. CASE CreateAdd
  <2>1. CASE remote[pass.at] = NoSvc
    <3>1. UNCHANGED obj /\ Owner' = [Owner EXCEPT ![pass.at] = c]
      <4> DEFINE svc == [cfg |-> Bare, owner |-> pass.cr]
      <4>1. svc \in Svc /\ svc # NoSvc /\ svc.owner = c
        BY <1>0, <1>1 DEF Svc
      <4>2. remote' = [remote EXCEPT ![pass.at] = svc] /\ UNCHANGED obj
        BY <1>6, <2>1 DEF CreateAdd
      <4> HIDE DEF svc
      <4> QED BY <1>0, <4>1, <4>2 DEF Owner
    <3> QED BY <1>0, <1>4, <3>1
  <2>2. CASE remote[pass.at] # NoSvc
    BY <1>3, <1>6, <2>2 DEF CreateAdd, Kept, Owner
  <2> QED BY <2>1, <2>2
<1>7. CASE CreateFill
  <2>1. remote[pass.at] \in Svc
    BY <1>0, <1>7 DEF CreateFill, PassHasService
  <2>2. UNCHANGED Owner
    <3> DEFINE svc == [remote[pass.at] EXCEPT !.cfg = pass.snap.cfg]
    <3>1. svc \in Svc /\ svc.owner = remote[pass.at].owner
      BY <1>0, <2>1 DEF Svc, Obj
    <3>2. remote' = [remote EXCEPT ![pass.at] = svc]
      BY <1>7 DEF CreateFill
    <3> HIDE DEF svc
    <3> QED BY <1>0, <2>1, <3>1, <3>2 DEF Owner
  <2> QED BY <1>3, <1>7, <2>2 DEF CreateFill, Kept
<1>8. CASE UpdateSetCfg
  <2>1. UNCHANGED obj /\ Owner' = [Owner EXCEPT ![pass.at] = c]
    <3>1. PICK svc \in Svc : /\ svc # NoSvc /\ svc.owner = c
                             /\ remote' = [remote EXCEPT ![pass.at] = svc]
      BY <1>0, <1>1, <1>8, SetCfgWrites
    <3>2. remote' = [remote EXCEPT ![pass.at] = svc] /\ UNCHANGED obj
      BY <1>8, <3>1 DEF UpdateSetCfg
    <3> QED BY <1>0, <3>1, <3>2 DEF Owner
  <2> QED BY <1>0, <1>4, <2>1
<1>9. ASSUME NEW f \in Field, NEW to \in Id, InUpdate(f), Move(f, to)
      PROVE  Promise!Next
  <2>1. CASE remote[to] = NoSvc
    <3> DEFINE svc == [remote[pass.at] EXCEPT !.owner = pass.cr]
    <3>1. remote[pass.at] \in Svc /\ to # pass.at
      BY <1>0, <1>9, <2>1 DEF InUpdate, PassHasService
    <3>2. svc \in Svc /\ svc # NoSvc /\ svc.owner = c
      BY <1>0, <1>1, <3>1 DEF Svc
    <3>3. /\ remote' = [remote EXCEPT ![to] = svc, ![pass.at] = NoSvc]
          /\ UNCHANGED obj
      BY <1>9, <2>1 DEF Move
    <3> HIDE DEF svc
    <3>4. /\ Owner[pass.at] # NoSvc /\ Owner[to] = NoSvc
          /\ Owner' = [Owner EXCEPT ![pass.at] = NoSvc, ![to] = c]
      BY <1>0, <2>1, <3>1, <3>2, <3>3 DEF Owner, Svc
    <3>5. Promise!Move(c, pass.at, to)
      BY <1>2, <3>3, <3>4 DEF Promise!Move, Kept, Owner
    <3> QED BY <1>0, <3>5 DEF Promise!Next, Excused
  <2>2. CASE remote[to] # NoSvc
    BY <1>3, <1>9, <2>2 DEF Move, Kept, Owner
  <2> QED BY <2>1, <2>2
<1>10. CASE UpdateRename \/ UpdateSetHost
  <2>1. /\ [pass.at EXCEPT !.name = pass.snap.id.name] \in Id
        /\ [pass.at EXCEPT !.host = pass.snap.id.host] \in Id
    BY <1>0 DEF Id
  <2> QED BY <1>9, <1>10, <2>1 DEF UpdateRename, UpdateSetHost, Field
<1>11. CASE WriteStatus
  <2>1. CASE pass.fresh
    <3> DEFINE o == [pass.snap EXCEPT !.st = pass.snap.id]
    <3>1. o \in Obj /\ o.fin = pass.snap.fin
      BY <1>0 DEF Obj
    <3>2. obj' = [obj EXCEPT ![c] = o] /\ UNCHANGED remote
      BY <1>1, <1>11, <2>1 DEF WriteStatus, Record, Store
    <3>3. o.fin
      BY <1>0, <1>1, <1>2, <2>1, <3>1 DEF FinInv, PassFollows, Kept
    <3> HIDE DEF o
    <3>4. Kept' = Kept
      BY <1>2, <3>1, <3>2, <3>3, KeptStays
    <3> QED BY <1>3, <3>2, <3>4 DEF Owner
  <2>2. CASE ~pass.fresh
    BY <1>3, <1>11, <2>2 DEF WriteStatus, Record, Kept, Owner
  <2> QED BY <2>1, <2>2
<1>12. CASE DeleteRemote
  <2>1. PICK i \in Id : i = pass.snap.id
    BY <1>0
  <2>2. UNCHANGED obj /\ remote' = [remote EXCEPT ![i] = NoSvc]
    BY <1>12, <2>1 DEF DeleteRemote
  <2>3. Owner' = [Owner EXCEPT ![i] = NoSvc]
    BY <2>2 DEF Owner
  <2>4. Promise!Remove(c, i)
    BY <1>2, <2>2, <2>3 DEF Promise!Remove, Kept, Owner
  <2> QED BY <2>4 DEF Promise!Next, Excused
<1>13. CASE RemoveFinalizer
  <2>1. CASE pass.fresh /\ validateResourceUnicity(pass.cr, pass.snap.id)
    <3>1. obj' = [obj EXCEPT ![c] = Gone] /\ UNCHANGED remote /\ pass.pc = "release"
      BY <1>1, <1>13, <2>1 DEF RemoveFinalizer, Store
    <3>2. Kept' = Kept \ {c}
      BY <3>1 DEF Kept
    <3>3. c \in Excused \/ Owned(c) = {}
      <4>1. CASE MayRename
        BY <1>0, <1>1, <3>1, <4>1 DEF TrackInv, Tracked, On, Excused
      <4>2. CASE ~MayRename
        BY <1>0, <1>1, <3>1, <4>2 DEF FixedInv, PassHome, Excused
      <4> QED BY <4>1, <4>2
    <3>4. c \in Excused \/ \A i \in Id : Owner[i] # c
      <4> SUFFICES ASSUME Owned(c) = {}, NEW i \in Id, Owner[i] = c
                   PROVE  FALSE
        BY <3>3
      <4> QED BY DEF Owner, Owned
    <3>5. Promise!Release(c)
      BY <3>1, <3>2, <3>4 DEF Promise!Release, Kept, Owner, Excused
    <3> QED BY <3>5 DEF Promise!Next, Excused
  <2>2. CASE ~(pass.fresh /\ validateResourceUnicity(pass.cr, pass.snap.id))
    BY <1>3, <1>13, <2>2 DEF RemoveFinalizer, Kept, Owner
  <2> QED BY <2>1, <2>2
<1> QED BY <1>5, <1>6, <1>7, <1>8, <1>10, <1>11, <1>12, <1>13 DEF Work

LEMMA PromiseStep ==
  ASSUME PromiseInv, [Next]_vars
  PROVE  [Promise!Next]_Promise!vars
<1>1. Excused \subseteq Excused'
  BY ExcusedGrows
<1>2. ASSUME UNCHANGED <<Kept, remote>>
      PROVE  Promise!Next
  BY <1>1, <1>2 DEF Promise!Next, Promise!Excuse, Kept, Excused
<1>3. CASE CallFails \/ Restart
  BY <1>2, <1>3 DEF CallFails, Restart, k8s, Kept
<1>4. CASE UNCHANGED vars
  BY <1>4 DEF vars, Promise!vars
<1> QED BY <1>1, <1>2, <1>3, <1>4, KeptUser, PromiseReconcile, PromiseWork DEF Next

(***************************************************************************)
(* CentreonService keeps the promise of a reconciler of remote objects:    *)
(* every write, move and deletion on Centreon is made for a resource with  *)
(* the finalizer, and a resource loses the finalizer only when no service  *)
(* is left that it wrote, or when it is excused.                           *)
(***************************************************************************)
THEOREM PromiseTheorem == Spec => ImplementsPromise
<1>1. Init => Promise!Init
  <2> SUFFICES ASSUME Init PROVE Promise!Init
    OBVIOUS
  <2>1. \A i \in Id : remote[i] # NoSvc => remote[i].owner = Manual
    BY DEF Init
  <2> QED BY <2>1 DEF Init, Promise!Init
<1> QED BY <1>1, PromiseAlways, PromiseStep, PTL
        DEF Spec, ImplementsPromise, Promise!Spec

\* Every service the operator ever touched has a resource to delete it.
NoServiceOrphaned ==
  \A i \in Id : remote[i] # NoSvc /\ remote[i].owner # Manual =>
    \/ obj[remote[i].owner] \in Obj /\ obj[remote[i].owner].fin
    \/ remote[i].owner \in left \union (IF MayRename THEN slip ELSE {})

\* The promise, read where it is proved to be of use.
Reconciler == INSTANCE RemoteObjectProofs WITH
  Resource <- CR, Identity <- Id, Nobody <- NoSvc, Foreign <- Manual,
  Again <- FALSE,
  kept <- {c \in CR : obj[c] \in Obj /\ obj[c].fin},
  owner <- [i \in Id |-> IF remote[i] = NoSvc THEN NoSvc ELSE remote[i].owner],
  excused <- left \union (IF MayRename THEN slip ELSE {})

(***************************************************************************)
(* Nothing is orphaned (RemoteObjectProofs): a service that the operator   *)
(* created or wrote belongs to a resource that exists and has its          *)
(* finalizer, so that it will be deleted with it, or to one for which the  *)
(* code is known to lose track of it.                                      *)
(***************************************************************************)
THEOREM OrphanTheorem == Spec => []NoServiceOrphaned
<1>1. Promise!Init => Reconciler!Init
  BY DEF Promise!Init, Reconciler!Init
<1>2. [Promise!Next]_(Promise!vars) => [Reconciler!Next]_(Reconciler!vars)
  BY DEF Promise!Next, Promise!vars, Promise!Keep, Promise!Release, Promise!Write,
         Promise!Remove, Promise!Move, Promise!Excuse, Reconciler!Next,
         Reconciler!vars, Reconciler!Keep, Reconciler!Release, Reconciler!Write,
         Reconciler!Remove, Reconciler!Move, Reconciler!Excuse
<1>3. TypeOK /\ Reconciler!NoOrphan => NoServiceOrphaned
  <2> SUFFICES ASSUME TypeOK, Reconciler!NoOrphan, NEW i \in Id,
                      remote[i] # NoSvc, remote[i].owner # Manual
               PROVE  \/ obj[remote[i].owner] \in Obj /\ obj[remote[i].owner].fin
                      \/ remote[i].owner \in left \union (IF MayRename THEN slip ELSE {})
    BY DEF NoServiceOrphaned
  <2>1. remote[i].owner \in CR
    BY DEF TypeOK, Svc
  <2> QED BY <2>1, AbsentAssumption DEF Reconciler!NoOrphan
<1> QED BY <1>1, <1>2, <1>3, TypeCorrect, PromiseTheorem,
           Reconciler!NoOrphanTheorem, PTL
        DEF ImplementsPromise, Promise!Spec, Reconciler!Spec
=============================================================================
