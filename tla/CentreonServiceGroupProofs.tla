---------------------- MODULE CentreonServiceGroupProofs ----------------------
(***************************************************************************)
(* Theorems about CentreonServiceGroup, for every value of its constants.  *)
(***************************************************************************)
EXTENDS CentreonServiceGroup, TLAPS

(***************************************************************************)
(* The type invariant is not inductive: the calls of a pass write fields   *)
(* of the group the pass works on, which has to exist.                     *)
(***************************************************************************)
PassHasGroup ==
  pass # NoPass /\ pass.pc \in {"fill", "update"} => remote[pass.at] \in Group

TypeInv == TypeOK /\ PassHasGroup

USE PolicyAssumption, GroupsAssumption, BoundAssumption, AbsentAssumption

LEMMA TypeInit == Init => TypeInv
  BY DEF Init, TypeInv, TypeOK, PassHasGroup, Queued, Job

\* What users do keeps the types.
LEMMA TypeUser ==
  ASSUME TypeInv, NEW c \in CSG, User(c)
  PROVE  TypeInv'
<1> USE DEF TypeInv, TypeOK, PassHasGroup
<1>1. ASSUME NEW o \in Obj \union {Gone}, UserWrite(c, o),
             edits' \in 0..MaxEdits, renamed' \subseteq CSG, contested' \subseteq Name
      PROVE  TypeInv'
  BY <1>1 DEF UserWrite, Store, Pass, ghosts
<1>2. CASE ValidateCreate(c)
  <2>1. PICK n \in Name, v \in Cfg, p \in Policy :
          UserWrite(c, [name |-> n, cfg |-> v, policy |-> p, st |-> NoName,
                        fin |-> FALSE, deleting |-> FALSE])
    BY <1>2 DEF ValidateCreate
  <2>2. [name |-> n, cfg |-> v, policy |-> p, st |-> NoName,
         fin |-> FALSE, deleting |-> FALSE] \in Obj
    BY DEF Obj
  <2> QED BY <1>1, <1>2, <2>1, <2>2 DEF ValidateCreate
<1>3. CASE ValidateUpdate(c)
  <2>1. PICK n \in Name, v \in Cfg, p \in Policy :
          /\ UserWrite(c, [obj[c] EXCEPT !.name = n, !.cfg = v, !.policy = p])
          /\ \/ UNCHANGED <<renamed, contested>>
             \/ /\ renamed' = renamed \union {c}
                /\ contested' = contested \union {n, obj[c].name}
    BY <1>3 DEF ValidateUpdate
  <2>2. obj[c] \in Obj /\ edits' \in 0..MaxEdits
    BY <1>3 DEF ValidateUpdate
  <2>3. [obj[c] EXCEPT !.name = n, !.cfg = v, !.policy = p] \in Obj
        /\ obj[c].name \in Name
    BY <2>2 DEF Obj
  <2> QED BY <1>1, <2>1, <2>2, <2>3
<1>4. CASE UserDelete(c)
  <2>1. obj[c] \in Obj /\ [obj[c] EXCEPT !.deleting = TRUE] \in Obj
    BY <1>4 DEF UserDelete, Obj
  <2> QED BY <1>1, <1>4, <2>1 DEF UserDelete
<1> QED BY <1>2, <1>3, <1>4 DEF User

\* The informer and the start of a pass keep the types.
LEMMA TypeReconcile ==
  ASSUME TypeInv, NEW c \in CSG, CacheSync(c) \/ Reconcile(c)
  PROVE  TypeInv'
<1> USE DEF TypeInv, TypeOK, PassHasGroup, ghosts, k8s
<1>1. CASE CacheSync(c)
  BY <1>1 DEF CacheSync
<1>2. CASE ReconcileAbsent(c)
  BY <1>2 DEF ReconcileAbsent, Take
<1>3. CASE AddFinalizer(c)
  <2>1. [cache[c] EXCEPT !.fin = TRUE] \in Obj
    BY <1>3 DEF AddFinalizer, Obj
  <2> QED BY <1>3, <2>1 DEF AddFinalizer, Take, Store
<1>4. ASSUME NEW pc \in {"create", "update", "delete"}, NEW n \in Name,
             NEW todo \in SUBSET Field, cache[c] \in Obj,
             pc = "update" => remote[n] \in Group,
             Take(c), Begin(c, pc, n, todo)
      PROVE  TypeInv'
  <2>1. pass' \in Pass
    BY <1>4 DEF Begin, Pass
  <2>2. pass'.at = n /\ pass'.pc = pc
    BY <1>4 DEF Begin
  <2> QED BY <1>4, <2>1, <2>2 DEF Begin, Take
<1>5. CASE ReconcileDelete(c)
  BY <1>4, <1>5 DEF ReconcileDelete, Obj
<1>6. CASE ReconcileCreate(c)
  BY <1>4, <1>6 DEF ReconcileCreate, Live, Obj
<1>7. CASE ReconcileUpdate(c)
  <2>1. Get(cache[c]) \in Name
    BY <1>7 DEF ReconcileUpdate, Live, Get, Obj
  <2>2. Diff(cache[c], Get(cache[c])) \in SUBSET Field
    BY DEF Diff
  <2> QED BY <1>4, <1>7, <2>1, <2>2 DEF ReconcileUpdate, Live
<1>8. CASE ReconcileNoDiff(c)
  BY <1>8 DEF ReconcileNoDiff, Take
<1> QED BY <1>1, <1>2, <1>3, <1>5, <1>6, <1>7, <1>8 DEF Reconcile

\* Ending a pass, or learning of a call's success, keeps the types.
LEMMA TypeAbort ==
  ASSUME TypeInv, NEW p \in Pass, Abort(p)
  PROVE  /\ pass' \in Pass \union {NoPass} /\ queue' \subseteq CSG
         /\ slip' \subseteq CSG /\ PassHasGroup'
  BY DEF TypeInv, TypeOK, Abort, Pass, PassHasGroup

LEMMA TypeReply ==
  ASSUME TypeInv, NEW next \in Pass, Reply(next),
         next.pc \in {"fill", "update"} => remote'[next.at] \in Group
  PROVE  /\ pass' \in Pass \union {NoPass} /\ queue' \subseteq CSG
         /\ slip' \subseteq CSG /\ faults' \in 0..MaxFaults /\ PassHasGroup'
<1>1. CASE pass' = next /\ UNCHANGED <<queue, faults, slip>>
  BY <1>1 DEF TypeInv, TypeOK, PassHasGroup
<1>2. CASE faults < MaxFaults /\ faults' = faults + 1 /\ Abort(next)
  BY <1>2, TypeAbort DEF TypeInv, TypeOK
<1> QED BY <1>1, <1>2 DEF Reply

LEMMA DoneType ==
  ASSUME TypeInv, pass # NoPass, NEW f \in Field, NEW n \in Name
  PROVE  Done(f, n) \in Pass /\ Done(f, n).at = n
  BY DEF TypeInv, TypeOK, Done, Pass

LEMMA TypeSkip ==
  ASSUME TypeInv, NEW pc, NEW flag, NEW next \in {"status", "release"},
         SkipCall(pc, flag, next)
  PROVE  /\ pass' \in Pass /\ PassHasGroup'
         /\ UNCHANGED <<k8s, queue, remote, job, faults, slip, lost>>
<1>1. [pass EXCEPT !.pc = next] \in Pass /\ [pass EXCEPT !.pc = next].pc = next
  BY DEF TypeInv, TypeOK, SkipCall, Pass
<1> QED BY <1>1 DEF SkipCall, PassHasGroup

LEMMA LosingType == \A n \in Name : TypeInv => Losing(n) \subseteq Service
  BY DEF Losing, TypeInv, TypeOK, Group

\* The calls of a pass keep the types.
LEMMA TypeRename ==
  ASSUME TypeInv, UpdateRename
  PROVE  TypeInv'
<1> DEFINE to == pass.snap.name
<1>1. /\ pass \in Pass /\ pass.at \in Name /\ pass.csg \in CSG /\ to \in Name
      /\ remote[pass.at] \in Group /\ UNCHANGED <<k8s, job, left>>
  BY DEF TypeInv, TypeOK, UpdateRename, InUpdate, PassHasGroup, Pass, Obj
<1>2. CASE remote[to] = NoGroup
  <2>1. [remote[pass.at] EXCEPT !.owner = pass.csg] \in Group
    BY <1>1 DEF Group
  <2>2. to # pass.at
    BY <1>1, <1>2
  <2>3. remote' \in [Name -> Group \union {NoGroup}] /\ remote'[to] \in Group
    BY <1>1, <1>2, <2>1, <2>2 DEF UpdateRename, TypeInv, TypeOK
  <2>4. Done("name", to) \in Pass /\ Done("name", to).at = to
    BY <1>1, DoneType DEF UpdateRename, InUpdate, Field
  <2>5. Reply(Done("name", to)) /\ lost' = lost \union Losing(pass.at)
    BY <1>2 DEF UpdateRename
  <2>6. lost' \subseteq Service
    BY <1>1, <2>5, LosingType DEF TypeInv, TypeOK
  <2> QED BY <1>1, <2>3, <2>4, <2>5, <2>6, TypeReply DEF TypeInv, TypeOK, k8s
<1>3. CASE remote[to] # NoGroup
  BY <1>1, <1>3, TypeAbort DEF UpdateRename, TypeInv, TypeOK, k8s
<1> QED BY <1>2, <1>3

LEMMA TypeRecord ==
  ASSUME TypeInv, WriteStatus
  PROVE  TypeInv'
<1>1. /\ pass \in Pass /\ pass.csg \in CSG /\ pass.snap \in Obj
      /\ pass.snap.name \in Name
  BY DEF TypeInv, TypeOK, WriteStatus, Record, Pass, Obj
<1>2. [pass.snap EXCEPT !.st = pass.snap.name] \in Obj
  BY <1>1 DEF Obj
<1>3. CASE pass.fresh
  BY <1>1, <1>2, <1>3
     DEF WriteStatus, Record, Store, TypeInv, TypeOK, PassHasGroup
<1>4. CASE ~pass.fresh
  BY <1>1, <1>4, TypeAbort DEF WriteStatus, Record, TypeInv, TypeOK
<1> QED BY <1>3, <1>4

LEMMA TypeWork ==
  ASSUME TypeInv, Work
  PROVE  TypeInv'
<1>0. pass \in Pass /\ pass.csg \in CSG /\ pass.at \in Name
      /\ pass.snap \in Obj /\ pass.snap.name \in Name /\ pass.snap.cfg \in Cfg
  BY DEF TypeInv, TypeOK, Pass, Obj, Work, SkipCall, CreateSkipped, CreateAdd,
         CreateFill, UpdateSkipped, UpdateSetCfg, UpdateRename, InUpdate,
         WriteStatus, Record, DeleteRemote, DeleteSkipped, RemoveFinalizer
<1>1. CASE CreateSkipped
  BY <1>1, TypeSkip DEF CreateSkipped, TypeInv, TypeOK, k8s
<1>2. CASE CreateAdd
  <2> DEFINE next == [pass EXCEPT !.pc = "fill", !.moved = TRUE]
  <2>1. CASE pass.snap.cfg # Blank /\ remote[pass.at] = NoGroup
    <3>1. next \in Pass /\ next.at = pass.at
      BY <1>0 DEF Pass
    <3>2. remote' \in [Name -> Group \union {NoGroup}] /\ remote'[pass.at] \in Group
      BY <1>0, <1>2, <2>1 DEF CreateAdd, TypeInv, TypeOK, Group
    <3>3. Reply(next) /\ UNCHANGED <<k8s, job, left, lost>>
      BY <1>2, <2>1 DEF CreateAdd
    <3> QED BY <3>1, <3>2, <3>3, TypeReply DEF TypeInv, TypeOK, k8s
  <2>2. CASE ~(pass.snap.cfg # Blank /\ remote[pass.at] = NoGroup)
    <3>1. Abort(pass) /\ UNCHANGED <<remote, faults, k8s, job, left, lost>>
      BY <1>2, <2>2 DEF CreateAdd
    <3> QED BY <1>0, <3>1, TypeAbort DEF TypeInv, TypeOK, k8s
  <2> QED BY <2>1, <2>2
<1>3. CASE CreateFill
  <2>1. remote' \in [Name -> Group \union {NoGroup}]
    BY <1>0, <1>3 DEF CreateFill, TypeInv, TypeOK, PassHasGroup, Group
  <2>2. [pass EXCEPT !.pc = "status"] \in Pass
        /\ [pass EXCEPT !.pc = "status"].pc = "status"
    BY <1>0 DEF Pass
  <2> QED BY <1>3, <2>1, <2>2, TypeReply DEF CreateFill, TypeInv, TypeOK, k8s
<1>4. CASE UpdateSkipped
  BY <1>4, TypeSkip DEF UpdateSkipped, TypeInv, TypeOK, k8s
<1>5. CASE UpdateSetCfg
  <2>1. remote[pass.at] \in Group
    BY <1>5 DEF UpdateSetCfg, InUpdate, TypeInv, PassHasGroup
  <2>2. remote' \in [Name -> Group \union {NoGroup}] /\ remote'[pass.at] \in Group
    BY <1>0, <1>5, <2>1 DEF UpdateSetCfg, TypeInv, TypeOK, Group
  <2>3. Done("cfg", pass.at) \in Pass /\ Done("cfg", pass.at).at = pass.at
    BY <1>0, <1>5, DoneType DEF UpdateSetCfg, InUpdate, Field
  <2> QED BY <1>5, <2>2, <2>3, TypeReply DEF UpdateSetCfg, TypeInv, TypeOK, k8s
<1>6. CASE UpdateRename
  BY <1>6, TypeRename
<1>7. CASE WriteStatus
  BY <1>7, TypeRecord
<1>8. CASE DeleteRemote
  <2>1. [pass EXCEPT !.pc = "release"] \in Pass
        /\ [pass EXCEPT !.pc = "release"].pc = "release"
    BY <1>0 DEF Pass
  <2>2. /\ remote' \in [Name -> Group \union {NoGroup}] /\ left' \subseteq CSG
        /\ lost' \subseteq Service
    BY <1>0, <1>8, LosingType DEF DeleteRemote, TypeInv, TypeOK
  <2>3. Reply([pass EXCEPT !.pc = "release"]) /\ UNCHANGED <<k8s, job>>
    BY <1>8 DEF DeleteRemote
  <2> QED BY <2>1, <2>2, <2>3, TypeReply DEF TypeInv, TypeOK, k8s
<1>9. CASE DeleteSkipped
  BY <1>0, <1>9, TypeSkip DEF DeleteSkipped, TypeInv, TypeOK, k8s
<1>10. CASE RemoveFinalizer
  <2>1. CASE pass.fresh /\ validateResourceUnicity(pass.csg, pass.snap.name)
    BY <1>0, <1>10, <2>1
       DEF RemoveFinalizer, Store, TypeInv, TypeOK, PassHasGroup
  <2>2. CASE ~(pass.fresh /\ validateResourceUnicity(pass.csg, pass.snap.name))
    BY <1>0, <1>10, <2>2, TypeAbort DEF RemoveFinalizer, TypeInv, TypeOK
  <2> QED BY <2>1, <2>2
<1> QED BY <1>1, <1>2, <1>3, <1>4, <1>5, <1>6, <1>7, <1>8, <1>9, <1>10 DEF Work

\* The passes over services write members of groups that exist.
LEMMA TypeService ==
  ASSUME TypeInv, NEW s \in Service, UpdateService(s) \/ JobFails(s)
  PROVE  TypeInv'
<1> USE DEF TypeInv, TypeOK, PassHasGroup, ghosts, k8s
<1>1. Queued \in Job /\ Idle \in Job /\ Rest(s) \in Job
  BY DEF Queued, Idle, Rest, Others, Job
<1>2. ASSUME remote[Groups[s]] # NoGroup
      PROVE  /\ Joined(s) \in [Name -> Group \union {NoGroup}]
             /\ \A n \in Name : remote[n] \in Group => Joined(s)[n] \in Group
  <2>1. [remote[Groups[s]] EXCEPT !.members = @ \union {s}] \in Group
    BY <1>2 DEF Group
  <2> QED BY <2>1 DEF Joined
<1>3. pass # NoPass => pass.at \in Name
  BY DEF Pass
<1>4. CASE InGroup(s)
  BY <1>1, <1>4 DEF InGroup
<1>5. CASE SetServiceGroups(s)
  BY <1>1, <1>2, <1>3, <1>5 DEF SetServiceGroups
<1>6. CASE DeleteServiceGroups(s)
  <2>1. CASE \A n \in job[s].drop : remote[n] # NoGroup
    <3>1. job[s].drop \subseteq Name
      BY DEF Job
    <3>2. \A n \in job[s].drop : [remote[n] EXCEPT !.members = @ \ {s}] \in Group
      BY <2>1, <3>1 DEF Group
    <3>3. remote' = [n \in Name |->
                       IF n \in job[s].drop
                       THEN [remote[n] EXCEPT !.members = @ \ {s}] ELSE remote[n]]
      BY <1>6, <2>1 DEF DeleteServiceGroups
    <3>4. remote' \in [Name -> Group \union {NoGroup}]
      BY <3>2, <3>3
    <3>5. \A n \in Name : remote[n] \in Group => remote'[n] \in Group
      BY <3>2, <3>3
    <3> QED BY <1>1, <1>3, <1>6, <2>1, <3>4, <3>5 DEF DeleteServiceGroups
  <2>2. CASE ~ \A n \in job[s].drop : remote[n] # NoGroup
    BY <1>1, <1>6, <2>2 DEF DeleteServiceGroups, Requeue
  <2> QED BY <2>1, <2>2
<1>7. CASE JobFails(s)
  BY <1>1, <1>2, <1>3, <1>7 DEF JobFails, Requeue
<1> QED BY <1>4, <1>5, <1>6, <1>7 DEF UpdateService

LEMMA TypeFault ==
  ASSUME TypeInv, CallFails \/ Restart
  PROVE  TypeInv'
<1>1. CASE CallFails
  BY <1>1, TypeAbort DEF CallFails, TypeInv, TypeOK, k8s
<1>2. CASE Restart
  BY <1>2 DEF Restart, TypeInv, TypeOK, PassHasGroup, Pass, Queued, Job
<1> QED BY <1>1, <1>2

LEMMA TypeStutter == TypeInv /\ UNCHANGED vars => TypeInv'
  BY DEF TypeInv, TypeOK, PassHasGroup, vars

LEMMA TypeNext == TypeInv /\ [Next]_vars => TypeInv'
  BY TypeUser, TypeReconcile, TypeWork, TypeService, TypeFault, TypeStutter DEF Next

(***************************************************************************)
(* Every variable keeps its type, and a pass only ever writes fields of a  *)
(* group that exists, although services join and leave groups meanwhile.   *)
(***************************************************************************)
THEOREM TypeCorrect == Spec => [](TypeOK /\ PassHasGroup)
<1>1. Spec => []TypeInv
  BY TypeInit, TypeNext, PTL DEF Spec
<1>2. TypeInv => TypeOK /\ PassHasGroup
  BY DEF TypeInv
<1> QED BY <1>1, <1>2, PTL

-----------------------------------------------------------------------------
(***************************************************************************)
(* UniqueUnlessRenamed.  The finalizer of the second of two resources is   *)
(* only added by an update that is validated against a cache that shows    *)
(* the first: the worker read the first there before it gave it its        *)
(* finalizer.  What the cache shows of it is its name, unless an edit gave *)
(* it another one, which is then contested.                                *)
(***************************************************************************)

CacheFresh == \A c \in CSG : c \notin dirty => cache[c] = obj[c]

PassFresh == pass # NoPass /\ pass.fresh => obj[pass.csg] = pass.snap

SameName ==
  \A c \in CSG :
    obj[c] \in Obj /\ obj[c].fin =>
      /\ cache[c] \in Obj
      /\ cache[c].name = obj[c].name \/ obj[c].name \in contested

NameInv == CacheFresh /\ PassFresh /\ SameName /\ UniqueUnlessRenamed

LEMMA NameInit == Init => NameInv
  BY DEF Init, NameInv, CacheFresh, PassFresh, SameName, UniqueUnlessRenamed

\* The running pass goes on for the same resource, or ends.
PassGoesOn ==
  pass' # NoPass =>
    /\ pass # NoPass /\ pass'.csg = pass.csg /\ pass'.snap = pass.snap
    /\ pass'.fresh => pass.fresh

LEMMA NameFrame ==
  ASSUME NameInv, UNCHANGED <<obj, cache, dirty, contested>>, PassGoesOn
  PROVE  NameInv'
  BY DEF NameInv, CacheFresh, PassFresh, SameName, UniqueUnlessRenamed, PassGoesOn

\* A stored version keeps the name and the finalizer of the one before it, or
\* has a name that is contested from now on.
LEMMA NameStore ==
  ASSUME TypeInv, NameInv, NEW c \in CSG, NEW o \in Obj \union {Gone},
         Store(c, o), UNCHANGED cache, contested \subseteq contested',
         PassGoesOn, pass' # NoPass => pass'.csg # c \/ ~pass'.fresh,
         o \in Obj /\ o.fin =>
           /\ obj[c] \in Obj /\ obj[c].fin
           /\ o.name = obj[c].name \/ o.name \in contested'
  PROVE  NameInv'
<1> USE DEF TypeInv, TypeOK
<1>1. obj' = [obj EXCEPT ![c] = o] /\ dirty' = dirty \union {c}
  BY DEF Store
<1>2. CacheFresh'
  BY <1>1 DEF NameInv, CacheFresh
<1>3. PassFresh'
  <2> SUFFICES ASSUME pass' # NoPass, pass'.fresh
               PROVE  obj'[pass'.csg] = pass'.snap
    BY DEF PassFresh
  <2>1. pass # NoPass /\ pass.fresh /\ pass'.csg = pass.csg
        /\ pass'.snap = pass.snap /\ pass.csg # c
    BY DEF PassGoesOn
  <2>2. pass.csg \in CSG /\ obj[pass.csg] = pass.snap
    BY <2>1 DEF NameInv, PassFresh, Pass
  <2> QED BY <1>1, <2>1, <2>2
<1>4. SameName'
  <2> SUFFICES ASSUME NEW d \in CSG, obj'[d] \in Obj, obj'[d].fin
               PROVE  /\ cache[d] \in Obj
                      /\ cache[d].name = obj'[d].name \/ obj'[d].name \in contested'
    BY DEF SameName
  <2>1. CASE d # c
    BY <1>1, <2>1 DEF NameInv, SameName
  <2>2. CASE d = c
    <3>1. obj'[d] = o
      BY <1>1, <2>2
    <3>2. obj[c] \in Obj /\ obj[c].fin
          /\ (o.name = obj[c].name \/ o.name \in contested')
      BY <3>1
    <3> QED BY <2>2, <3>1, <3>2 DEF NameInv, SameName
  <2> QED BY <2>1, <2>2
<1>5. UniqueUnlessRenamed'
  BY <1>1 DEF NameInv, UniqueUnlessRenamed
<1> QED BY <1>2, <1>3, <1>4, <1>5 DEF NameInv

LEMMA NameUser ==
  ASSUME TypeInv, NameInv, NEW c \in CSG, User(c)
  PROVE  NameInv'
<1> USE DEF TypeInv, TypeOK
<1>1. ASSUME NEW o \in Obj \union {Gone}, UserWrite(c, o),
             contested \subseteq contested',
             o \in Obj /\ o.fin =>
               /\ obj[c] \in Obj /\ obj[c].fin
               /\ o.name = obj[c].name \/ o.name \in contested'
      PROVE  NameInv'
  <2>1. PassGoesOn /\ (pass' # NoPass => pass'.csg # c \/ ~pass'.fresh)
    BY <1>1 DEF UserWrite, PassGoesOn, Pass
  <2>2. Store(c, o) /\ UNCHANGED cache
    BY <1>1 DEF UserWrite
  <2> QED BY <1>1, <2>1, <2>2, NameStore
<1>2. CASE ValidateCreate(c)
  <2> DEFINE new(n, v, p) == [name |-> n, cfg |-> v, policy |-> p, st |-> NoName,
                              fin |-> FALSE, deleting |-> FALSE]
  <2>1. PICK n \in Name, v \in Cfg, p \in Policy : UserWrite(c, new(n, v, p))
    BY <1>2 DEF ValidateCreate
  <2>2. new(n, v, p) \in Obj /\ ~new(n, v, p).fin
    BY DEF Obj
  <2>3. contested' = contested
    BY <1>2 DEF ValidateCreate
  <2> HIDE DEF new
  <2> QED BY <1>1, <2>1, <2>2, <2>3
<1>3. CASE ValidateUpdate(c)
  <2> DEFINE new(n, v, p) == [obj[c] EXCEPT !.name = n, !.cfg = v, !.policy = p]
  <2>1. PICK n \in Name, v \in Cfg, p \in Policy :
          /\ UserWrite(c, new(n, v, p))
          /\ \/ n = obj[c].name /\ contested' = contested
             \/ contested' = contested \union {n, obj[c].name}
    BY <1>3 DEF ValidateUpdate
  <2>2. obj[c] \in Obj
    BY <1>3 DEF ValidateUpdate
  <2>3. new(n, v, p) \in Obj /\ new(n, v, p).fin = obj[c].fin
        /\ new(n, v, p).name = n
    BY <2>2 DEF Obj
  <2>4. contested \subseteq contested'
    BY <2>1
  <2>5. n = obj[c].name \/ n \in contested'
    BY <2>1
  <2> HIDE DEF new
  <2>6. UserWrite(c, new(n, v, p))
    BY <2>1
  <2> QED BY <1>1, <2>2, <2>3, <2>4, <2>5, <2>6
<1>4. CASE UserDelete(c)
  <2> DEFINE o == [obj[c] EXCEPT !.deleting = TRUE]
  <2>1. obj[c] \in Obj /\ o \in Obj /\ o.name = obj[c].name /\ o.fin = obj[c].fin
    BY <1>4 DEF UserDelete, Obj
  <2>2. (UserWrite(c, o) \/ UserWrite(c, Gone)) /\ contested' = contested
    BY <1>4 DEF UserDelete
  <2> HIDE DEF o
  <2> QED BY <1>1, <2>1, <2>2
<1> QED BY <1>2, <1>3, <1>4 DEF User

LEMMA NameReconcile ==
  ASSUME TypeInv, NameInv, NEW c \in CSG, CacheSync(c) \/ Reconcile(c)
  PROVE  NameInv'
<1> USE DEF TypeInv, TypeOK, k8s
<1>1. CASE CacheSync(c)
  <2>1. /\ cache' = [cache EXCEPT ![c] = obj[c]] /\ dirty' = dirty \ {c}
        /\ UNCHANGED <<obj, pass, contested>>
    BY <1>1 DEF CacheSync
  <2>2. CacheFresh'
    BY <2>1 DEF NameInv, CacheFresh
  <2>3. SameName'
    BY <2>1 DEF NameInv, SameName
  <2>4. PassFresh' /\ UniqueUnlessRenamed'
    BY <2>1 DEF NameInv, PassFresh, UniqueUnlessRenamed
  <2> QED BY <2>2, <2>3, <2>4 DEF NameInv
<1>2. CASE AddFinalizer(c)
  <2> DEFINE o == [cache[c] EXCEPT !.fin = TRUE]
  <2>1. /\ cache[c] \in Obj /\ obj[c] = cache[c] /\ pass = NoPass
        /\ validateResourceUnicity(c, cache[c].name)
    BY <1>2 DEF AddFinalizer, Take, NameInv, CacheFresh
  <2>2. o \in Obj /\ o.name = cache[c].name
    BY <2>1 DEF Obj
  <2>3. /\ obj' = [obj EXCEPT ![c] = o] /\ dirty' = dirty \union {c}
        /\ UNCHANGED <<cache, pass, contested>>
    BY <1>2 DEF AddFinalizer, Store
  <2> HIDE DEF o
  <2>4. CacheFresh' /\ PassFresh'
    BY <2>1, <2>3 DEF NameInv, CacheFresh, PassFresh
  <2>5. SameName'
    BY <2>1, <2>2, <2>3 DEF NameInv, SameName
  <2>6. \A d \in CSG \ {c} :
          obj[d] \in Obj /\ obj[d].fin /\ obj[d].name = o.name => o.name \in contested
    BY <2>1, <2>2 DEF NameInv, SameName, validateResourceUnicity
  <2>7. UniqueUnlessRenamed'
    BY <2>2, <2>3, <2>6 DEF NameInv, UniqueUnlessRenamed
  <2> QED BY <2>4, <2>5, <2>7 DEF NameInv
<1>3. ASSUME NEW pc, NEW n, NEW todo, Begin(c, pc, n, todo)
      PROVE  NameInv'
  <2>1. /\ pass'.csg = c /\ pass'.snap = cache[c] /\ pass'.fresh = (c \notin dirty)
        /\ UNCHANGED <<obj, cache, dirty, contested>>
    BY <1>3 DEF Begin
  <2>2. PassFresh'
    BY <2>1 DEF NameInv, PassFresh, CacheFresh
  <2> QED BY <2>1, <2>2 DEF NameInv, CacheFresh, SameName, UniqueUnlessRenamed
<1>4. CASE ReconcileAbsent(c) \/ ReconcileNoDiff(c)
  BY <1>4, NameFrame DEF ReconcileAbsent, ReconcileNoDiff, PassGoesOn
<1>5. CASE ReconcileDelete(c) \/ ReconcileCreate(c) \/ ReconcileUpdate(c)
  BY <1>3, <1>5 DEF ReconcileDelete, ReconcileCreate, ReconcileUpdate
<1> QED BY <1>1, <1>2, <1>4, <1>5 DEF Reconcile

\* A pass ends, or goes on with a record that differs in its progress only.
LEMMA GoesOn ==
  ASSUME pass # NoPass, NEW next,
         next.csg = pass.csg, next.snap = pass.snap, next.fresh = pass.fresh,
         Reply(next) \/ Abort(next) \/ pass' = next
  PROVE  PassGoesOn
  BY DEF Reply, Abort, PassGoesOn

\* What a pass does to groups leaves the API server and the cache alone.
LEMMA WorkFrame ==
  ASSUME TypeInv, Work, ~WriteStatus, ~RemoveFinalizer
  PROVE  PassGoesOn /\ UNCHANGED k8s
<1> USE DEF TypeInv, TypeOK
<1>0. pass \in Pass /\ pass # NoPass
  BY DEF Work, SkipCall, CreateSkipped, CreateAdd, CreateFill, UpdateSkipped,
         UpdateSetCfg, UpdateRename, InUpdate, DeleteRemote, DeleteSkipped
<1>1. ASSUME NEW next, Reply(next) \/ Abort(next) \/ pass' = next,
             next.csg = pass.csg, next.snap = pass.snap, next.fresh = pass.fresh
      PROVE  PassGoesOn
  BY <1>0, <1>1, GoesOn
<1>2. ASSUME NEW pc
      PROVE  /\ [pass EXCEPT !.pc = pc].csg = pass.csg
             /\ [pass EXCEPT !.pc = pc].snap = pass.snap
             /\ [pass EXCEPT !.pc = pc].fresh = pass.fresh
  BY <1>0 DEF Pass
<1>3. ASSUME NEW f \in Field, NEW n \in Name
      PROVE  /\ Done(f, n).csg = pass.csg /\ Done(f, n).snap = pass.snap
             /\ Done(f, n).fresh = pass.fresh
  BY <1>0 DEF Done, Pass
<1>4. CASE CreateSkipped \/ UpdateSkipped \/ DeleteSkipped
  BY <1>1, <1>2, <1>4 DEF CreateSkipped, UpdateSkipped, DeleteSkipped, SkipCall
<1>5. CASE CreateAdd
  <2> DEFINE next == [pass EXCEPT !.pc = "fill", !.moved = TRUE]
  <2>1. next.csg = pass.csg /\ next.snap = pass.snap /\ next.fresh = pass.fresh
    BY <1>0 DEF Pass
  <2>2. (Reply(next) \/ Abort(pass)) /\ UNCHANGED k8s
    BY <1>5 DEF CreateAdd
  <2> QED BY <1>1, <2>1, <2>2
<1>6. CASE CreateFill
  BY <1>1, <1>2, <1>6 DEF CreateFill
<1>7. CASE UpdateSetCfg
  <2>1. Reply(Done("cfg", pass.at)) /\ UNCHANGED k8s /\ pass.at \in Name
    BY <1>0, <1>7 DEF UpdateSetCfg, Pass
  <2> QED BY <1>1, <1>3, <2>1 DEF Field
<1>8. CASE UpdateRename
  <2>1. /\ Reply(Done("name", pass.snap.name)) \/ Abort(pass)
        /\ UNCHANGED k8s /\ pass.snap.name \in Name
    BY <1>0, <1>8 DEF UpdateRename, Pass, Obj
  <2> QED BY <1>1, <1>3, <2>1 DEF Field
<1>9. CASE DeleteRemote
  BY <1>1, <1>2, <1>9 DEF DeleteRemote
<1> QED BY <1>4, <1>5, <1>6, <1>7, <1>8, <1>9 DEF Work

LEMMA NameWork ==
  ASSUME TypeInv, NameInv, Work
  PROVE  NameInv'
<1> USE DEF TypeInv, TypeOK
<1>1. CASE ~WriteStatus /\ ~RemoveFinalizer
  BY <1>1, WorkFrame, NameFrame DEF k8s
<1>2. ASSUME WriteStatus \/ RemoveFinalizer
      PROVE  pass \in Pass /\ pass # NoPass /\ pass.csg \in CSG /\ pass.snap \in Obj
  BY <1>2 DEF WriteStatus, Record, RemoveFinalizer, Pass
<1>3. ASSUME Abort(pass), UNCHANGED <<obj, cache, dirty, contested>>
      PROVE  NameInv'
  BY <1>3, NameFrame DEF Abort, PassGoesOn
<1>4. CASE WriteStatus
  <2>1. CASE pass.fresh
    <3> DEFINE o == [pass.snap EXCEPT !.st = pass.snap.name]
    <3>1. o \in Obj /\ o.fin = pass.snap.fin /\ o.name = pass.snap.name
      BY <1>2, <1>4 DEF Obj, Pass
    <3>2. obj[pass.csg] = pass.snap
      BY <1>2, <1>4, <2>1 DEF NameInv, PassFresh
    <3>3. /\ Store(pass.csg, o) /\ pass' = NoPass
          /\ UNCHANGED <<cache, contested>>
      BY <1>4, <2>1 DEF WriteStatus, Record
    <3>4. PassGoesOn
      BY <3>3 DEF PassGoesOn
    <3> HIDE DEF o
    <3> QED BY <1>2, <1>4, <3>1, <3>2, <3>3, <3>4, NameStore
  <2>2. CASE ~pass.fresh
    BY <1>3, <1>4, <2>2 DEF WriteStatus, Record
  <2> QED BY <2>1, <2>2
<1>5. CASE RemoveFinalizer
  <2>1. CASE pass.fresh /\ validateResourceUnicity(pass.csg, pass.snap.name)
    <3>1. /\ Store(pass.csg, Gone) /\ pass' = NoPass
          /\ UNCHANGED <<cache, contested>> /\ PassGoesOn
      BY <1>5, <2>1 DEF RemoveFinalizer, PassGoesOn
    <3> QED BY <1>2, <1>5, <3>1, NameStore
  <2>2. CASE ~(pass.fresh /\ validateResourceUnicity(pass.csg, pass.snap.name))
    BY <1>3, <1>5, <2>2 DEF RemoveFinalizer
  <2> QED BY <2>1, <2>2
<1> QED BY <1>1, <1>4, <1>5

LEMMA NameNext == TypeInv /\ NameInv /\ [Next]_vars => NameInv'
<1> SUFFICES ASSUME TypeInv, NameInv, [Next]_vars
             PROVE  NameInv'
  OBVIOUS
<1>1. CASE CallFails
  BY <1>1, NameFrame DEF CallFails, Abort, PassGoesOn, k8s
<1>2. CASE Restart
  BY <1>2 DEF Restart, NameInv, CacheFresh, PassFresh, SameName,
              UniqueUnlessRenamed, TypeInv, TypeOK
<1>3. ASSUME NEW s \in Service, UpdateService(s) \/ JobFails(s)
      PROVE  NameInv'
  BY <1>3, NameFrame DEF UpdateService, InGroup, SetServiceGroups,
     DeleteServiceGroups, JobFails, PassGoesOn, k8s
<1>4. CASE UNCHANGED vars
  BY <1>4, NameFrame DEF vars, PassGoesOn
<1> QED BY <1>1, <1>2, <1>3, <1>4, NameUser, NameReconcile, NameWork DEF Next

(***************************************************************************)
(* Two resources admitted with one name do not both get their finalizer,   *)
(* however late the cache is, unless an edit gave that name to a resource  *)
(* or took it from one.                                                    *)
(***************************************************************************)
THEOREM UniqueTheorem == Spec => []UniqueUnlessRenamed
<1>1. Spec => [](TypeInv /\ NameInv)
  BY TypeInit, TypeNext, NameInit, NameNext, PTL DEF Spec
<1>2. NameInv => UniqueUnlessRenamed
  BY DEF NameInv
<1> QED BY <1>1, <1>2, PTL

-----------------------------------------------------------------------------
(***************************************************************************)
(* RestingServiceJoined.  A service that has passed its first call is a    *)
(* member of its group, or was counted lost when a pass over groups took   *)
(* the group away; the groups it is about to leave are others.             *)
(***************************************************************************)
JoinedOrLost(s) ==
  job[s].pc # "queued" =>
    /\ s \in lost \/ Member(s, Groups[s])
    /\ Groups[s] \notin job[s].drop

JoinedInv == \A s \in Service : JoinedOrLost(s)

LEMMA JoinedInit == Init => JoinedInv
  BY DEF Init, JoinedInv, JoinedOrLost, Queued

\* Whoever loses its group in a step is counted.
LossesCounted ==
  /\ job' = job /\ lost \subseteq lost'
  /\ \A s \in Service :
       Member(s, Groups[s]) => \/ Member(s, Groups[s])'
                               \/ job[s].pc = "queued" \/ s \in lost'

LEMMA JoinedLosses ==
  ASSUME TypeInv, JoinedInv, LossesCounted
  PROVE  JoinedInv'
  BY DEF JoinedInv, JoinedOrLost, LossesCounted

LEMMA JoinedFrame ==
  ASSUME JoinedInv, UNCHANGED <<remote, job, lost>>
  PROVE  JoinedInv'
  BY DEF JoinedInv, JoinedOrLost, Member

LEMMA JoinedWork ==
  ASSUME TypeInv, JoinedInv, Work
  PROVE  JoinedInv'
<1> USE DEF TypeInv, TypeOK
<1>1. CASE CreateSkipped \/ UpdateSkipped \/ DeleteSkipped
  BY <1>1, JoinedFrame DEF CreateSkipped, UpdateSkipped, DeleteSkipped, SkipCall
<1>2. CASE WriteStatus \/ RemoveFinalizer
  BY <1>2, JoinedFrame DEF WriteStatus, Record, RemoveFinalizer
<1>3. CASE CreateAdd
  <2>1. job' = job /\ lost' = lost
        /\ \A n \in Name : remote[n] # NoGroup => remote'[n] = remote[n]
    BY <1>3 DEF CreateAdd
  <2> QED BY <2>1, JoinedLosses DEF LossesCounted, Member
<1>4. CASE CreateFill \/ UpdateSetCfg
  <2>1. /\ job' = job /\ lost' = lost /\ pass.at \in Name
        /\ remote[pass.at] \in Group
    BY <1>4 DEF CreateFill, UpdateSetCfg, InUpdate, PassHasGroup, Pass
  <2> DEFINE filled == [remote[pass.at] EXCEPT !.cfg = pass.snap.cfg]
             set == [filled EXCEPT !.owner = pass.csg]
  <2>2. filled.members = remote[pass.at].members
        /\ set.members = remote[pass.at].members
    BY <2>1 DEF Group
  <2>3. /\ pass.snap.cfg \in Cfg /\ pass.csg \in CSG
    BY <1>4 DEF CreateFill, UpdateSetCfg, InUpdate, Pass, Obj
  <2>4. filled \in Group /\ set \in Group
    BY <2>1, <2>3 DEF Group
  <2>5. \/ remote' = [remote EXCEPT ![pass.at] = filled]
        \/ remote' = [remote EXCEPT ![pass.at] = set]
    BY <1>4 DEF CreateFill, UpdateSetCfg
  <2> HIDE DEF filled, set
  <2>6. \A n \in Name :
          remote[n] # NoGroup =>
            remote'[n] # NoGroup /\ remote'[n].members = remote[n].members
    BY <2>1, <2>2, <2>4, <2>5
  <2> QED BY <2>1, <2>6, JoinedLosses DEF LossesCounted, Member
<1>5. CASE UpdateRename \/ DeleteRemote
  <2>1. PICK n \in Name :
          \/ UNCHANGED <<remote, lost>>
          \/ /\ lost' = lost \union Losing(n)
             /\ \A m \in Name \ {n} : remote[m] # NoGroup => remote'[m] = remote[m]
    <3>1. CASE DeleteRemote
      <4>1. pass.snap.name \in Name
        BY <3>1 DEF DeleteRemote, Pass, Obj
      <4> QED BY <3>1, <4>1 DEF DeleteRemote
    <3>2. CASE UpdateRename
      <4>1. pass.at \in Name
        BY <3>2 DEF UpdateRename, InUpdate, Pass
      <4>2. CASE remote[pass.snap.name] = NoGroup
        <5>1. \A m \in Name \ {pass.at} : remote[m] # NoGroup => remote'[m] = remote[m]
          BY <3>2, <4>2 DEF UpdateRename
        <5> QED BY <3>2, <4>1, <4>2, <5>1 DEF UpdateRename
      <4>3. CASE remote[pass.snap.name] # NoGroup
        BY <3>2, <4>1, <4>3 DEF UpdateRename
      <4> QED BY <4>2, <4>3
    <3> QED BY <1>5, <3>1, <3>2
  <2>2. job' = job
    BY <1>5 DEF UpdateRename, DeleteRemote
  <2> QED BY <2>1, <2>2, JoinedLosses DEF LossesCounted, Member, Losing
<1> QED BY <1>1, <1>2, <1>3, <1>4, <1>5 DEF Work

\* A step of the pass over s concerns the other services' memberships not at all.
LEMMA JoinedService ==
  ASSUME TypeInv, JoinedInv, NEW s \in Service, UpdateService(s) \/ JobFails(s)
  PROVE  JoinedInv'
<1> USE DEF TypeInv, TypeOK, ghosts
<1>1. ASSUME NEW j, job' = [job EXCEPT ![s] = j],
             lost' = lost \/ lost' = lost \ {s},
             \A r \in Service \ {s} : Member(r, Groups[r]) => Member(r, Groups[r])',
             j.pc # "queued" => /\ lost' = lost
                                /\ Groups[s] \notin j.drop
                                /\ s \in lost \/ Member(s, Groups[s])'
      PROVE  JoinedInv'
  BY <1>1 DEF JoinedInv, JoinedOrLost
<1>2. Groups[s] \notin Rest(s).drop /\ Groups[s] \notin Idle.drop
      /\ Queued.pc = "queued"
  BY DEF Rest, Others, Idle, Queued
<1>3. ASSUME remote[Groups[s]] # NoGroup, remote' = Joined(s)
      PROVE  /\ \A r \in Service, n \in Name : Member(r, n) => Member(r, n)'
             /\ Member(s, Groups[s])'
  <2>1. remote[Groups[s]] \in Group
    BY <1>3
  <2> DEFINE more == [remote[Groups[s]] EXCEPT !.members = @ \union {s}]
  <2>2. more \in Group /\ more.members = remote[Groups[s]].members \union {s}
    BY <2>1 DEF Group
  <2>3. remote' = [remote EXCEPT ![Groups[s]] = more]
    BY <1>3 DEF Joined
  <2> HIDE DEF more
  <2> QED BY <2>2, <2>3 DEF Member
<1>4. CASE InGroup(s)
  BY <1>1, <1>2, <1>4 DEF InGroup, Member
<1>5. CASE SetServiceGroups(s)
  <2>1. /\ remote[Groups[s]] # NoGroup /\ remote' = Joined(s)
        /\ job' = [job EXCEPT ![s] = Rest(s)] /\ lost' = lost
    BY <1>5 DEF SetServiceGroups
  <2> QED BY <1>1, <1>2, <1>3, <2>1
<1>6. CASE DeleteServiceGroups(s)
  <2>1. CASE \A n \in job[s].drop : remote[n] # NoGroup
    <3>1. /\ remote' = [n \in Name |->
                          IF n \in job[s].drop
                          THEN [remote[n] EXCEPT !.members = @ \ {s}] ELSE remote[n]]
          /\ job' = [job EXCEPT ![s] = Idle] /\ lost' = lost
      BY <1>6, <2>1 DEF DeleteServiceGroups
    <3>2. job[s].drop \subseteq Name
      BY DEF Job
    <3> DEFINE less(n) == [remote[n] EXCEPT !.members = @ \ {s}]
    <3>3. \A n \in job[s].drop :
            less(n) \in Group /\ less(n).members = remote[n].members \ {s}
      BY <2>1, <3>2 DEF Group
    <3>4. \A n \in Name :
            remote'[n] = IF n \in job[s].drop THEN less(n) ELSE remote[n]
      BY <3>1
    <3> HIDE DEF less
    <3>5. \A r \in Service \ {s}, n \in Name : Member(r, n) => Member(r, n)'
      BY <3>3, <3>4 DEF Member
    <3>6. /\ s \in lost \/ Member(s, Groups[s])
          /\ Groups[s] \notin job[s].drop
      BY <1>6 DEF DeleteServiceGroups, JoinedInv, JoinedOrLost
    <3>7. s \in lost \/ Member(s, Groups[s])'
      BY <3>4, <3>6 DEF Member
    <3> QED BY <1>1, <1>2, <3>1, <3>5, <3>7
  <2>2. CASE ~ \A n \in job[s].drop : remote[n] # NoGroup
    <3>1. Requeue(s) /\ UNCHANGED remote
      BY <1>6, <2>2 DEF DeleteServiceGroups
    <3> QED BY <1>1, <1>2, <3>1 DEF Requeue, Member
  <2> QED BY <2>1, <2>2
<1>7. CASE JobFails(s)
  <2>1. Requeue(s) /\ (UNCHANGED remote \/ (remote[Groups[s]] # NoGroup
                                            /\ remote' = Joined(s)))
    BY <1>7 DEF JobFails
  <2>2. \A r \in Service \ {s} : Member(r, Groups[r]) => Member(r, Groups[r])'
    BY <1>3, <2>1 DEF Member
  <2> QED BY <1>1, <1>2, <2>1, <2>2 DEF Requeue
<1> QED BY <1>4, <1>5, <1>6, <1>7 DEF UpdateService

LEMMA JoinedNext == TypeInv /\ JoinedInv /\ [Next]_vars => JoinedInv'
<1> SUFFICES ASSUME TypeInv, JoinedInv, [Next]_vars
             PROVE  JoinedInv'
  OBVIOUS
<1>1. CASE CallFails
  BY <1>1, JoinedFrame DEF CallFails
<1>2. CASE Restart
  BY <1>2 DEF Restart, JoinedInv, JoinedOrLost, Queued
<1>3. ASSUME NEW c \in CSG, User(c) \/ CacheSync(c) \/ Reconcile(c)
      PROVE  JoinedInv'
  BY <1>3, JoinedFrame DEF User, ValidateCreate, ValidateUpdate, UserDelete,
     UserWrite, CacheSync, Reconcile, ReconcileAbsent, AddFinalizer,
     ReconcileDelete, ReconcileCreate, ReconcileUpdate, ReconcileNoDiff, Begin, ghosts
<1>4. CASE UNCHANGED vars
  BY <1>4, JoinedFrame DEF vars
<1> QED BY <1>1, <1>2, <1>3, <1>4, JoinedWork, JoinedService DEF Next

(***************************************************************************)
(* A service that rests is in its group, whichever of the two resources    *)
(* came first, unless the group was taken away after it had joined.        *)
(***************************************************************************)
THEOREM JoinedTheorem == Spec => []RestingServiceJoined
<1>1. Spec => [](TypeInv /\ JoinedInv)
  BY TypeInit, TypeNext, JoinedInit, JoinedNext, PTL DEF Spec
<1>2. JoinedInv => RestingServiceJoined
  BY DEF JoinedInv, JoinedOrLost, RestingServiceJoined
<1> QED BY <1>1, <1>2, PTL

-----------------------------------------------------------------------------
(***************************************************************************)
(* What the steps do, in the terms of the invariants below: a version is   *)
(* stored (Stored), a pass begins (Starts), or a call of the running pass  *)
(* is made (Called), which leaves the groups alone, writes the one the     *)
(* pass is at, renames it or removes the one the spec names.               *)
(***************************************************************************)

Stored(c, o) ==
  /\ Store(c, o) /\ o \in Obj \union {Gone}
  /\ UNCHANGED <<cache, remote, left>>
  /\ queue' \subseteq queue /\ queue \subseteq queue' \union {c}
  /\ slip \subseteq slip'
  /\ contested \subseteq contested' /\ renamed \subseteq renamed'
  /\ pass' = NoPass => pass = NoPass \/ pass.csg = c
  /\ pass' # NoPass =>
       /\ pass # NoPass /\ pass'.csg = pass.csg /\ pass'.snap = pass.snap
       /\ pass'.at = pass.at /\ pass'.todo = pass.todo
       /\ pass'.moved = pass.moved /\ pass'.pc = pass.pc
       /\ pass'.fresh => pass.fresh /\ pass.csg # c
  /\ o \in Obj =>
       /\ obj[c] # Gone
       /\ obj[c] \in Obj =>
            /\ obj[c].fin => o.fin
            /\ \/ o.name = obj[c].name
               \/ {o.name, obj[c].name} \subseteq contested' /\ c \in renamed'
            /\ o.st = obj[c].st \/ o.st = o.name
       /\ obj[c] = Unborn => o.st = NoName /\ ~o.fin

Starts(c) ==
  /\ pass = NoPass /\ c \in queue /\ queue' = queue \ {c}
  /\ cache[c] \in Obj /\ cache[c].fin
  /\ pass' # NoPass /\ pass'.csg = c /\ pass'.snap = cache[c] /\ pass'.fresh = (c \notin dirty)
  /\ ~pass'.moved /\ pass'.pc \in {"create", "update", "delete"}
  /\ pass'.pc = "create" => remote[Get(cache[c])] = NoGroup
  /\ pass'.at = IF pass'.pc = "update" THEN Get(cache[c]) ELSE cache[c].name
  /\ "name" \in pass'.todo => pass'.at # cache[c].name
  /\ pass'.todo \subseteq Field
  /\ UNCHANGED <<k8s, remote, slip, left>>

Writing(p) == p.pc \notin {"delete", "release"}

Called(next) ==
  /\ pass # NoPass /\ next \in Pass
  /\ next.csg = pass.csg /\ next.snap = pass.snap /\ next.fresh = pass.fresh
  /\ \/ pass' = next /\ UNCHANGED <<queue, slip>>
     \/ Abort(next)
  /\ UNCHANGED k8s

\* The call does nothing, or says that it failed.
Quiet(next) ==
  /\ Called(next) /\ UNCHANGED remote /\ left \subseteq left'
  /\ next.at = pass.at /\ next.todo = pass.todo /\ next.moved = pass.moved
  /\ Writing(next) <=> Writing(pass)
  /\ next.pc = "release" => pass.pc = "release" \/ pass.csg \in left'

Writes(next, g) ==
  /\ Called(next) /\ UNCHANGED left
  /\ remote' = [remote EXCEPT ![pass.at] = g] /\ g \in Group
  /\ g.owner = pass.csg \/ (remote[pass.at] \in Group /\ g.owner = remote[pass.at].owner)
  /\ Writing(pass) /\ Writing(next)
  /\ next.at = pass.at /\ next.todo \subseteq pass.todo
  /\ ~next.moved => /\ ~pass.moved
                    /\ \/ pass.at = pass.snap.st
                       \/ remote[pass.at] \in Group /\ g.owner = remote[pass.at].owner

Renames(next, g) ==
  /\ Called(next) /\ UNCHANGED left
  /\ "name" \in pass.todo
  /\ remote[pass.at] \in Group /\ remote[pass.snap.name] = NoGroup
  /\ remote' = [remote EXCEPT ![pass.snap.name] = g, ![pass.at] = NoGroup]
  /\ g \in Group /\ g.owner = pass.csg
  /\ Writing(pass) /\ Writing(next)
  /\ next.at = pass.snap.name /\ next.todo \subseteq pass.todo
  /\ ~next.moved => pass.snap.name = pass.snap.st

Removes(next) ==
  /\ Called(next)
  /\ remote' = [remote EXCEPT ![pass.snap.name] = NoGroup]
  /\ pass.pc = "delete" /\ next.pc = "release"
  /\ next.at = pass.at /\ next.todo = pass.todo
  /\ left' = IF pass.snap.st \in {NoName, pass.snap.name}
             THEN left ELSE left \union {pass.csg}

\* The pass ends with a version stored.
Ends(o) ==
  /\ pass # NoPass /\ pass.fresh /\ pass' = NoPass
  /\ Store(pass.csg, o)
  /\ UNCHANGED <<cache, edits, renamed, contested, remote, left, queue>>

LEMMA WorkEffect ==
  ASSUME TypeInv, Work
  PROVE  \/ \E next \in Pass :
              \/ Quiet(next) \/ Removes(next)
              \/ \E g \in Group : Writes(next, g) \/ Renames(next, g)
         \/ /\ WriteStatus /\ Ends([pass.snap EXCEPT !.st = pass.snap.name])
            /\ slip' = IF pass.at # pass.snap.name
                       THEN slip \union {pass.csg} ELSE slip
         \/ /\ RemoveFinalizer /\ Ends(Gone) /\ UNCHANGED slip
<1> USE DEF TypeInv, TypeOK
<1>0. /\ pass \in Pass /\ pass # NoPass /\ pass.csg \in CSG /\ pass.at \in Name
      /\ pass.snap \in Obj /\ pass.snap.name \in Name /\ pass.snap.cfg \in Cfg
      /\ pass.todo \subseteq Field
  BY DEF Pass, Obj, Work, SkipCall, CreateSkipped, CreateAdd, CreateFill,
         UpdateSkipped, UpdateSetCfg, UpdateRename, InUpdate, WriteStatus, Record,
         DeleteRemote, DeleteSkipped, RemoveFinalizer
<1>1. ASSUME Abort(pass), UNCHANGED <<k8s, remote, left>>
      PROVE  \E next \in Pass : Quiet(next)
  <2>1. Quiet(pass)
    BY <1>0, <1>1 DEF Quiet, Called
  <2> QED BY <1>0, <2>1
<1>2. ASSUME NEW pc \in {"status", "release"}, Writing(pass) <=> pc = "status",
             NEW flag, SkipCall(pass.pc, flag, pc), left \subseteq left',
             pc = "release" => pass.csg \in left'
      PROVE  \E next \in Pass : Quiet(next)
  <2> DEFINE next == [pass EXCEPT !.pc = pc]
  <2>1. /\ next \in Pass /\ next.csg = pass.csg /\ next.snap = pass.snap
        /\ next.fresh = pass.fresh /\ next.at = pass.at /\ next.todo = pass.todo
        /\ next.moved = pass.moved /\ next.pc = pc
    BY <1>0 DEF Pass
  <2>2. pass' = next /\ UNCHANGED <<queue, slip, k8s, remote>>
    BY <1>2 DEF SkipCall
  <2> HIDE DEF next
  <2>3. Quiet(next)
    BY <1>0, <1>2, <2>1, <2>2 DEF Quiet, Called, Writing
  <2> QED BY <2>1, <2>3
<1>3. CASE CreateSkipped \/ UpdateSkipped \/ DeleteSkipped
  BY <1>2, <1>3 DEF CreateSkipped, UpdateSkipped, DeleteSkipped, SkipCall, Writing
<1>4. CASE CreateAdd
  <2>1. CASE pass.snap.cfg # Blank /\ remote[pass.at] = NoGroup
    <3> DEFINE next == [pass EXCEPT !.pc = "fill", !.moved = TRUE]
    <3> DEFINE g == [cfg |-> Bare, owner |-> pass.csg, members |-> {}]
    <3>1. /\ next \in Pass /\ next.csg = pass.csg /\ next.snap = pass.snap
          /\ next.fresh = pass.fresh /\ next.at = pass.at /\ next.todo = pass.todo
          /\ next.moved /\ next.pc = "fill"
      BY <1>0 DEF Pass
    <3>2. g \in Group /\ g.owner = pass.csg
      BY <1>0 DEF Group
    <3>3. /\ remote' = [remote EXCEPT ![pass.at] = g] /\ Reply(next)
          /\ UNCHANGED <<k8s, left>> /\ pass.pc = "create"
      BY <1>4, <2>1 DEF CreateAdd
    <3> HIDE DEF next, g
    <3>4. Writes(next, g)
      BY <1>0, <3>1, <3>2, <3>3 DEF Writes, Called, Reply, Writing
    <3> QED BY <3>1, <3>2, <3>4
  <2>2. CASE ~(pass.snap.cfg # Blank /\ remote[pass.at] = NoGroup)
    <3>1. Abort(pass) /\ UNCHANGED <<k8s, remote, left>>
      BY <1>4, <2>2 DEF CreateAdd
    <3> QED BY <1>1, <3>1
  <2> QED BY <2>1, <2>2
<1>5. CASE CreateFill
  <2> DEFINE next == [pass EXCEPT !.pc = "status"]
  <2> DEFINE g == [remote[pass.at] EXCEPT !.cfg = pass.snap.cfg]
  <2>1. /\ next \in Pass /\ next.csg = pass.csg /\ next.snap = pass.snap
        /\ next.fresh = pass.fresh /\ next.at = pass.at /\ next.todo = pass.todo
        /\ next.moved = pass.moved /\ next.pc = "status"
    BY <1>0 DEF Pass
  <2>2. remote[pass.at] \in Group /\ g \in Group /\ g.owner = remote[pass.at].owner
    BY <1>0, <1>5 DEF CreateFill, PassHasGroup, Group
  <2>3. /\ remote' = [remote EXCEPT ![pass.at] = g] /\ Reply(next)
        /\ UNCHANGED <<k8s, left>> /\ pass.pc = "fill"
    BY <1>5 DEF CreateFill
  <2> HIDE DEF next, g
  <2>4. Writes(next, g)
    BY <1>0, <2>1, <2>2, <2>3 DEF Writes, Called, Reply, Writing
  <2> QED BY <2>1, <2>2, <2>4
<1>6. ASSUME NEW f \in Field, NEW n \in Name
      PROVE  /\ Done(f, n) \in Pass /\ Done(f, n).csg = pass.csg
             /\ Done(f, n).snap = pass.snap /\ Done(f, n).fresh = pass.fresh
             /\ Done(f, n).at = n /\ Done(f, n).todo \subseteq pass.todo
             /\ ~Done(f, n).moved => ~pass.moved /\ n = pass.snap.st
             /\ Done(f, n).pc \in {"status", "update"}
  BY <1>0 DEF Done, Pass
<1>7. CASE UpdateSetCfg
  <2> DEFINE next == Done("cfg", pass.at)
  <2> DEFINE f == [remote[pass.at] EXCEPT !.cfg = pass.snap.cfg]
  <2> DEFINE g == [f EXCEPT !.owner = pass.csg]
  <2>1. /\ next \in Pass /\ next.csg = pass.csg /\ next.snap = pass.snap
        /\ next.fresh = pass.fresh /\ next.at = pass.at
        /\ next.todo \subseteq pass.todo
        /\ ~next.moved => ~pass.moved /\ pass.at = pass.snap.st
        /\ next.pc \in {"status", "update"}
    BY <1>0, <1>6 DEF Field
  <2>2. f \in Group /\ g \in Group /\ g.owner = pass.csg
    BY <1>0, <1>7 DEF UpdateSetCfg, InUpdate, PassHasGroup, Group
  <2>3. /\ remote' = [remote EXCEPT ![pass.at] = g] /\ Reply(next)
        /\ UNCHANGED <<k8s, left>> /\ pass.pc = "update"
    BY <1>0, <1>7 DEF UpdateSetCfg, InUpdate
  <2> HIDE DEF next, f, g
  <2>4. Writes(next, g)
    BY <1>0, <2>1, <2>2, <2>3 DEF Writes, Called, Reply, Writing
  <2> QED BY <2>1, <2>2, <2>4
<1>8. CASE UpdateRename
  <2>1. CASE remote[pass.snap.name] = NoGroup
    <3> DEFINE next == Done("name", pass.snap.name)
    <3> DEFINE g == [remote[pass.at] EXCEPT !.owner = pass.csg]
    <3>1. /\ next \in Pass /\ next.csg = pass.csg /\ next.snap = pass.snap
          /\ next.fresh = pass.fresh /\ next.at = pass.snap.name
          /\ next.todo \subseteq pass.todo
          /\ ~next.moved => pass.snap.name = pass.snap.st
          /\ next.pc \in {"status", "update"}
      BY <1>0, <1>6 DEF Field
    <3>2. remote[pass.at] \in Group /\ g \in Group /\ g.owner = pass.csg
      BY <1>0, <1>8 DEF UpdateRename, InUpdate, PassHasGroup, Group
    <3>3. /\ remote' = [remote EXCEPT ![pass.snap.name] = g, ![pass.at] = NoGroup]
          /\ Reply(next) /\ UNCHANGED <<k8s, left>>
          /\ pass.pc = "update" /\ "name" \in pass.todo
      BY <1>8, <2>1 DEF UpdateRename, InUpdate
    <3> HIDE DEF next, g
    <3>4. Renames(next, g)
      BY <1>0, <2>1, <3>1, <3>2, <3>3 DEF Renames, Called, Reply, Writing
    <3> QED BY <3>1, <3>2, <3>4
  <2>2. CASE remote[pass.snap.name] # NoGroup
    BY <1>1, <1>8, <2>2 DEF UpdateRename
  <2> QED BY <2>1, <2>2
<1>9. CASE WriteStatus
  <2>1. CASE pass.fresh
    BY <1>0, <1>9, <2>1 DEF WriteStatus, Record, Ends
  <2>2. CASE ~pass.fresh
    BY <1>1, <1>9, <2>2 DEF WriteStatus, Record, k8s
  <2> QED BY <2>1, <2>2
<1>10. CASE DeleteRemote
  <2> DEFINE next == [pass EXCEPT !.pc = "release"]
  <2>1. /\ next \in Pass /\ next.csg = pass.csg /\ next.snap = pass.snap
        /\ next.fresh = pass.fresh /\ next.at = pass.at /\ next.todo = pass.todo
        /\ next.moved = pass.moved /\ next.pc = "release"
    BY <1>0 DEF Pass
  <2>2. /\ remote' = [remote EXCEPT ![pass.snap.name] = NoGroup]
        /\ left' = IF pass.snap.st \in {NoName, pass.snap.name}
                   THEN left ELSE left \union {pass.csg}
        /\ Reply(next) /\ UNCHANGED k8s /\ pass.pc = "delete"
    BY <1>10 DEF DeleteRemote
  <2> HIDE DEF next
  <2>3. Removes(next)
    BY <1>0, <2>1, <2>2 DEF Removes, Called, Reply
  <2> QED BY <2>1, <2>3
<1>11. CASE RemoveFinalizer
  <2>1. CASE pass.fresh /\ validateResourceUnicity(pass.csg, pass.snap.name)
    BY <1>0, <1>11, <2>1 DEF RemoveFinalizer, Ends
  <2>2. CASE ~(pass.fresh /\ validateResourceUnicity(pass.csg, pass.snap.name))
    BY <1>1, <1>11, <2>2 DEF RemoveFinalizer, k8s
  <2> QED BY <2>1, <2>2
<1> QED BY <1>3, <1>4, <1>5, <1>7, <1>8, <1>9, <1>10, <1>11 DEF Work

-----------------------------------------------------------------------------
(***************************************************************************)
(* The invariants the rest of this module is about.                        *)
(***************************************************************************)

\* The resource is past the update that gave it its finalizer.
Finalized(c) == obj[c] # Unborn /\ (obj[c] \in Obj => obj[c].fin)

\* Groups are written for such resources only.
FinInv ==
  /\ \A c \in CSG : /\ cache[c] \in Obj => obj[c] # Unborn
                    /\ cache[c] \in Obj /\ cache[c].fin => Finalized(c)
  /\ pass # NoPass => Finalized(pass.csg)
  /\ \A n \in Name : remote[n] # NoGroup => Finalized(remote[n].owner)

On(c) == pass # NoPass /\ pass.csg = c

\* The pass creates or updates the group of c.
Active(c) == On(c) /\ Writing(pass)

\* A status is recorded while no pass of the resource is due, so the next one
\* reads it.
StatusSeen ==
  \A c \in CSG :
    (c \in queue \/ On(c)) /\ cache[c] \in Obj /\ cache[c].fin =>
      obj[c] \in Obj /\ obj[c].st = cache[c].st

PassSeen ==
  pass # NoPass =>
    /\ obj[pass.csg] \in Obj /\ obj[pass.csg].st = pass.snap.st
    /\ pass.fresh => pass.csg \notin dirty \union queue

\* The one group of a resource is the one its pass is at; when the pass moved
\* nothing, or there is none, its status names it.
Tracked ==
  \A c \in CSG \ slip : \A n \in Owned(c) :
    /\ Owned(c) = {n}
    /\ obj[c] \in Obj \/ c \in left
    /\ On(c) /\ pass.pc = "release" => c \in left
    /\ Active(c) => pass.at = n
    /\ obj[c] \in Obj /\ (Active(c) => ~pass.moved) => obj[c].st = n

TrackInv == FinInv /\ StatusSeen /\ PassSeen /\ Tracked

\* Two names an edit may have turned into each other.
Same(n, m) == n = m \/ {n, m} \subseteq contested

\* What the cache, the status, the pass and Centreon show of a resource is its
\* name, unless an edit contested it.
NamesKept ==
  \A c \in CSG : obj[c] \in Obj =>
    /\ cache[c] \in Obj => Same(cache[c].name, obj[c].name)
    /\ obj[c].st = NoName \/ Same(obj[c].st, obj[c].name)

PassNames ==
  pass # NoPass => /\ Same(pass.snap.name, obj[pass.csg].name)
                   /\ Same(pass.at, pass.snap.name)

NamedOwner ==
  \A n \in Name :
    remote[n] # NoGroup /\ obj[remote[n].owner] \in Obj =>
      Same(n, obj[remote[n].owner].name)

NamedInv == NamesKept /\ PassNames /\ NamedOwner

\* A resource that was never renamed has at most one group, under its name.
HomeOwned ==
  \A c \in CSG \ renamed :
    /\ obj[c] \in Obj => /\ obj[c].st \in {NoName, obj[c].name}
                         /\ Owned(c) \subseteq {obj[c].name}
                         /\ cache[c] \in Obj => cache[c].name = obj[c].name
    /\ Owned(c) # {} => obj[c] \in Obj \/ c \in left

PassHome ==
  pass # NoPass /\ pass.csg \notin renamed =>
    /\ pass.snap.name = obj[pass.csg].name /\ pass.at = pass.snap.name
    /\ pass.todo \subseteq {"cfg"}
    /\ pass.pc = "release" => Owned(pass.csg) = {} \/ pass.csg \in left

HomeInv == HomeOwned /\ PassHome

GroupInv == TypeInv /\ NameInv /\ TrackInv /\ NamedInv /\ HomeInv

LEMMA GroupInit == Init => GroupInv
<1> SUFFICES ASSUME Init PROVE GroupInv
  OBVIOUS
<1>1. /\ \A c \in CSG : obj[c] = Unborn /\ cache[c] = Unborn
      /\ \A c \in CSG : Owned(c) = {}
      /\ pass = NoPass /\ \A n \in Name : remote[n] = NoGroup
  BY DEF Init, Owned
<1>2. Unborn \notin Obj
  BY AbsentAssumption
<1>3. TrackInv
  BY <1>1, <1>2 DEF TrackInv, FinInv, StatusSeen, PassSeen, Tracked
<1>4. NamedInv /\ HomeInv
  BY <1>1, <1>2
     DEF NamedInv, NamesKept, PassNames, NamedOwner, HomeInv, HomeOwned, PassHome
<1> QED BY <1>3, <1>4, TypeInit, NameInit DEF GroupInv

\* Why a version o of c may be stored: the next pass still finds the group.
Safe(c, o) ==
  /\ c \notin slip' =>
       \A n \in Owned(c) :
         IF o \in Obj THEN o.st = n \/ (Active(c) /\ pass' # NoPass /\ pass.moved)
                      ELSE c \in left
  /\ o = Gone => /\ c \in left \/ Owned(c) = {} \/ c \in renamed
                 /\ slip' = slip
  /\ \/ o \in Obj /\ obj[c] \in Obj /\ o.st = obj[c].st
     \/ ~Finalized(c)
     \/ c \notin queue /\ pass' = NoPass

\* Nothing changes but the members of groups, or a key is taken off the queue.
Idles ==
  /\ UNCHANGED <<obj, cache, dirty, renamed, contested, pass, slip, left>>
  /\ queue' \subseteq queue
  /\ \A n \in Name :
       /\ remote'[n] = NoGroup <=> remote[n] = NoGroup
       /\ remote[n] # NoGroup => /\ remote'[n].owner = remote[n].owner
                                 /\ remote'[n].cfg = remote[n].cfg

LEMMA NoneOwned ==
  ASSUME TypeInv, FinInv, NEW c \in CSG, ~Finalized(c)
  PROVE  Owned(c) = {}
  BY DEF FinInv, Owned

LEMMA UserStores ==
  ASSUME GroupInv, NEW c \in CSG, User(c)
  PROVE  \E o \in Obj \union {Gone} : Stored(c, o) /\ Safe(c, o)
<1> USE DEF GroupInv, TypeInv, TypeOK
<1>1. ASSUME NEW o \in Obj \union {Gone}, UserWrite(c, o),
             contested \subseteq contested', renamed \subseteq renamed',
             o \in Obj =>
               /\ obj[c] # Gone
               /\ obj[c] \in Obj =>
                    /\ obj[c].fin => o.fin
                    /\ \/ o.name = obj[c].name
                       \/ /\ {o.name, obj[c].name} \subseteq contested'
                          /\ c \in renamed'
                    /\ o.st = obj[c].st
               /\ obj[c] = Unborn => o.st = NoName /\ ~o.fin,
             o = Gone => obj[c] \in Obj /\ ~obj[c].fin
      PROVE  Stored(c, o) /\ Safe(c, o)
  <2>1. /\ Store(c, o) /\ UNCHANGED <<cache, queue, remote, slip, left>>
        /\ pass' = NoPass <=> pass = NoPass
    <3>1. Store(c, o) /\ UNCHANGED <<cache, queue, remote, slip, left>>
      BY <1>1 DEF UserWrite, ghosts
    <3>2. pass # NoPass => [pass EXCEPT !.fresh = FALSE] \in Pass
      BY DEF Pass
    <3>3. pass' = pass \/ (pass # NoPass /\ pass' = [pass EXCEPT !.fresh = FALSE])
      BY <1>1 DEF UserWrite
    <3> QED BY <3>1, <3>2, <3>3, AbsentAssumption
  <2>2. pass' # NoPass =>
          /\ pass'.csg = pass.csg /\ pass'.snap = pass.snap
          /\ pass'.at = pass.at /\ pass'.todo = pass.todo
          /\ pass'.moved = pass.moved /\ pass'.pc = pass.pc
          /\ pass'.fresh => pass.fresh /\ pass.csg # c
    BY <1>1, <2>1 DEF UserWrite, Pass
  <2>3. Stored(c, o)
    BY <1>1, <2>1, <2>2 DEF Stored
  <2>4. ~Finalized(c) => Owned(c) = {}
    BY NoneOwned DEF TrackInv
  <2>5. o = Gone \/ obj[c] = Unborn => ~Finalized(c)
    BY <1>1 DEF Finalized
  <2>6. obj[c] \in Obj \union {Unborn, Gone} /\ Gone \notin Obj
    BY AbsentAssumption
  <2>7. o \in Obj /\ obj[c] # Unborn => obj[c] \in Obj /\ o.st = obj[c].st
    BY <1>1, <2>6
  <2>8. ASSUME c \notin slip', NEW n \in Owned(c)
        PROVE  IF o \in Obj THEN o.st = n \/ (Active(c) /\ pass' # NoPass /\ pass.moved)
                            ELSE c \in left
    <3>1. o \in Obj /\ obj[c] \in Obj /\ o.st = obj[c].st
      BY <2>4, <2>5, <2>7, <2>8
    <3>2. c \in CSG \ slip
      BY <2>1, <2>8
    <3>3. (Active(c) /\ pass.moved) \/ obj[c].st = n
      BY <2>8, <3>1, <3>2 DEF TrackInv, Tracked
    <3>4. Active(c) => pass # NoPass
      BY DEF Active, On
    <3> QED BY <2>1, <3>1, <3>3, <3>4
  <2>9. Safe(c, o)
    BY <2>1, <2>4, <2>5, <2>7, <2>8 DEF Safe
  <2> QED BY <2>3, <2>9
<1>2. CASE ValidateCreate(c)
  <2>1. PICK n \in Name, v \in Cfg, p \in Policy :
          /\ UserWrite(c, [name |-> n, cfg |-> v, policy |-> p, st |-> NoName,
                           fin |-> FALSE, deleting |-> FALSE])
          /\ UNCHANGED <<renamed, contested>> /\ obj[c] = Unborn
    BY <1>2 DEF ValidateCreate
  <2> DEFINE o == [name |-> n, cfg |-> v, policy |-> p, st |-> NoName,
                   fin |-> FALSE, deleting |-> FALSE]
  <2>2. o \in Obj /\ ~o.fin /\ o.st = NoName
    BY PolicyAssumption DEF Obj
  <2>3. UserWrite(c, o)
    BY <2>1
  <2> HIDE DEF o
  <2>4. Unborn \notin Obj /\ Gone \notin Obj /\ Unborn # Gone
    BY AbsentAssumption
  <2>5. Stored(c, o) /\ Safe(c, o)
    BY <1>1, <2>1, <2>2, <2>3, <2>4
  <2> QED BY <2>2, <2>5
<1>3. CASE ValidateUpdate(c)
  <2>1. PICK n \in Name, v \in Cfg, p \in Policy :
          /\ UserWrite(c, [obj[c] EXCEPT !.name = n, !.cfg = v, !.policy = p])
          /\ IF n = obj[c].name
             THEN UNCHANGED <<renamed, contested>>
             ELSE /\ renamed' = renamed \union {c}
                  /\ contested' = contested \union {n, obj[c].name}
          /\ obj[c] \in Obj
    BY <1>3 DEF ValidateUpdate
  <2> DEFINE o == [obj[c] EXCEPT !.name = n, !.cfg = v, !.policy = p]
  <2>2. o \in Obj /\ o.fin = obj[c].fin /\ o.st = obj[c].st /\ o.name = n
    BY <2>1, PolicyAssumption DEF Obj
  <2>3. UserWrite(c, o)
    BY <2>1
  <2> HIDE DEF o
  <2>4. Unborn \notin Obj /\ Gone \notin Obj
    BY AbsentAssumption
  <2>5. Stored(c, o) /\ Safe(c, o)
    BY <1>1, <2>1, <2>2, <2>3, <2>4
  <2> QED BY <2>2, <2>5
<1>4. CASE UserDelete(c)
  <2> DEFINE o == [obj[c] EXCEPT !.deleting = TRUE]
  <2>1. /\ obj[c] \in Obj /\ UNCHANGED <<renamed, contested>>
        /\ UserWrite(c, IF obj[c].fin THEN o ELSE Gone)
    BY <1>4 DEF UserDelete
  <2>2. o \in Obj /\ o.fin = obj[c].fin /\ o.st = obj[c].st /\ o.name = obj[c].name
    BY <2>1 DEF Obj
  <2> HIDE DEF o
  <2>3. Unborn \notin Obj /\ Gone \notin Obj
    BY AbsentAssumption
  <2>4. CASE obj[c].fin
    BY <1>1, <2>1, <2>2, <2>3, <2>4
  <2>5. CASE ~obj[c].fin
    BY <1>1, <2>1, <2>3, <2>5
  <2> QED BY <2>4, <2>5
<1> QED BY <1>2, <1>3, <1>4 DEF User

\* The passes that end before they begin change nothing.
LEMMA ReconcileEffect ==
  ASSUME GroupInv, NEW c \in CSG, Reconcile(c)
  PROVE  \/ Starts(c)
         \/ \E o \in Obj : Stored(c, o) /\ Safe(c, o)
         \/ (ReconcileAbsent(c) \/ ReconcileNoDiff(c)) /\ Idles
<1> USE DEF GroupInv, TypeInv, TypeOK
<1>1. CASE ReconcileAbsent(c) \/ ReconcileNoDiff(c)
  <2>1. /\ UNCHANGED <<k8s, pass, remote, job, faults, ghosts>>
        /\ queue' \subseteq queue
    BY <1>1 DEF ReconcileAbsent, ReconcileNoDiff, Take
  <2> QED BY <1>1, <2>1 DEF Idles, k8s, ghosts
<1>2. CASE AddFinalizer(c)
  <2> DEFINE o == [cache[c] EXCEPT !.fin = TRUE]
  <2>1. /\ cache[c] \in Obj /\ cache[c] = obj[c] /\ pass = NoPass
        /\ Store(c, o) /\ queue' = queue \ {c}
        /\ UNCHANGED <<cache, pass, remote, renamed, contested, slip, left>>
    BY <1>2 DEF AddFinalizer, Take, NameInv, CacheFresh, ghosts
  <2>2. o \in Obj /\ o.fin /\ o.st = obj[c].st /\ o.name = obj[c].name
    BY <2>1 DEF Obj
  <2> HIDE DEF o
  <2>3. Unborn \notin Obj /\ Gone \notin Obj
    BY AbsentAssumption
  <2>4. Stored(c, o)
    BY <2>1, <2>2, <2>3 DEF Stored
  <2>5. \A n \in Owned(c) : c \notin slip => obj[c].st = n
    BY <2>1 DEF TrackInv, Tracked, Active, On
  <2>6. Safe(c, o)
    BY <2>1, <2>2, <2>3, <2>5 DEF Safe
  <2> QED BY <2>2, <2>4, <2>6
<1>3. ASSUME NEW pc \in {"create", "update", "delete"}, NEW at, NEW todo,
             Take(c), cache[c] \in Obj, cache[c].fin, Begin(c, pc, at, todo),
             pc = "create" => remote[Get(cache[c])] = NoGroup,
             at = IF pc = "update" THEN Get(cache[c]) ELSE cache[c].name,
             "name" \in todo => at # cache[c].name, todo \subseteq Field
      PROVE  Starts(c)
  <2>1. /\ pass'.csg = c /\ pass'.snap = cache[c] /\ pass'.fresh = (c \notin dirty)
        /\ ~pass'.moved /\ pass'.pc = pc /\ pass'.at = at /\ pass'.todo = todo
    BY <1>3 DEF Begin
  <2>2. /\ pass = NoPass /\ c \in queue /\ queue' = queue \ {c}
        /\ UNCHANGED <<k8s, remote, slip, left>>
    BY <1>3 DEF Begin, Take, ghosts
  <2>3. pass' # NoPass
    <3>1. [csg |-> c, snap |-> cache[c], at |-> at, todo |-> todo,
           fresh |-> c \notin dirty, moved |-> FALSE, pc |-> pc] \in Pass
      <4>1. at \in Name
        BY <1>3 DEF Get, Obj
      <4> QED BY <1>3, <4>1 DEF Pass
    <3> QED BY <1>3, <3>1, AbsentAssumption DEF Begin
  <2> QED BY <1>3, <2>1, <2>2, <2>3 DEF Starts
<1>4. CASE ReconcileDelete(c)
  BY <1>3, <1>4 DEF ReconcileDelete
<1>5. CASE ReconcileCreate(c)
  BY <1>3, <1>5 DEF ReconcileCreate, Live
<1>6. CASE ReconcileUpdate(c)
  <2> DEFINE n == Get(cache[c])
  <2>1. /\ Take(c) /\ cache[c] \in Obj /\ cache[c].fin
        /\ Begin(c, "update", n, Diff(cache[c], n))
    BY <1>6 DEF ReconcileUpdate, Live
  <2>2. "name" \in Diff(cache[c], n) => n # cache[c].name
    BY DEF Diff
  <2>3. Diff(cache[c], n) \subseteq Field
    BY DEF Diff
  <2> HIDE DEF n
  <2>4. n = Get(cache[c])
    BY DEF n
  <2> QED BY <1>3, <2>1, <2>2, <2>3, <2>4
<1> QED BY <1>1, <1>2, <1>4, <1>5, <1>6 DEF Reconcile

\* A service that joins or leaves groups does not change whose they are.
LEMMA ServiceIdles ==
  ASSUME TypeInv, NEW s \in Service, UpdateService(s) \/ JobFails(s)
  PROVE  Idles
<1> USE DEF TypeInv, TypeOK
<1>1. UNCHANGED <<obj, cache, dirty, renamed, contested, pass, slip, left, queue>>
  BY DEF UpdateService, InGroup, SetServiceGroups, DeleteServiceGroups, JobFails,
         k8s, ghosts
<1>2. ASSUME remote' = Joined(s), remote[Groups[s]] # NoGroup
      PROVE  Idles
  <2>1. Groups[s] \in Name
    BY GroupsAssumption
  <2> DEFINE g == [remote[Groups[s]] EXCEPT !.members = @ \union {s}]
  <2>2. /\ g \in Group /\ g.owner = remote[Groups[s]].owner
        /\ g.cfg = remote[Groups[s]].cfg
    BY <1>2, <2>1 DEF Group
  <2>3. remote' = [remote EXCEPT ![Groups[s]] = g]
    BY <1>2, <2>1 DEF Joined
  <2> HIDE DEF g
  <2> QED BY <1>1, <1>2, <2>1, <2>2, <2>3, AbsentAssumption DEF Idles
<1>3. CASE InGroup(s) \/ SetServiceGroups(s) \/ JobFails(s)
  <2>1. \/ UNCHANGED remote
        \/ remote' = Joined(s) /\ remote[Groups[s]] # NoGroup
    BY <1>3 DEF InGroup, SetServiceGroups, JobFails
  <2> QED BY <1>1, <1>2, <2>1 DEF Idles
<1>4. CASE DeleteServiceGroups(s)
  <2>1. CASE UNCHANGED remote
    BY <1>1, <2>1 DEF Idles
  <2>2. CASE \A n \in job[s].drop : remote[n] # NoGroup
    <3>1. remote' = [n \in Name |->
            IF n \in job[s].drop THEN [remote[n] EXCEPT !.members = @ \ {s}]
                                 ELSE remote[n]]
      BY <1>4, <2>2 DEF DeleteServiceGroups
    <3>2. ASSUME NEW n \in Name
          PROVE  /\ remote'[n] = NoGroup <=> remote[n] = NoGroup
                 /\ remote[n] # NoGroup => /\ remote'[n].owner = remote[n].owner
                                           /\ remote'[n].cfg = remote[n].cfg
      <4> DEFINE g == [remote[n] EXCEPT !.members = @ \ {s}]
      <4>1. remote[n] # NoGroup =>
              /\ g \in Group /\ g.owner = remote[n].owner /\ g.cfg = remote[n].cfg
        BY DEF Group
      <4>2. remote'[n] = IF n \in job[s].drop THEN g ELSE remote[n]
        BY <3>1
      <4> HIDE DEF g
      <4> QED BY <2>2, <4>1, <4>2, AbsentAssumption
    <3> QED BY <1>1, <3>2 DEF Idles
  <2> QED BY <1>4, <2>1, <2>2 DEF DeleteServiceGroups
<1> QED BY <1>3, <1>4 DEF UpdateService

\* The two ends of a pass store a version that the next one can go on from.
LEMMA EndStores ==
  ASSUME GroupInv,
         \/ /\ WriteStatus /\ Ends([pass.snap EXCEPT !.st = pass.snap.name])
            /\ slip' = IF pass.at # pass.snap.name
                       THEN slip \union {pass.csg} ELSE slip
         \/ /\ RemoveFinalizer /\ Ends(Gone) /\ UNCHANGED slip
  PROVE  \E c \in CSG : \E o \in Obj \union {Gone} : Stored(c, o) /\ Safe(c, o)
<1> USE DEF GroupInv, TypeInv, TypeOK
<1> DEFINE c == pass.csg
<1>1. /\ pass \in Pass /\ pass # NoPass /\ pass.fresh /\ c \in CSG
      /\ pass.snap \in Obj /\ obj[c] = pass.snap
      /\ c \notin dirty \union queue
  BY DEF Ends, NameInv, PassFresh, TrackInv, PassSeen, Pass
<1>2. Unborn \notin Obj /\ Gone \notin Obj
  BY AbsentAssumption
<1>3. On(c)
  BY <1>1 DEF On
<1>4. CASE /\ WriteStatus /\ Ends([pass.snap EXCEPT !.st = pass.snap.name])
           /\ slip' = IF pass.at # pass.snap.name
                      THEN slip \union {pass.csg} ELSE slip
  <2> DEFINE o == [pass.snap EXCEPT !.st = pass.snap.name]
  <2>1. /\ o \in Obj /\ o.fin = pass.snap.fin /\ o.name = pass.snap.name
        /\ o.st = pass.snap.name
    BY <1>1 DEF Obj
  <2>2. Ends(o) /\ Active(c)
    BY <1>3, <1>4 DEF WriteStatus, Record, Active, Writing
  <2> HIDE DEF o
  <2>3. Stored(c, o)
    BY <1>1, <1>2, <1>4, <2>1, <2>2 DEF Stored, Ends
  <2>4. c \notin slip' => c \notin slip /\ pass.at = pass.snap.name
    BY <1>4
  <2>5. \A n \in Owned(c) : c \notin slip => pass.at = n
    BY <1>1, <2>2 DEF TrackInv, Tracked
  <2>6. Safe(c, o)
    BY <1>1, <1>2, <2>1, <2>2, <2>4, <2>5 DEF Safe, Ends
  <2> QED BY <1>1, <2>1, <2>3, <2>6
<1>5. CASE RemoveFinalizer /\ Ends(Gone) /\ UNCHANGED slip
  <2>1. pass.pc = "release"
    BY <1>5 DEF RemoveFinalizer
  <2>2. Stored(c, Gone)
    BY <1>1, <1>2, <1>5 DEF Stored, Ends
  <2>3. \A n \in Owned(c) : c \notin slip => c \in left
    BY <1>1, <1>3, <2>1 DEF TrackInv, Tracked
  <2>4. c \in left \/ Owned(c) = {} \/ c \in renamed
    BY <1>1, <2>1 DEF HomeInv, PassHome
  <2>5. Safe(c, Gone)
    BY <1>1, <1>2, <1>5, <2>3, <2>4 DEF Safe, Ends
  <2> QED BY <1>1, <2>2, <2>5
<1> QED BY <1>4, <1>5

\* Every step is one of these.
StepKind ==
  \/ Idles
  \/ \E c \in CSG :
       CacheSync(c) \/ Starts(c)
       \/ \E o \in Obj \union {Gone} : Stored(c, o) /\ Safe(c, o)
  \/ \E next \in Pass :
       \/ Quiet(next) \/ Removes(next)
       \/ \E g \in Group : Writes(next, g) \/ Renames(next, g)
  \/ Restart

LEMMA NextKind ==
  ASSUME GroupInv, [Next]_vars
  PROVE  StepKind
<1>1. CASE UNCHANGED vars
  BY <1>1 DEF StepKind, Idles, vars
<1>2. CASE Restart
  BY <1>2 DEF StepKind
<1>3. CASE CallFails
  <2>1. pass \in Pass
    BY <1>3 DEF GroupInv, TypeInv, TypeOK, CallFails
  <2>2. Quiet(pass)
    BY <1>3, <2>1 DEF Quiet, Called, CallFails
  <2> QED BY <2>1, <2>2 DEF StepKind
<1>4. CASE Work
  <2>1. CASE \E next \in Pass :
               \/ Quiet(next) \/ Removes(next)
               \/ \E g \in Group : Writes(next, g) \/ Renames(next, g)
    BY <2>1 DEF StepKind
  <2> QED BY <1>4, <2>1, WorkEffect, EndStores DEF StepKind, GroupInv
<1>5. CASE \E c \in CSG : User(c) \/ CacheSync(c) \/ Reconcile(c)
  BY <1>5, UserStores, ReconcileEffect DEF StepKind
<1>6. CASE \E s \in Service : UpdateService(s) \/ JobFails(s)
  BY <1>6, ServiceIdles DEF StepKind, GroupInv
<1> QED BY <1>1, <1>2, <1>3, <1>4, <1>5, <1>6 DEF Next

-----------------------------------------------------------------------------
(***************************************************************************)
(* StatusTracksGroup.  The finalizer comes first (FinInv), so a resource   *)
(* without one has no group.  The next pass reads the status that is       *)
(* recorded (StatusSeen), and the running one goes on from it (PassSeen).  *)
(* A group is therefore where the pass is, or where the status says.       *)
(***************************************************************************)

LEMMA TrackStored ==
  ASSUME GroupInv, NEW c \in CSG, NEW o \in Obj \union {Gone},
         Stored(c, o), Safe(c, o)
  PROVE  TrackInv'
<1> USE DEF GroupInv, TypeInv, TypeOK
<1>1. /\ obj' = [obj EXCEPT ![c] = o] /\ dirty' = dirty \union {c}
      /\ UNCHANGED <<cache, remote, left>> /\ queue' \subseteq queue
      /\ slip \subseteq slip'
  BY DEF Stored, Store
<1>2. obj'[c] = o /\ \A d \in CSG \ {c} : obj'[d] = obj[d]
  BY <1>1
<1>3. Unborn \notin Obj /\ Gone \notin Obj /\ Unborn # Gone
  BY AbsentAssumption
<1>4. /\ pass' = NoPass => pass = NoPass \/ pass.csg = c
      /\ pass' # NoPass =>
           /\ pass # NoPass /\ pass'.csg = pass.csg /\ pass'.snap = pass.snap
           /\ pass'.at = pass.at /\ pass'.moved = pass.moved /\ pass'.pc = pass.pc
           /\ pass'.fresh => pass.fresh /\ pass.csg # c
  BY DEF Stored
<1>5. ASSUME NEW d \in CSG, Finalized(d) PROVE Finalized(d)'
  BY <1>2, <1>3, <1>5 DEF Finalized, Stored
<1>6. pass # NoPass => pass \in Pass /\ pass.csg \in CSG
  BY DEF Pass
<1>7. FinInv'
  <2>1. \A n \in Name : remote[n] # NoGroup => remote[n].owner \in CSG
    BY DEF Group
  <2> QED BY <1>1, <1>2, <1>3, <1>4, <1>5, <1>6, <2>1 DEF TrackInv, FinInv
<1>8. StatusSeen'
  <2> SUFFICES ASSUME NEW d \in CSG, (d \in queue \/ On(d))',
                      cache[d] \in Obj, cache[d].fin
               PROVE  obj'[d] \in Obj /\ obj'[d].st = cache[d].st
    BY <1>1 DEF StatusSeen
  <2>1. d \in queue \/ On(d)
    BY <1>1, <1>4 DEF On
  <2>2. obj[d] \in Obj /\ obj[d].st = cache[d].st /\ Finalized(d)
    BY <2>1 DEF TrackInv, StatusSeen, FinInv
  <2>3. d = c => o \in Obj /\ obj[c] \in Obj /\ o.st = obj[c].st
    BY <1>1, <2>2 DEF Safe, On
  <2> QED BY <1>2, <2>2, <2>3
<1>9. PassSeen'
  <2> SUFFICES ASSUME pass' # NoPass PROVE PassSeen'
    BY DEF PassSeen
  <2>1. /\ obj[pass.csg] \in Obj /\ obj[pass.csg].st = pass.snap.st
        /\ Finalized(pass.csg)
    BY <1>4 DEF TrackInv, PassSeen, FinInv
  <2>2. pass.csg = c => o \in Obj /\ obj[c] \in Obj /\ o.st = obj[c].st
    BY <2>1 DEF Safe
  <2>3. pass'.fresh => pass.csg # c /\ pass.csg \notin dirty \union queue
    BY <1>4 DEF TrackInv, PassSeen
  <2> QED BY <1>1, <1>2, <1>4, <1>6, <2>1, <2>2, <2>3 DEF PassSeen
<1>10. Tracked'
  <2> SUFFICES ASSUME NEW d \in CSG, d \notin slip', NEW n \in Owned(d)
               PROVE  /\ Owned(d) = {n}
                      /\ obj'[d] \in Obj \/ d \in left
                      /\ On(d)' /\ pass'.pc = "release" => d \in left
                      /\ Active(d)' => pass'.at = n
                      /\ obj'[d] \in Obj /\ (Active(d)' => ~pass'.moved) =>
                           obj'[d].st = n
    BY <1>1 DEF Tracked, Owned
  <2>1. /\ Owned(d) = {n}
        /\ obj[d] \in Obj \/ d \in left
        /\ On(d) /\ pass.pc = "release" => d \in left
        /\ Active(d) => pass.at = n
        /\ obj[d] \in Obj /\ (Active(d) => ~pass.moved) => obj[d].st = n
    BY <1>1 DEF TrackInv, Tracked
  <2>2. /\ On(d)' => On(d) /\ pass' # NoPass
        /\ Active(d)' => Active(d) /\ pass' # NoPass
        /\ Active(d) /\ (d # c \/ pass' # NoPass) => Active(d)'
    BY <1>4 DEF On, Active, Writing
  <2>3. CASE d # c
    <3>1. Active(d) <=> Active(d)'
      BY <2>2, <2>3
    <3>2. Active(d) => pass' # NoPass
      BY <2>2, <3>1 DEF Active, On
    <3> QED BY <1>2, <1>4, <2>1, <2>2, <2>3, <3>1, <3>2
  <2>4. CASE d = c
    <3>1. IF o \in Obj THEN o.st = n \/ (Active(c) /\ pass' # NoPass /\ pass.moved)
                       ELSE c \in left
      BY <2>4 DEF Safe
    <3>2. o \in Obj => obj'[d].st = n \/ (Active(d)' /\ pass'.moved)
      BY <1>2, <1>4, <2>2, <2>4, <3>1
    <3>3. obj'[d] \in Obj \/ d \in left
      BY <1>2, <2>4, <3>1
    <3>4. obj'[d] \in Obj => o \in Obj
      BY <1>2, <2>4
    <3> QED BY <1>4, <2>1, <2>2, <3>2, <3>3, <3>4
  <2> QED BY <2>3, <2>4
<1> QED BY <1>7, <1>8, <1>9, <1>10 DEF TrackInv

\* Steps that change neither versions nor owners; a pass ends or goes on quietly.
LEMMA TrackIdles ==
  ASSUME GroupInv, Idles
  PROVE  TrackInv'
<1> USE DEF GroupInv, TypeInv, TypeOK
<1>1. \A d \in CSG : Owned(d)' = Owned(d)
  BY DEF Owned, Idles
<1>2. \A d \in CSG : /\ Finalized(d)' <=> Finalized(d)
                     /\ On(d)' <=> On(d)
                     /\ Active(d)' <=> Active(d)
  BY DEF Finalized, On, Active, Idles, Writing
<1>3. FinInv'
  <2>1. \A n \in Name : remote[n] # NoGroup => remote[n].owner \in CSG
    BY DEF Group
  <2>2. pass # NoPass => pass.csg \in CSG
    BY DEF Pass
  <2> QED BY <1>2, <2>1, <2>2 DEF TrackInv, FinInv, Idles
<1>4. StatusSeen' /\ PassSeen'
  BY <1>2 DEF TrackInv, StatusSeen, PassSeen, Idles
<1>5. Tracked'
  BY <1>1, <1>2 DEF TrackInv, Tracked, Idles
<1> QED BY <1>3, <1>4, <1>5 DEF TrackInv

LEMMA TrackSync ==
  ASSUME GroupInv, NEW c \in CSG, CacheSync(c)
  PROVE  TrackInv'
<1> USE DEF GroupInv, TypeInv, TypeOK
<1>1. /\ c \in dirty /\ cache' = [cache EXCEPT ![c] = obj[c]]
      /\ dirty' = dirty \ {c} /\ queue' = queue \union {c}
      /\ UNCHANGED <<obj, pass, remote, slip, left>>
  BY DEF CacheSync, ghosts
<1>2. \A d \in CSG : /\ Owned(d)' = Owned(d)
                     /\ Finalized(d)' <=> Finalized(d)
                     /\ On(d)' <=> On(d)
                     /\ Active(d)' <=> Active(d)
  BY <1>1 DEF Finalized, On, Active, Owned, Writing
<1>3. cache'[c] = obj[c] /\ \A d \in CSG \ {c} : cache'[d] = cache[d]
  BY <1>1
<1>4. Unborn \notin Obj
  BY AbsentAssumption
<1>5. FinInv'
  <2>1. \A n \in Name : remote[n] # NoGroup => remote[n].owner \in CSG
    BY DEF Group
  <2>2. pass # NoPass => pass.csg \in CSG
    BY DEF Pass
  <2>3. obj[c] \in Obj /\ obj[c].fin => Finalized(c)
    BY <1>4 DEF Finalized
  <2> QED BY <1>1, <1>2, <1>3, <1>4, <2>1, <2>2, <2>3 DEF TrackInv, FinInv
<1>6. StatusSeen'
  BY <1>1, <1>2, <1>3 DEF TrackInv, StatusSeen
<1>7. PassSeen'
  BY <1>1 DEF TrackInv, PassSeen
<1>8. Tracked'
  BY <1>1, <1>2 DEF TrackInv, Tracked
<1> QED BY <1>5, <1>6, <1>7, <1>8 DEF TrackInv

LEMMA TrackStarts ==
  ASSUME GroupInv, NEW c \in CSG, Starts(c)
  PROVE  TrackInv'
<1> USE DEF GroupInv, TypeInv, TypeOK
<1>1. /\ pass = NoPass /\ c \in queue /\ queue' = queue \ {c}
      /\ cache[c] \in Obj /\ cache[c].fin
      /\ pass' # NoPass /\ pass'.csg = c /\ pass'.snap = cache[c]
      /\ pass'.fresh = (c \notin dirty)
      /\ ~pass'.moved /\ pass'.pc \in {"create", "update", "delete"}
      /\ UNCHANGED <<obj, cache, dirty, remote, slip, left>>
  BY DEF Starts, k8s
<1>2. \A d \in CSG : /\ Owned(d)' = Owned(d)
                     /\ Finalized(d)' <=> Finalized(d)
                     /\ ~On(d) /\ ~Active(d)
                     /\ On(d)' <=> d = c
                     /\ Active(d)' => d = c
  BY <1>1 DEF Finalized, On, Active, Owned
<1>3. obj[c] \in Obj /\ obj[c].st = cache[c].st /\ Finalized(c)
  BY <1>1 DEF TrackInv, StatusSeen, FinInv
<1>4. FinInv'
  <2>1. \A n \in Name : remote[n] # NoGroup => remote[n].owner \in CSG
    BY DEF Group
  <2> QED BY <1>1, <1>2, <1>3, <2>1 DEF TrackInv, FinInv
<1>5. StatusSeen' /\ PassSeen'
  BY <1>1, <1>2, <1>3 DEF TrackInv, StatusSeen, PassSeen
<1>6. Tracked'
  <2> SUFFICES ASSUME NEW d \in CSG, d \notin slip, NEW n \in Owned(d)
               PROVE  /\ Owned(d) = {n}
                      /\ obj[d] \in Obj \/ d \in left
                      /\ On(d)' /\ pass'.pc = "release" => d \in left
                      /\ Active(d)' => pass'.at = n
                      /\ obj[d] \in Obj => obj[d].st = n
    BY <1>1, <1>2 DEF Tracked
  <2>1. /\ Owned(d) = {n}
        /\ obj[d] \in Obj \/ d \in left
        /\ obj[d] \in Obj => obj[d].st = n
    BY <1>2 DEF TrackInv, Tracked
  <2>2. ASSUME Active(d)' PROVE pass'.at = n
    <3>1. d = c /\ pass'.pc \in {"create", "update"}
      BY <1>1, <1>2, <2>2 DEF Active, Writing
    <3>2. n \in Name /\ remote[n] # NoGroup /\ n # NoName
      BY AbsentAssumption DEF Owned
    <3>3. Get(cache[c]) = n
      BY <1>3, <2>1, <3>1, <3>2 DEF Get
    <3>4. pass'.pc # "create"
      BY <3>2, <3>3 DEF Starts
    <3> QED BY <3>1, <3>3, <3>4 DEF Starts
  <2> QED BY <1>1, <2>1, <2>2
<1> QED BY <1>4, <1>5, <1>6 DEF TrackInv

LEMMA TrackRestart ==
  ASSUME GroupInv, Restart
  PROVE  TrackInv'
<1> USE DEF GroupInv, TypeInv, TypeOK
<1>1. /\ pass' = NoPass /\ cache' = obj /\ UNCHANGED <<obj, remote, left>>
      /\ slip' = IF pass # NoPass /\ pass.moved THEN slip \union {pass.csg} ELSE slip
  BY DEF Restart
<1>2. \A d \in CSG : /\ Owned(d)' = Owned(d)
                     /\ Finalized(d)' <=> Finalized(d)
                     /\ ~On(d)' /\ ~Active(d)'
  BY <1>1 DEF Finalized, On, Active, Owned
<1>3. \A d \in CSG : obj[d] \in Obj => obj[d] # Unborn
  BY AbsentAssumption
<1>4. FinInv'
  <2>1. \A n \in Name : remote[n] # NoGroup => remote[n].owner \in CSG
    BY DEF Group
  <2>2. \A d \in CSG : obj[d] \in Obj /\ obj[d].fin => Finalized(d)
    BY <1>3 DEF Finalized
  <2> QED BY <1>1, <1>2, <1>3, <2>1, <2>2 DEF TrackInv, FinInv
<1>5. StatusSeen' /\ PassSeen'
  BY <1>1, <1>2 DEF TrackInv, StatusSeen, PassSeen
<1>6. Tracked'
  <2>1. \A d \in CSG : d \notin slip' => d \notin slip /\ (Active(d) => ~pass.moved)
    BY <1>1 DEF Active, On
  <2> QED BY <1>1, <1>2, <2>1 DEF TrackInv, Tracked
<1> QED BY <1>4, <1>5, <1>6 DEF TrackInv

\* A call of the running pass: its resource is seen as the pass recorded it.
LEMMA CallSeen ==
  ASSUME GroupInv, NEW next \in Pass, Called(next)
  PROVE  /\ pass # NoPass /\ pass \in Pass /\ pass.csg \in CSG
         /\ obj[pass.csg] \in Obj /\ obj[pass.csg].st = pass.snap.st
         /\ Finalized(pass.csg) /\ On(pass.csg)
         /\ UNCHANGED <<obj, cache, dirty, renamed, contested>>
         /\ slip \subseteq slip'
         /\ StatusSeen' /\ PassSeen'
         /\ \A d \in CSG : /\ Finalized(d)' <=> Finalized(d)
                           /\ On(d)' => d = pass.csg /\ pass' = next
                           /\ d # pass.csg => ~On(d) /\ ~Active(d)
                           /\ Active(d)' => On(d)' /\ Writing(next)
                           /\ On(d)' /\ Writing(next) => Active(d)'
<1> USE DEF GroupInv, TypeInv, TypeOK
<1>1. /\ pass # NoPass /\ pass \in Pass /\ pass.csg \in CSG
      /\ next.csg = pass.csg /\ next.snap = pass.snap /\ next.fresh = pass.fresh
      /\ UNCHANGED <<obj, cache, dirty, renamed, contested>>
  BY DEF Called, Pass, k8s
<1>2. \/ pass' = next /\ UNCHANGED <<queue, slip>>
      \/ pass' = NoPass /\ queue' = queue \union {next.csg} /\ slip \subseteq slip'
  BY DEF Called, Abort
<1>3. /\ obj[pass.csg] \in Obj /\ obj[pass.csg].st = pass.snap.st
      /\ Finalized(pass.csg) /\ On(pass.csg)
  BY <1>1 DEF TrackInv, PassSeen, FinInv, On
<1>4. \A d \in CSG : /\ Finalized(d)' <=> Finalized(d)
                     /\ On(d)' => d = pass.csg /\ pass' = next
                     /\ d # pass.csg => ~On(d) /\ ~Active(d)
                     /\ Active(d)' => On(d)' /\ Writing(next)
                     /\ On(d)' /\ Writing(next) => Active(d)'
  BY <1>1, <1>2 DEF Finalized, On, Active, Writing
<1>5. StatusSeen'
  <2> SUFFICES ASSUME NEW d \in CSG, (d \in queue \/ On(d))',
                      cache[d] \in Obj, cache[d].fin
               PROVE  obj[d] \in Obj /\ obj[d].st = cache[d].st
    BY <1>1 DEF StatusSeen
  <2>1. d \in queue \/ On(d)
    BY <1>1, <1>2, <1>3, <1>4
  <2> QED BY <2>1 DEF TrackInv, StatusSeen
<1>6. PassSeen'
  BY <1>1, <1>2 DEF TrackInv, PassSeen
<1> QED BY <1>1, <1>2, <1>3, <1>4, <1>5, <1>6

\* What a call has to show of the group of its resource, and of the others'.
LEMMA TrackCall ==
  ASSUME GroupInv, NEW next \in Pass, Called(next), left \subseteq left',
         NEW p \in CSG, p = pass.csg,
         \A n \in Name : remote'[n] # NoGroup =>
           remote'[n].owner = p \/ (remote[n] # NoGroup
                                    /\ remote'[n].owner = remote[n].owner),
         p \notin slip =>
           \A n \in Owned(p)' :
             /\ Owned(p)' = {n}
             /\ next.pc = "release" => p \in left'
             /\ Writing(next) => next.at = n
             /\ obj[p].st = n \/ (Writing(next) /\ next.moved)
  PROVE  TrackInv'
<1> USE DEF GroupInv, TypeInv, TypeOK
<1>1. /\ pass # NoPass /\ pass \in Pass
      /\ obj[p] \in Obj /\ Finalized(p) /\ On(p)
      /\ UNCHANGED <<obj, cache, dirty, renamed, contested>>
      /\ slip \subseteq slip' /\ StatusSeen' /\ PassSeen'
      /\ \A d \in CSG : /\ Finalized(d)' <=> Finalized(d)
                        /\ On(d)' => d = p /\ pass' = next
                        /\ d # p => ~On(d) /\ ~Active(d)
                        /\ Active(d)' => On(d)' /\ Writing(next)
                        /\ On(d)' /\ Writing(next) => Active(d)'
  BY CallSeen
<1>2. \A n \in Name : remote[n] # NoGroup => remote[n].owner \in CSG
  BY DEF Group
<1>3. \/ pass' = next
      \/ /\ pass' = NoPass /\ slip' = IF next.moved THEN slip \union {p} ELSE slip
  BY DEF Called, Abort
<1>4. FinInv'
  <2>1. \A d \in CSG : /\ cache[d] \in Obj => obj[d] # Unborn
                       /\ cache[d] \in Obj /\ cache[d].fin => Finalized(d)
    BY DEF TrackInv, FinInv
  <2>2. \A n \in Name : remote[n] # NoGroup => Finalized(remote[n].owner)
    BY DEF TrackInv, FinInv
  <2>3. next.csg = p
    BY DEF Called
  <2>4. pass' # NoPass => pass'.csg = p
    BY <1>3, <2>3
  <2>5. \A n \in Name : remote'[n] # NoGroup =>
          \E d \in CSG : remote'[n].owner = d /\ Finalized(d)
    BY <1>1, <1>2, <2>2
  <2> QED BY <1>1, <2>1, <2>4, <2>5 DEF FinInv
<1>5. Tracked'
  <2> SUFFICES ASSUME NEW d \in CSG, d \notin slip', NEW n \in Owned(d)'
               PROVE  /\ Owned(d)' = {n}
                      /\ obj[d] \in Obj \/ d \in left'
                      /\ On(d)' /\ pass'.pc = "release" => d \in left'
                      /\ Active(d)' => pass'.at = n
                      /\ obj[d] \in Obj /\ (Active(d)' => ~pass'.moved) =>
                           obj[d].st = n
    BY <1>1 DEF Tracked
  <2>1. CASE d = p
    <3>1. /\ Owned(p)' = {n}
          /\ next.pc = "release" => p \in left'
          /\ Writing(next) => next.at = n
          /\ obj[p].st = n \/ (Writing(next) /\ next.moved)
      BY <1>1, <2>1
    <3>2. CASE pass' = next
      <4>1. On(p)' <=> pass' # NoPass
        BY <3>2 DEF On, Called
      <4>2. next # NoPass
        BY AbsentAssumption
      <4> QED BY <1>1, <2>1, <3>1, <3>2, <4>1, <4>2
    <3>3. CASE pass' = NoPass /\ ~next.moved
      <4>1. ~On(p)' /\ ~Active(p)'
        BY <3>3 DEF On, Active
      <4> QED BY <1>1, <2>1, <3>1, <3>3, <4>1
    <3> QED BY <1>3, <2>1, <3>2, <3>3
  <2>2. CASE d # p
    <3>1. Owned(d)' \subseteq Owned(d)
      BY <2>2 DEF Owned
    <3>2. /\ Owned(d) = {n}
          /\ obj[d] \in Obj \/ d \in left
          /\ obj[d] \in Obj => obj[d].st = n
      BY <1>1, <2>2, <3>1 DEF TrackInv, Tracked
    <3>3. ~On(d)' /\ ~Active(d)'
      BY <1>1, <2>2
    <3> QED BY <3>1, <3>2, <3>3
  <2> QED BY <2>1, <2>2
<1> QED BY <1>1, <1>4, <1>5 DEF TrackInv

LEMMA TrackQuiet ==
  ASSUME GroupInv, NEW next \in Pass, Quiet(next)
  PROVE  TrackInv'
<1> USE DEF GroupInv, TypeInv, TypeOK
<1>1. PICK p \in CSG : p = pass.csg /\ On(p) /\ obj[p] \in Obj
  BY CallSeen DEF Quiet
<1>2. Owned(p)' = Owned(p)
  BY DEF Quiet, Owned
<1>3. p \notin slip =>
        \A n \in Owned(p)' :
          /\ Owned(p)' = {n}
          /\ next.pc = "release" => p \in left'
          /\ Writing(next) => next.at = n
          /\ obj[p].st = n \/ (Writing(next) /\ next.moved)
  BY <1>1, <1>2 DEF TrackInv, Tracked, Quiet, Active
<1> QED BY <1>1, <1>3, TrackCall DEF Quiet

LEMMA TrackWrites ==
  ASSUME GroupInv, NEW next \in Pass, NEW g \in Group, Writes(next, g)
  PROVE  TrackInv'
<1> USE DEF GroupInv, TypeInv, TypeOK
<1>1. PICK p \in CSG : p = pass.csg /\ On(p) /\ obj[p] \in Obj
                       /\ obj[p].st = pass.snap.st /\ pass \in Pass
  BY CallSeen DEF Writes
<1>2. /\ pass.at \in Name /\ remote' = [remote EXCEPT ![pass.at] = g]
      /\ g.owner = p \/ (remote[pass.at] \in Group /\ g.owner = remote[pass.at].owner)
      /\ Writing(pass) /\ Writing(next) /\ next.at = pass.at
      /\ ~next.moved => /\ ~pass.moved
                        /\ \/ pass.at = pass.snap.st
                           \/ /\ remote[pass.at] \in Group
                              /\ g.owner = remote[pass.at].owner
  BY <1>1 DEF Writes, Pass
<1>3. p \notin slip => \A n \in Owned(p) : n = pass.at
  BY <1>1, <1>2 DEF TrackInv, Tracked, Active
<1>4. \A n \in Owned(p)' : n \in Owned(p) \/ n = pass.at
  BY <1>2 DEF Owned
<1>5. p \notin slip => \A n \in Owned(p)' : n = pass.at /\ Owned(p)' = {n}
  BY <1>3, <1>4
<1>6. ASSUME NEW n \in Owned(p)', p \notin slip, ~next.moved
      PROVE  obj[p].st = n
  <2>1. n = pass.at
    BY <1>5, <1>6
  <2>2. CASE pass.at = pass.snap.st
    BY <1>1, <2>1, <2>2
  <2>3. CASE remote[pass.at] \in Group /\ g.owner = remote[pass.at].owner
    <3>1. n \in Owned(p)
      BY <1>2, <1>6, <2>1, <2>3, AbsentAssumption DEF Owned
    <3> QED BY <1>1, <1>2, <1>6, <3>1 DEF TrackInv, Tracked
  <2> QED BY <1>2, <1>6, <2>2, <2>3
<1>7. \A n \in Name : remote'[n] # NoGroup =>
        remote'[n].owner = p \/ (remote[n] # NoGroup
                                 /\ remote'[n].owner = remote[n].owner)
  BY <1>2, AbsentAssumption
<1>8. next.pc # "release"
  BY <1>2 DEF Writing
<1> QED BY <1>1, <1>2, <1>5, <1>6, <1>7, <1>8, TrackCall DEF Writes

LEMMA TrackRenames ==
  ASSUME GroupInv, NEW next \in Pass, NEW g \in Group, Renames(next, g)
  PROVE  TrackInv'
<1> USE DEF GroupInv, TypeInv, TypeOK
<1>1. PICK p \in CSG : p = pass.csg /\ On(p) /\ obj[p] \in Obj
                       /\ obj[p].st = pass.snap.st /\ pass \in Pass
  BY CallSeen DEF Renames
<1> DEFINE to == pass.snap.name
<1>2. /\ pass.at \in Name /\ to \in Name /\ g.owner = p
      /\ remote' = [remote EXCEPT ![to] = g, ![pass.at] = NoGroup]
      /\ remote[to] = NoGroup /\ remote[pass.at] # NoGroup
      /\ Writing(pass) /\ Writing(next) /\ next.at = to
      /\ ~next.moved => to = pass.snap.st
  BY <1>1, AbsentAssumption DEF Renames, Pass, Obj
<1>3. p \notin slip => \A n \in Owned(p) : n = pass.at
  BY <1>1, <1>2 DEF TrackInv, Tracked, Active
<1>4. \A n \in Owned(p)' : n # pass.at /\ (n \in Owned(p) \/ n = to)
  BY <1>2 DEF Owned
<1>5. p \notin slip => \A n \in Owned(p)' : n = to /\ Owned(p)' = {n}
  BY <1>3, <1>4
<1>6. \A n \in Name : remote'[n] # NoGroup =>
        remote'[n].owner = p \/ (remote[n] # NoGroup
                                 /\ remote'[n].owner = remote[n].owner)
  BY <1>2
<1>7. next.pc # "release"
  BY <1>2 DEF Writing
<1> HIDE DEF to
<1> QED BY <1>1, <1>2, <1>5, <1>6, <1>7, TrackCall DEF Renames

LEMMA TrackRemoves ==
  ASSUME GroupInv, NEW next \in Pass, Removes(next)
  PROVE  TrackInv'
<1> USE DEF GroupInv, TypeInv, TypeOK
<1>1. PICK p \in CSG : p = pass.csg /\ On(p) /\ obj[p] \in Obj
                       /\ obj[p].st = pass.snap.st /\ pass \in Pass
  BY CallSeen DEF Removes
<1> DEFINE to == pass.snap.name
<1>2. /\ to \in Name /\ remote' = [remote EXCEPT ![to] = NoGroup]
      /\ pass.pc = "delete" /\ next.pc = "release"
      /\ left' = IF pass.snap.st \in {NoName, to} THEN left ELSE left \union {p}
  BY <1>1 DEF Removes, Pass, Obj
<1>3. ~Active(p) /\ ~Writing(next)
  BY <1>1, <1>2 DEF Active, Writing
<1>4. \A n \in Owned(p)' : n \in Owned(p) /\ n # to
  BY <1>2 DEF Owned
<1>5. p \notin slip =>
        \A n \in Owned(p)' : Owned(p)' = {n} /\ obj[p].st = n
  BY <1>1, <1>3, <1>4 DEF TrackInv, Tracked
<1>6. \A n \in Owned(p)' : n # NoName
  BY AbsentAssumption DEF Owned
<1>7. p \notin slip => \A n \in Owned(p)' : p \in left'
  BY <1>1, <1>2, <1>4, <1>5, <1>6
<1>8. \A n \in Name : remote'[n] # NoGroup =>
        remote'[n].owner = p \/ (remote[n] # NoGroup
                                 /\ remote'[n].owner = remote[n].owner)
  BY <1>2
<1>9. left \subseteq left'
  BY <1>2
<1> HIDE DEF to
<1> QED BY <1>1, <1>3, <1>5, <1>7, <1>8, <1>9, TrackCall DEF Removes

LEMMA TrackNext ==
  ASSUME GroupInv, [Next]_vars
  PROVE  TrackInv'
  BY NextKind, TrackStored, TrackIdles, TrackSync, TrackStarts, TrackRestart,
     TrackQuiet, TrackWrites, TrackRenames, TrackRemoves DEF StepKind

-----------------------------------------------------------------------------
(***************************************************************************)
(* The names.  Whatever shows the name of a resource shows the one it has, *)
(* or both were contested by an edit.  A name no edit contested therefore  *)
(* leads a pass to the group of its own resource only.                     *)
(***************************************************************************)

\* Same, after the edits that contested the names of S.
SameIn(S, n, m) == n = m \/ {n, m} \subseteq S

LEMMA NamedStored ==
  ASSUME GroupInv, NEW c \in CSG, NEW o \in Obj \union {Gone},
         Stored(c, o), Safe(c, o)
  PROVE  NamedInv'
<1> USE DEF GroupInv, TypeInv, TypeOK
<1>1. /\ obj' = [obj EXCEPT ![c] = o] /\ UNCHANGED <<cache, remote>>
      /\ contested \subseteq contested'
  BY DEF Stored, Store
<1>2. obj'[c] = o /\ \A d \in CSG \ {c} : obj'[d] = obj[d]
  BY <1>1
<1>3. Unborn \notin Obj /\ Gone \notin Obj /\ Unborn # Gone
  BY AbsentAssumption
<1>4. \A d \in CSG : obj'[d] \in Obj /\ obj[d] \notin Obj => ~Finalized(d)
  BY <1>2, <1>3 DEF Stored, Finalized
<1>5. \A d \in CSG : obj[d] \in Obj /\ obj'[d] \in Obj =>
        /\ SameIn(contested', obj[d].name, obj'[d].name)
        /\ obj'[d].st = obj[d].st \/ obj'[d].st = obj'[d].name
  BY <1>2 DEF Stored, SameIn
<1>6. \A d \in CSG : cache[d] \in Obj => obj[d] # Unborn
  BY DEF TrackInv, FinInv
<1>7. \A d \in CSG : obj'[d] \in Obj /\ obj[d] \notin Obj => obj[d] = Unborn
  BY <1>2, <1>3 DEF Stored
<1>8. NamesKept'
  <2> SUFFICES ASSUME NEW d \in CSG, obj'[d] \in Obj
               PROVE  /\ cache[d] \in Obj => SameIn(contested', cache[d].name, obj'[d].name)
                      /\ obj'[d].st = NoName \/ SameIn(contested', obj'[d].st, obj'[d].name)
    BY <1>1 DEF NamesKept, Same, SameIn
  <2>1. CASE obj[d] \in Obj
    <3>1. /\ cache[d] \in Obj => SameIn(contested', cache[d].name, obj[d].name)
          /\ obj[d].st = NoName \/ SameIn(contested', obj[d].st, obj[d].name)
      BY <1>1, <2>1 DEF Same, SameIn, NamedInv, NamesKept
    <3> QED BY <1>5, <2>1, <3>1 DEF SameIn
  <2>2. CASE obj[d] \notin Obj
    BY <1>2, <1>6, <1>7, <2>2 DEF Stored, SameIn
  <2> QED BY <2>1, <2>2
<1>9. PassNames'
  <2> SUFFICES ASSUME pass' # NoPass
               PROVE  /\ SameIn(contested', pass'.snap.name, obj'[pass'.csg].name)
                      /\ SameIn(contested', pass'.at, pass'.snap.name)
    BY DEF PassNames, Same, SameIn
  <2>1. /\ pass # NoPass /\ pass'.csg = pass.csg /\ pass'.snap = pass.snap
        /\ pass'.at = pass.at /\ pass.csg \in CSG
    BY DEF Stored, Pass
  <2>2. obj[pass.csg] \in Obj /\ Finalized(pass.csg)
    BY <2>1 DEF TrackInv, PassSeen, FinInv
  <2>3. obj'[pass.csg] \in Obj
    BY <1>2, <2>1, <2>2 DEF Safe
  <2>4. /\ SameIn(contested', pass.snap.name, obj[pass.csg].name)
        /\ SameIn(contested', pass.at, pass.snap.name)
    BY <1>1, <2>1 DEF Same, SameIn, NamedInv, PassNames
  <2> QED BY <1>5, <2>1, <2>2, <2>3, <2>4 DEF SameIn
<1>10. NamedOwner'
  <2> SUFFICES ASSUME NEW n \in Name, NEW d \in CSG, remote[n] # NoGroup,
                      remote[n].owner = d, obj'[d] \in Obj
               PROVE  SameIn(contested', n, obj'[d].name)
    BY <1>1 DEF NamedOwner, Same, SameIn, Group
  <2>1. Finalized(d)
    BY DEF TrackInv, FinInv
  <2>2. obj[d] \in Obj
    BY <1>4, <2>1
  <2>3. SameIn(contested', n, obj[d].name)
    BY <1>1, <2>2 DEF Same, SameIn, NamedInv, NamedOwner
  <2> QED BY <1>5, <2>2, <2>3 DEF SameIn
<1> QED BY <1>8, <1>9, <1>10 DEF NamedInv

LEMMA NamedIdles ==
  ASSUME GroupInv, Idles
  PROVE  NamedInv'
<1> USE DEF GroupInv, TypeInv, TypeOK
<1>1. NamesKept' /\ PassNames'
  BY DEF NamedInv, NamesKept, PassNames, Idles, Same
<1>2. NamedOwner'
  BY DEF NamedInv, NamedOwner, Idles, Same
<1> QED BY <1>1, <1>2 DEF NamedInv

\* The cache shows what the API server has.
LEMMA NamedSync ==
  ASSUME GroupInv, (\E c \in CSG : CacheSync(c)) \/ Restart
  PROVE  NamedInv'
<1> USE DEF GroupInv, TypeInv, TypeOK
<1>1. /\ UNCHANGED <<obj, remote, contested>>
      /\ pass' = pass \/ pass' = NoPass
      /\ \A d \in CSG : cache'[d] = cache[d] \/ cache'[d] = obj[d]
  <2>1. CASE Restart
    BY <2>1 DEF Restart
  <2>2. CASE \E c \in CSG : CacheSync(c)
    BY <2>2 DEF CacheSync
  <2> QED BY <2>1, <2>2
<1>2. NamesKept' /\ PassNames' /\ NamedOwner'
  BY <1>1 DEF NamedInv, NamesKept, PassNames, NamedOwner, Same
<1> QED BY <1>2 DEF NamedInv

LEMMA NamedStarts ==
  ASSUME GroupInv, NEW c \in CSG, Starts(c)
  PROVE  NamedInv'
<1> USE DEF GroupInv, TypeInv, TypeOK
<1>1. /\ cache[c] \in Obj /\ cache[c].fin /\ c \in queue
      /\ pass'.csg = c /\ pass'.snap = cache[c]
      /\ pass'.at = IF pass'.pc = "update" THEN Get(cache[c]) ELSE cache[c].name
      /\ UNCHANGED <<obj, cache, remote, contested>>
  BY DEF Starts, k8s
<1>2. obj[c] \in Obj /\ obj[c].st = cache[c].st
  BY <1>1 DEF TrackInv, StatusSeen
<1>3. /\ Same(cache[c].name, obj[c].name)
      /\ obj[c].st = NoName \/ Same(obj[c].st, obj[c].name)
  BY <1>1, <1>2 DEF NamedInv, NamesKept
<1>4. Same(Get(cache[c]), cache[c].name)
  BY <1>2, <1>3 DEF Get, Same
<1>5. PassNames'
  BY <1>1, <1>3, <1>4 DEF PassNames, Same
<1>6. NamesKept' /\ NamedOwner'
  BY <1>1 DEF NamedInv, NamesKept, NamedOwner, Same
<1> QED BY <1>5, <1>6 DEF NamedInv

\* A call leaves the groups as they were, or gives the one of the pass's resource
\* a name that is the resource's.
LEMMA NamedCall ==
  ASSUME GroupInv, NEW next \in Pass, Called(next),
         next.at = pass.at \/ next.at = pass.snap.name,
         \A n \in Name : remote'[n] # NoGroup =>
           \/ remote[n] # NoGroup /\ remote'[n].owner = remote[n].owner
           \/ remote'[n].owner = pass.csg /\ n \in {pass.at, pass.snap.name}
  PROVE  NamedInv'
<1> USE DEF GroupInv, TypeInv, TypeOK
<1>1. /\ pass # NoPass /\ UNCHANGED <<obj, cache, contested>>
      /\ next.csg = pass.csg /\ next.snap = pass.snap
      /\ pass' = next \/ pass' = NoPass
  BY DEF Called, Abort, k8s
<1>2. /\ Same(pass.snap.name, obj[pass.csg].name)
      /\ Same(pass.at, pass.snap.name)
  BY <1>1 DEF NamedInv, PassNames
<1>3. NamesKept'
  BY <1>1 DEF NamedInv, NamesKept, Same
<1>4. PassNames'
  BY <1>1, <1>2 DEF PassNames, Same
<1>5. NamedOwner'
  BY <1>1, <1>2 DEF NamedInv, NamedOwner, Same
<1> QED BY <1>3, <1>4, <1>5 DEF NamedInv

LEMMA NamedNext ==
  ASSUME GroupInv, [Next]_vars
  PROVE  NamedInv'
<1> USE DEF GroupInv, TypeInv, TypeOK
<1>1. ASSUME NEW next \in Pass, Quiet(next)
      PROVE  NamedInv'
  BY <1>1, NamedCall DEF Quiet
<1>2. ASSUME NEW next \in Pass, Removes(next)
      PROVE  NamedInv'
  <2>1. \A n \in Name : remote'[n] = NoGroup \/ remote'[n] = remote[n]
    BY <1>2 DEF Removes
  <2> QED BY <1>2, <2>1, NamedCall DEF Removes
<1>3. ASSUME NEW next \in Pass, NEW g \in Group, Writes(next, g)
      PROVE  NamedInv'
  <2>1. /\ \A n \in Name \ {pass.at} : remote'[n] = remote[n]
        /\ pass.at \in Name => remote'[pass.at] = g
    BY <1>3 DEF Writes
  <2>2. \/ g.owner = pass.csg
        \/ remote[pass.at] \in Group /\ g.owner = remote[pass.at].owner
    BY <1>3 DEF Writes
  <2> QED BY <1>3, <2>1, <2>2, AbsentAssumption, NamedCall DEF Writes
<1>4. ASSUME NEW next \in Pass, NEW g \in Group, Renames(next, g)
      PROVE  NamedInv'
  <2>1. /\ g.owner = pass.csg
        /\ \A n \in Name : \/ remote'[n] = NoGroup \/ remote'[n] = remote[n]
                           \/ n = pass.snap.name /\ remote'[n] = g
    BY <1>4 DEF Renames
  <2> QED BY <1>4, <2>1, NamedCall DEF Renames
<1> QED BY <1>1, <1>2, <1>3, <1>4, NextKind, NamedStored, NamedIdles, NamedSync,
           NamedStarts DEF StepKind

-----------------------------------------------------------------------------
(***************************************************************************)
(* OthersKept.  The group a pass renames or deletes has the name of its    *)
(* own resource.  If another resource that still exists wrote it last, it  *)
(* is the name of that one too: two resources with the finalizer would     *)
(* have one name, which UniqueUnlessRenamed rules out.                     *)
(***************************************************************************)

\* The names a running pass addresses groups by are its own.
LEMMA NameOfPass ==
  ASSUME GroupInv, pass # NoPass, NEW n \in {pass.at, pass.snap.name},
         n \notin contested, NEW d \in CSG, d # pass.csg,
         obj[d] \in Obj, obj[d].fin
  PROVE  obj[d].name # n
<1> USE DEF GroupInv, TypeInv, TypeOK
<1>1. pass.csg \in CSG
  BY DEF Pass
<1>2. obj[pass.csg] \in Obj /\ obj[pass.csg].fin
  BY <1>1 DEF TrackInv, PassSeen, FinInv, Finalized
<1>3. obj[pass.csg].name = n
  BY DEF NamedInv, PassNames, Same
<1> QED BY <1>1, <1>2, <1>3 DEF NameInv, UniqueUnlessRenamed

\* A group disappears by a call that addresses it: a rename or a deletion.
LEMMA GroupGoes ==
  ASSUME GroupInv, [Next]_vars, NEW n \in Name,
         remote[n] # NoGroup, remote'[n] = NoGroup
  PROVE  pass # NoPass /\ n \in {pass.at, pass.snap.name}
<1> USE DEF GroupInv, TypeInv, TypeOK
<1>1. CASE Idles
  BY <1>1 DEF Idles
<1>2. ASSUME NEW c \in CSG, CacheSync(c) \/ Starts(c)
      PROVE  FALSE
  BY <1>2 DEF CacheSync, Starts
<1>3. ASSUME NEW c \in CSG, NEW o \in Obj \union {Gone}, Stored(c, o)
      PROVE  FALSE
  BY <1>3 DEF Stored
<1>4. CASE Restart
  BY <1>4 DEF Restart
<1>5. ASSUME NEW next \in Pass, Quiet(next)
      PROVE  FALSE
  BY <1>5 DEF Quiet
<1>6. ASSUME NEW next \in Pass, Removes(next)
      PROVE  pass # NoPass /\ n \in {pass.at, pass.snap.name}
  BY <1>6 DEF Removes, Called
<1>7. ASSUME NEW next \in Pass, NEW g \in Group, Writes(next, g) \/ Renames(next, g)
      PROVE  pass # NoPass /\ n \in {pass.at, pass.snap.name}
  BY <1>7 DEF Writes, Renames, Called
<1> QED BY <1>1, <1>2, <1>3, <1>4, <1>5, <1>6, <1>7, NextKind DEF StepKind

LEMMA OthersStep ==
  ASSUME GroupInv, [Next]_vars, NEW n \in Name \ contested,
         remote[n] # NoGroup, remote'[n] = NoGroup
  PROVE  remote[n].owner = pass.csg \/ obj[remote[n].owner] = Gone
<1> USE DEF GroupInv, TypeInv, TypeOK
<1> SUFFICES ASSUME remote[n].owner # pass.csg, obj[remote[n].owner] # Gone
             PROVE  FALSE
  OBVIOUS
<1>1. PICK d \in CSG : d = remote[n].owner
  BY DEF Group
<1>2. Finalized(d)
  BY <1>1 DEF TrackInv, FinInv
<1>3. obj[d] \in Obj /\ obj[d].fin
  BY <1>1, <1>2 DEF Finalized
<1>4. obj[d].name = n
  BY <1>1, <1>3 DEF NamedInv, NamedOwner, Same
<1>5. pass # NoPass /\ n \in {pass.at, pass.snap.name}
  BY GroupGoes
<1> QED BY <1>1, <1>3, <1>4, <1>5, NameOfPass

-----------------------------------------------------------------------------
(***************************************************************************)
(* A resource that was never renamed has one name for the API server, the  *)
(* cache, its status, its pass and Centreon: its passes rename nothing and *)
(* the deletion finds the group.                                           *)
(***************************************************************************)

LEMMA HomeStored ==
  ASSUME GroupInv, NEW c \in CSG, NEW o \in Obj \union {Gone},
         Stored(c, o), Safe(c, o)
  PROVE  HomeInv'
<1> USE DEF GroupInv, TypeInv, TypeOK
<1>1. /\ obj' = [obj EXCEPT ![c] = o] /\ UNCHANGED <<cache, remote, left>>
      /\ renamed \subseteq renamed'
  BY DEF Stored, Store
<1>2. /\ obj'[c] = o /\ \A d \in CSG \ {c} : obj'[d] = obj[d]
      /\ \A d \in CSG : Owned(d)' = Owned(d)
  BY <1>1 DEF Owned
<1>3. Unborn \notin Obj /\ Gone \notin Obj /\ Unborn # Gone
  BY AbsentAssumption
<1>4. HomeOwned'
  <2> SUFFICES ASSUME NEW d \in CSG, d \notin renamed'
               PROVE  /\ obj'[d] \in Obj =>
                           /\ obj'[d].st \in {NoName, obj'[d].name}
                           /\ Owned(d) \subseteq {obj'[d].name}
                           /\ cache[d] \in Obj => cache[d].name = obj'[d].name
                      /\ Owned(d) # {} => obj'[d] \in Obj \/ d \in left
    BY <1>1, <1>2 DEF HomeOwned
  <2>1. /\ obj[d] \in Obj => /\ obj[d].st \in {NoName, obj[d].name}
                             /\ Owned(d) \subseteq {obj[d].name}
                             /\ cache[d] \in Obj => cache[d].name = obj[d].name
        /\ Owned(d) # {} => obj[d] \in Obj \/ d \in left
    BY <1>1 DEF HomeInv, HomeOwned
  <2>2. obj[d] = Unborn => Owned(d) = {} /\ cache[d] \notin Obj
    BY NoneOwned DEF TrackInv, FinInv, Finalized
  <2>3. CASE d # c
    BY <1>2, <2>1, <2>3
  <2>4. CASE d = c /\ o \in Obj
    <3>1. CASE obj[c] \in Obj
      BY <1>1, <1>2, <2>1, <2>4, <3>1 DEF Stored
    <3>2. CASE obj[c] = Unborn
      BY <1>2, <2>2, <2>4, <3>2 DEF Stored
    <3> QED BY <1>3, <2>4, <3>1, <3>2 DEF Stored
  <2>5. CASE d = c /\ o = Gone
    BY <1>1, <1>2, <1>3, <2>5 DEF Safe
  <2> QED BY <2>3, <2>4, <2>5
<1>5. PassHome'
  <2> SUFFICES ASSUME pass' # NoPass, pass'.csg \notin renamed'
               PROVE  PassHome'
    BY DEF PassHome
  <2>1. /\ pass # NoPass /\ pass'.csg = pass.csg /\ pass'.snap = pass.snap
        /\ pass'.at = pass.at /\ pass'.todo = pass.todo /\ pass'.pc = pass.pc
        /\ pass.csg \in CSG /\ pass.csg \notin renamed
    BY <1>1 DEF Stored, Pass
  <2>2. obj[pass.csg] \in Obj /\ Finalized(pass.csg)
    BY <2>1 DEF TrackInv, PassSeen, FinInv
  <2>3. obj'[pass.csg] \in Obj
    BY <1>2, <2>1, <2>2 DEF Safe
  <2>4. obj'[pass.csg].name = obj[pass.csg].name
    BY <1>2, <2>1, <2>2, <2>3 DEF Stored
  <2> QED BY <1>1, <1>2, <2>1, <2>4 DEF HomeInv, PassHome
<1> QED BY <1>4, <1>5 DEF HomeInv

LEMMA HomeIdles ==
  ASSUME GroupInv, Idles
  PROVE  HomeInv'
<1> USE DEF GroupInv, TypeInv, TypeOK
<1>1. \A d \in CSG : Owned(d)' = Owned(d)
  BY DEF Owned, Idles
<1>2. pass # NoPass => pass.csg \in CSG
  BY DEF Pass
<1> QED BY <1>1, <1>2 DEF HomeInv, HomeOwned, PassHome, Idles

LEMMA HomeSync ==
  ASSUME GroupInv, (\E c \in CSG : CacheSync(c)) \/ Restart
  PROVE  HomeInv'
<1> USE DEF GroupInv, TypeInv, TypeOK
<1>1. /\ UNCHANGED <<obj, remote, renamed, left>>
      /\ pass' = pass \/ pass' = NoPass
      /\ \A d \in CSG : cache'[d] = cache[d] \/ cache'[d] = obj[d]
  <2>1. CASE Restart
    BY <2>1 DEF Restart
  <2>2. CASE \E c \in CSG : CacheSync(c)
    BY <2>2 DEF CacheSync, ghosts
  <2> QED BY <2>1, <2>2
<1>2. \A d \in CSG : Owned(d)' = Owned(d)
  BY <1>1 DEF Owned
<1>3. pass # NoPass => pass.csg \in CSG
  BY DEF Pass
<1>4. HomeOwned'
  BY <1>1, <1>2 DEF HomeInv, HomeOwned
<1>5. PassHome'
  BY <1>1, <1>2, <1>3 DEF HomeInv, PassHome
<1> QED BY <1>4, <1>5 DEF HomeInv

LEMMA HomeStarts ==
  ASSUME GroupInv, NEW c \in CSG, Starts(c)
  PROVE  HomeInv'
<1> USE DEF GroupInv, TypeInv, TypeOK
<1>1. /\ cache[c] \in Obj /\ cache[c].fin /\ c \in queue
      /\ pass'.csg = c /\ pass'.snap = cache[c] /\ pass'.pc # "release"
      /\ pass'.at = IF pass'.pc = "update" THEN Get(cache[c]) ELSE cache[c].name
      /\ "name" \in pass'.todo => pass'.at # cache[c].name
      /\ pass'.todo \subseteq {"name", "cfg"}
      /\ UNCHANGED <<obj, cache, remote, renamed, left>>
  BY DEF Starts, k8s, Field
<1>2. obj[c] \in Obj /\ obj[c].st = cache[c].st
  BY <1>1 DEF TrackInv, StatusSeen
<1>3. c \notin renamed => /\ cache[c].name = obj[c].name
                          /\ obj[c].st \in {NoName, obj[c].name}
  BY <1>1, <1>2 DEF HomeInv, HomeOwned
<1>4. c \notin renamed => pass'.at = cache[c].name
  BY <1>1, <1>2, <1>3 DEF Get
<1>5. PassHome'
  BY <1>1, <1>3, <1>4 DEF PassHome
<1>6. \A d \in CSG : Owned(d)' = Owned(d)
  BY <1>1 DEF Owned
<1>7. HomeOwned'
  BY <1>1, <1>6 DEF HomeInv, HomeOwned
<1> QED BY <1>5, <1>7 DEF HomeInv

\* A resource that was not renamed keeps its group, or loses it, by a call.
LEMMA HomeCall ==
  ASSUME GroupInv, NEW next \in Pass, Called(next), left \subseteq left',
         NEW p \in CSG, p = pass.csg,
         next.at = pass.at \/ next.at = pass.snap.name,
         next.todo \subseteq pass.todo,
         \A n \in Name : remote'[n] # NoGroup =>
           \/ remote[n] # NoGroup /\ remote'[n].owner = remote[n].owner
           \/ remote'[n].owner = p /\ n \in {pass.at, pass.snap.name},
         next.pc = "release" /\ p \notin renamed => Owned(p)' = {} \/ p \in left'
  PROVE  HomeInv'
<1> USE DEF GroupInv, TypeInv, TypeOK
<1>1. /\ pass # NoPass /\ UNCHANGED <<obj, cache, renamed>>
      /\ next.csg = p /\ next.snap = pass.snap
      /\ pass' = next \/ pass' = NoPass
      /\ obj[p] \in Obj
  BY CallSeen DEF Called, Abort
<1>2. p \notin renamed =>
        /\ pass.snap.name = obj[p].name /\ pass.at = pass.snap.name
        /\ pass.todo \subseteq {"cfg"}
  BY <1>1 DEF HomeInv, PassHome
<1>3. \A d \in CSG \ {p} : Owned(d)' \subseteq Owned(d)
  BY DEF Owned
<1>4. \A n \in Owned(p)' : n \in Owned(p) \/ n \in {pass.at, pass.snap.name}
  BY DEF Owned
<1>5. HomeOwned'
  BY <1>1, <1>2, <1>3, <1>4 DEF HomeInv, HomeOwned
<1>6. PassHome'
  BY <1>1, <1>2 DEF PassHome
<1> QED BY <1>5, <1>6 DEF HomeInv

LEMMA HomeNext ==
  ASSUME GroupInv, [Next]_vars
  PROVE  HomeInv'
<1> USE DEF GroupInv, TypeInv, TypeOK
<1>0. ASSUME NEW next \in Pass, Called(next)
      PROVE  /\ pass.csg \in CSG /\ pass \in Pass /\ obj[pass.csg] \in Obj
             /\ pass.csg \notin renamed => pass.snap.name = obj[pass.csg].name
             /\ pass.csg \notin renamed => Owned(pass.csg) \subseteq {pass.snap.name}
  <2>1. /\ pass.csg \in CSG /\ pass \in Pass /\ obj[pass.csg] \in Obj
        /\ pass # NoPass
    BY <1>0, CallSeen
  <2> QED BY <2>1 DEF HomeInv, PassHome, HomeOwned
<1>1. ASSUME NEW next \in Pass, Quiet(next)
      PROVE  HomeInv'
  <2> DEFINE p == pass.csg
  <2>1. /\ Called(next) /\ UNCHANGED remote /\ left \subseteq left'
        /\ next.at = pass.at /\ next.todo = pass.todo
        /\ next.pc = "release" => pass.pc = "release" \/ p \in left'
    BY <1>1 DEF Quiet
  <2>2. next.pc = "release" /\ p \notin renamed =>
          (\A n \in Name : remote[n] = NoGroup \/ remote[n].owner # p) \/ p \in left'
    BY <2>1 DEF HomeInv, PassHome, Owned, Called
  <2>3. ASSUME NEW q \in CSG, q = p, next.pc = "release", q \notin renamed
        PROVE  Owned(q)' = {} \/ q \in left'
    BY <2>1, <2>2, <2>3 DEF Owned
  <2> QED BY <1>0, <2>1, <2>3, HomeCall
<1>2. ASSUME NEW next \in Pass, Removes(next)
      PROVE  HomeInv'
  <2>1. /\ Called(next) /\ remote' = [remote EXCEPT ![pass.snap.name] = NoGroup]
        /\ next.at = pass.at /\ next.todo = pass.todo
        /\ left \subseteq left'
    BY <1>2 DEF Removes
  <2>2. ASSUME NEW q \in CSG, q = pass.csg, q \notin renamed
        PROVE  Owned(q)' = {}
    <3>1. Owned(q) \subseteq {pass.snap.name} /\ pass.snap.name \in Name
      BY <1>0, <2>1, <2>2 DEF Pass, Obj
    <3> QED BY <2>1, <3>1 DEF Owned
  <2> QED BY <1>0, <2>1, <2>2, HomeCall
<1>3. ASSUME NEW next \in Pass, NEW g \in Group, Writes(next, g)
      PROVE  HomeInv'
  <2>1. /\ \A n \in Name \ {pass.at} : remote'[n] = remote[n]
        /\ pass.at \in Name => remote'[pass.at] = g
        /\ Called(next) /\ UNCHANGED left /\ next.pc # "release"
        /\ next.at = pass.at /\ next.todo \subseteq pass.todo
    BY <1>3 DEF Writes, Writing
  <2>2. \/ g.owner = pass.csg
        \/ remote[pass.at] \in Group /\ g.owner = remote[pass.at].owner
    BY <1>3 DEF Writes
  <2>3. \A n \in Name : remote'[n] # NoGroup =>
          \/ remote[n] # NoGroup /\ remote'[n].owner = remote[n].owner
          \/ remote'[n].owner = pass.csg /\ n \in {pass.at, pass.snap.name}
    BY <2>1, <2>2, AbsentAssumption
  <2> QED BY <1>0, <2>1, <2>3, HomeCall
<1>4. ASSUME NEW next \in Pass, NEW g \in Group, Renames(next, g)
      PROVE  HomeInv'
  <2>1. /\ g.owner = pass.csg
        /\ \A n \in Name : \/ remote'[n] = NoGroup \/ remote'[n] = remote[n]
                           \/ n = pass.snap.name /\ remote'[n] = g
        /\ Called(next) /\ UNCHANGED left /\ next.pc # "release"
        /\ next.at = pass.snap.name /\ next.todo \subseteq pass.todo
    BY <1>4 DEF Renames, Writing
  <2>2. \A n \in Name : remote'[n] # NoGroup =>
          \/ remote[n] # NoGroup /\ remote'[n].owner = remote[n].owner
          \/ remote'[n].owner = pass.csg /\ n \in {pass.at, pass.snap.name}
    BY <2>1
  <2> QED BY <1>0, <2>1, <2>2, HomeCall
<1> QED BY <1>1, <1>2, <1>3, <1>4, NextKind, HomeStored, HomeIdles, HomeSync,
           HomeStarts DEF StepKind

LEMMA GroupNext == GroupInv /\ [Next]_vars => GroupInv'
<1> SUFFICES ASSUME GroupInv, [Next]_vars
             PROVE  GroupInv'
  OBVIOUS
<1>1. TypeInv' /\ NameInv'
  BY TypeNext, NameNext DEF GroupInv
<1> QED BY <1>1, TrackNext, NamedNext, HomeNext DEF GroupInv

LEMMA GroupAlways == Spec => []GroupInv
  BY GroupInit, GroupNext, PTL DEF Spec

(***************************************************************************)
(* A pass, or the next one, finds the group its resource wrote last,       *)
(* wherever a failure cut the calls of a rename.                           *)
(***************************************************************************)
THEOREM StatusTheorem == Spec => []StatusTracksGroup
<1>1. GroupInv => StatusTracksGroup
  <2> SUFFICES ASSUME GroupInv, NEW c \in CSG \ slip, NEW n \in Owned(c)
               PROVE  \/ obj[c] \in Obj /\ obj[c].st = n
                      \/ c \in left
                      \/ pass # NoPass /\ pass.csg = c /\ pass.at = n
    BY DEF StatusTracksGroup
  <2> QED BY DEF GroupInv, TrackInv, Tracked, Active, On
<1> QED BY <1>1, GroupAlways, PTL

(***************************************************************************)
(* Deletions and renames address groups by the name in the spec alone;     *)
(* they do not hit the group another existing resource wrote last.         *)
(***************************************************************************)
THEOREM OthersTheorem == Spec => OthersKept
<1>1. GroupInv /\ [Next]_vars =>
        [\A n \in Name \ contested :
           (remote[n] # NoGroup /\ remote'[n] = NoGroup) =>
             \/ remote[n].owner = pass.csg
             \/ obj[remote[n].owner] = Gone]_remote
  BY OthersStep
<1> QED BY <1>1, GroupAlways, PTL DEF Spec, OthersKept

-----------------------------------------------------------------------------
(***************************************************************************)
(* RestingGroupInSync.  A resource comes to rest only when a pass finds    *)
(* its group as the resource says: every other end of a pass leaves the    *)
(* resource dirty or queued.  Then only its own passes touch the group, by *)
(* NameOfPass.                                                             *)
(***************************************************************************)

\* The group of a resting resource is not the one a call addresses.
LEMMA RestingUntouched ==
  ASSUME GroupInv, pass # NoPass, NEW c \in CSG, c # pass.csg,
         obj[c] \in Obj, obj[c].fin, obj[c].name \notin contested
  PROVE  obj[c].name # pass.at /\ obj[c].name # pass.snap.name
  BY NameOfPass

Demands(c) ==
  /\ obj[c] \in Obj /\ obj[c].fin /\ ~obj[c].deleting
  /\ Plain(obj[c].policy) /\ obj[c].name \notin contested

InSync(c) ==
  /\ remote[obj[c].name] # NoGroup
  /\ remote[obj[c].name].cfg = obj[c].cfg

\* What a step has to show: c was at rest before, and its group is untouched.
LEMMA RestingStays ==
  ASSUME GroupInv, RestingGroupInSync, NEW c \in CSG, Demands(c)',
         UNCHANGED obj[c], contested \subseteq contested', Resting(c),
         Demands(c) =>
           /\ remote'[obj[c].name] = NoGroup <=> remote[obj[c].name] = NoGroup
           /\ remote[obj[c].name] # NoGroup =>
                remote'[obj[c].name].cfg = remote[obj[c].name].cfg
  PROVE  InSync(c)'
<1>1. Demands(c)
  BY DEF Demands
<1>2. InSync(c)
  BY <1>1 DEF RestingGroupInSync, Demands, InSync
<1> QED BY <1>1, <1>2 DEF InSync

\* A call of the running pass: it goes on, or its key is back on the queue.
LEMMA RestingCall ==
  ASSUME GroupInv, RestingGroupInSync, NEW next \in Pass, Called(next),
         \A n \in Name \ {pass.at, pass.snap.name} : remote'[n] = remote[n],
         NEW c \in CSG, Resting(c)', Demands(c)'
  PROVE  InSync(c)'
<1> USE DEF GroupInv, TypeInv, TypeOK
<1>1. /\ pass # NoPass /\ next.csg = pass.csg
      /\ UNCHANGED <<obj, dirty, contested>>
      /\ \/ pass' = next /\ queue' = queue
         \/ pass' = NoPass /\ queue' = queue \union {pass.csg}
  BY DEF Called, Abort, k8s
<1>2. next # NoPass
  BY AbsentAssumption
<1>3. c # pass.csg /\ Resting(c)
  BY <1>1, <1>2 DEF Resting
<1>4. obj[c] \in Obj /\ obj[c].fin /\ obj[c].name \notin contested
  BY <1>1 DEF Demands
<1>5. obj[c].name # pass.at /\ obj[c].name # pass.snap.name
  BY <1>1, <1>3, <1>4, RestingUntouched
<1>6. obj[c].name \in Name
  BY <1>4 DEF Obj
<1>7. UNCHANGED obj[c] /\ remote'[obj[c].name] = remote[obj[c].name]
  BY <1>1, <1>5, <1>6
<1> QED BY <1>1, <1>3, <1>7, RestingStays

\* A pass that finds nothing to do finds the group as the resource says.
LEMMA RestingNoDiff ==
  ASSUME GroupInv, NEW c \in CSG, ReconcileNoDiff(c), Resting(c)', Demands(c)'
  PROVE  InSync(c)'
<1> USE DEF GroupInv, TypeInv, TypeOK
<1>1. UNCHANGED <<obj, cache, dirty, contested, remote>>
  BY DEF ReconcileNoDiff, k8s
<1>2. cache[c] = obj[c]
  BY <1>1 DEF Resting, NameInv, CacheFresh
<1> DEFINE n == Get(obj[c])
<1>3. remote[n] # NoGroup /\ Diff(obj[c], n) = {}
  BY <1>2 DEF ReconcileNoDiff
<1>4. obj[c].policy.exclude = {}
  BY <1>1 DEF Demands, Plain
<1> HIDE DEF n
<1>5. n = obj[c].name /\ remote[n].cfg = obj[c].cfg
  BY <1>3, <1>4 DEF Diff, Field
<1> QED BY <1>1, <1>3, <1>5 DEF InSync

LEMMA RestingReconcile ==
  ASSUME GroupInv, RestingGroupInSync, NEW b \in CSG, Reconcile(b),
         NEW c \in CSG, Resting(c)', Demands(c)'
  PROVE  InSync(c)'
<1> USE DEF GroupInv, TypeInv, TypeOK
<1>1. CASE Starts(b)
  <2>1. /\ pass = NoPass /\ queue' = queue \ {b} /\ pass' # NoPass
        /\ pass'.csg = b /\ UNCHANGED <<obj, dirty, contested, remote>>
    BY <1>1 DEF Starts, k8s
  <2>2. Resting(c)
    BY <2>1 DEF Resting
  <2> QED BY <2>1, <2>2, RestingStays
<1>2. ASSUME NEW o \in Obj, Stored(b, o)
      PROVE  InSync(c)'
  <2>1. /\ obj' = [obj EXCEPT ![b] = o] /\ dirty' = dirty \union {b}
        /\ queue \subseteq queue' \union {b} /\ UNCHANGED remote
        /\ contested \subseteq contested'
        /\ pass' = NoPass => pass = NoPass \/ pass.csg = b
        /\ pass' # NoPass => pass # NoPass /\ pass'.csg = pass.csg
    BY <1>2 DEF Stored, Store
  <2>2. c # b /\ Resting(c)
    BY <2>1 DEF Resting
  <2>3. UNCHANGED obj[c]
    BY <2>1, <2>2
  <2> QED BY <2>1, <2>2, <2>3, RestingStays
<1>3. CASE ReconcileAbsent(b) \/ ReconcileNoDiff(b)
  <2>1. /\ UNCHANGED <<obj, cache, dirty, pass, remote, contested>>
        /\ queue' = queue \ {b}
    BY <1>3 DEF ReconcileAbsent, ReconcileNoDiff, Take, k8s
  <2>2. CASE c # b
    <3>1. Resting(c)
      BY <2>1, <2>2 DEF Resting
    <3> QED BY <2>1, <3>1, RestingStays
  <2>3. CASE c = b /\ ReconcileAbsent(b)
    <3>1. cache[c] = obj[c]
      BY <2>1 DEF Resting, NameInv, CacheFresh
    <3> QED BY <2>1, <2>3, <3>1 DEF ReconcileAbsent, Demands
  <2>4. CASE c = b /\ ReconcileNoDiff(b)
    BY <2>4, RestingNoDiff
  <2> QED BY <1>3, <2>2, <2>3, <2>4
<1> QED BY <1>1, <1>2, <1>3, ReconcileEffect

LEMMA RestingNext ==
  ASSUME GroupInv, RestingGroupInSync, [Next]_vars
  PROVE  RestingGroupInSync'
<1> USE DEF GroupInv, TypeInv, TypeOK
<1> SUFFICES ASSUME NEW c \in CSG, Resting(c)', Demands(c)'
             PROVE  InSync(c)'
  BY DEF RestingGroupInSync, Demands, InSync
<1>1. CASE \E b \in CSG : Reconcile(b)
  BY <1>1, RestingReconcile
<1>2. ASSUME NEW b \in CSG, NEW o \in Obj \union {Gone}, Stored(b, o)
      PROVE  InSync(c)'
  <2>1. /\ obj' = [obj EXCEPT ![b] = o] /\ dirty' = dirty \union {b}
        /\ queue \subseteq queue' \union {b} /\ UNCHANGED remote
        /\ contested \subseteq contested'
        /\ pass' = NoPass => pass = NoPass \/ pass.csg = b
        /\ pass' # NoPass => pass # NoPass /\ pass'.csg = pass.csg
    BY <1>2 DEF Stored, Store
  <2>2. c # b /\ Resting(c)
    BY <2>1 DEF Resting
  <2>3. UNCHANGED obj[c]
    BY <2>1, <2>2
  <2> QED BY <2>1, <2>2, <2>3, RestingStays
<1>3. ASSUME NEW b \in CSG, CacheSync(b)
      PROVE  InSync(c)'
  <2>1. /\ UNCHANGED <<obj, pass, remote, contested>>
        /\ dirty' = dirty \ {b} /\ queue' = queue \union {b}
    BY <1>3 DEF CacheSync
  <2>2. Resting(c)
    BY <2>1 DEF Resting
  <2> QED BY <2>1, <2>2, RestingStays
<1>4. CASE Restart
  <2>1. UNCHANGED obj /\ queue' = {d \in CSG : obj[d] \in Obj}
    BY <1>4 DEF Restart
  <2> QED BY <2>1 DEF Resting, Demands
<1>5. CASE Idles /\ UNCHANGED queue
  <2>1. UNCHANGED <<obj, dirty, pass, contested>>
    BY <1>5 DEF Idles
  <2>2. Resting(c)
    BY <1>5, <2>1 DEF Resting
  <2>3. Demands(c) => obj[c].name \in Name
    BY DEF Demands, Obj
  <2>4. Demands(c) =>
          /\ remote'[obj[c].name] = NoGroup <=> remote[obj[c].name] = NoGroup
          /\ remote[obj[c].name] # NoGroup =>
               remote'[obj[c].name].cfg = remote[obj[c].name].cfg
    BY <1>5, <2>3 DEF Idles
  <2> QED BY <2>1, <2>2, <2>4, RestingStays
<1>6. ASSUME NEW next \in Pass,
             \/ Quiet(next) \/ Removes(next)
             \/ \E g \in Group : Writes(next, g) \/ Renames(next, g)
      PROVE  InSync(c)'
  <2>1. /\ Called(next)
        /\ \A n \in Name \ {pass.at, pass.snap.name} : remote'[n] = remote[n]
    BY <1>6 DEF Quiet, Removes, Writes, Renames
  <2> QED BY <2>1, RestingCall
<1>7. \/ \E b \in CSG : Reconcile(b) \/ CacheSync(b)
      \/ \E b \in CSG : \E o \in Obj \union {Gone} : Stored(b, o)
      \/ \E next \in Pass :
           \/ Quiet(next) \/ Removes(next)
           \/ \E g \in Group : Writes(next, g) \/ Renames(next, g)
      \/ Restart \/ (Idles /\ UNCHANGED queue)
  <2>1. CASE UNCHANGED vars
    BY <2>1 DEF Idles, vars
  <2>2. CASE CallFails
    <3>1. pass \in Pass
      BY <2>2 DEF CallFails
    <3>2. Quiet(pass)
      BY <2>2, <3>1 DEF Quiet, Called, CallFails
    <3> QED BY <3>1, <3>2
  <2>3. ASSUME NEW s \in Service, UpdateService(s) \/ JobFails(s)
        PROVE  Idles /\ UNCHANGED queue
    <3>1. UNCHANGED queue
      BY <2>3 DEF UpdateService, InGroup, SetServiceGroups, DeleteServiceGroups,
                  JobFails
    <3> QED BY <2>3, <3>1, ServiceIdles
  <2>4. CASE \E b \in CSG : User(b)
    BY <2>4, UserStores
  <2>5. CASE Work
    BY <2>5, WorkEffect, EndStores
  <2> QED BY <2>1, <2>2, <2>3, <2>4, <2>5 DEF Next
<1> QED BY <1>1, <1>2, <1>3, <1>4, <1>5, <1>6, <1>7

(***************************************************************************)
(* The operator does not rest before the group of a resource is what the   *)
(* resource says, wherever its passes were cut.                            *)
(***************************************************************************)
THEOREM RestingTheorem == Spec => []RestingGroupInSync
<1>1. Init => RestingGroupInSync
  BY AbsentAssumption DEF Init, RestingGroupInSync
<1> QED BY <1>1, GroupAlways, RestingNext, PTL DEF Spec

-----------------------------------------------------------------------------
(***************************************************************************)
(* ImplementsPromise.  A group is written for a resource a pass runs for,  *)
(* which has the finalizer.  The finalizer goes when no group is left: a   *)
(* resource whose passes never slipped has its group where the deletion    *)
(* looked, or left it (Tracked); one that was not renamed has it under its *)
(* name (HomeInv).                                                         *)
(***************************************************************************)

\* The variables of RemoteObject, as CentreonServiceGroup reads them.
Kept == {c \in CSG : obj[c] \in Obj /\ obj[c].fin}
Owner == [n \in Name |-> IF remote[n] = NoGroup THEN NoGroup ELSE remote[n].owner]
Excused == left \union (slip \intersect renamed)

\* What a step has to show to keep the promise by a step of RemoteObject.
LEMMA PromiseBy ==
  ASSUME Excused \subseteq Excused',
         \/ UNCHANGED <<Kept, Owner>>
         \/ \E c \in CSG :
              \/ Kept' = Kept \union {c} /\ UNCHANGED Owner
              \/ /\ c \in Excused \/ \A n \in Name : Owner[n] # c
                 /\ Kept' = Kept \ {c} /\ UNCHANGED Owner
              \/ /\ c \in Kept /\ UNCHANGED Kept
                 /\ \E n \in Name :
                      \/ Owner' = [Owner EXCEPT ![n] = c]
                      \/ Owner' = [Owner EXCEPT ![n] = NoGroup]
                      \/ \E m \in Name :
                           /\ Owner[n] # NoGroup /\ Owner[m] = NoGroup
                           /\ Owner' = [Owner EXCEPT ![n] = NoGroup, ![m] = c]
  PROVE  Promise!Next
<1>1. CASE UNCHANGED <<Kept, Owner>>
  BY <1>1 DEF Promise!Next, Promise!Excuse, Kept, Owner, Excused
<1>2. ASSUME NEW c \in CSG, Kept' = Kept \union {c}, UNCHANGED Owner
      PROVE  Promise!Next
  <2>1. Promise!Keep(c)
    BY <1>2 DEF Promise!Keep, Kept, Owner
  <2> QED BY <2>1 DEF Promise!Next, Excused
<1>3. ASSUME NEW c \in CSG, c \in Excused \/ \A n \in Name : Owner[n] # c,
             Kept' = Kept \ {c}, UNCHANGED Owner
      PROVE  Promise!Next
  <2>1. Promise!Release(c)
    BY <1>3 DEF Promise!Release, Kept, Owner, Excused
  <2> QED BY <2>1 DEF Promise!Next, Excused
<1>4. ASSUME NEW c \in CSG, c \in Kept, UNCHANGED Kept, NEW n \in Name,
             \/ Owner' = [Owner EXCEPT ![n] = c]
             \/ Owner' = [Owner EXCEPT ![n] = NoGroup]
      PROVE  Promise!Next
  <2>1. Promise!Write(c, n) \/ Promise!Remove(c, n)
    BY <1>4 DEF Promise!Write, Promise!Remove, Kept, Owner
  <2> QED BY <2>1 DEF Promise!Next, Excused
<1>5. ASSUME NEW c \in CSG, c \in Kept, UNCHANGED Kept, NEW n \in Name, NEW m \in Name,
             Owner[n] # NoGroup, Owner[m] = NoGroup,
             Owner' = [Owner EXCEPT ![n] = NoGroup, ![m] = c]
      PROVE  Promise!Next
  <2>1. Promise!Move(c, n, m)
    BY <1>5 DEF Promise!Move, Kept, Owner
  <2> QED BY <2>1 DEF Promise!Next, Excused
<1> QED BY <1>1, <1>2, <1>3, <1>4, <1>5

LEMMA PromiseStored ==
  ASSUME GroupInv, NEW c \in CSG, NEW o \in Obj \union {Gone},
         Stored(c, o), Safe(c, o)
  PROVE  Promise!Next
<1> USE DEF GroupInv, TypeInv, TypeOK
<1>1. obj' = [obj EXCEPT ![c] = o] /\ UNCHANGED Owner
  BY DEF Stored, Store, Owner
<1>2. Excused \subseteq Excused'
  BY DEF Stored, Excused
<1>3. Gone \notin Obj /\ Unborn \notin Obj
  BY AbsentAssumption
<1>4. Kept' = (Kept \ {c}) \union (IF o \in Obj /\ o.fin THEN {c} ELSE {})
  BY <1>1 DEF Kept
<1>5. c \in Kept /\ o \in Obj => o.fin
  BY DEF Stored, Kept
<1>6. CASE c \in Kept /\ o = Gone
  <2>1. Kept' = Kept \ {c}
    BY <1>3, <1>4, <1>6
  <2>2. c \in left \/ Owned(c) = {} \/ c \in renamed
    BY <1>6 DEF Safe
  <2>3. ASSUME c \notin slip
        PROVE  c \in left \/ Owned(c) = {}
    BY <1>3, <1>6, <2>3 DEF Safe
  <2>4. c \in Excused \/ Owned(c) = {}
    BY <2>2, <2>3 DEF Excused
  <2>5. ASSUME Owned(c) = {}
        PROVE  \A n \in Name : Owner[n] # c
    BY <2>5, AbsentAssumption DEF Owner, Owned
  <2> QED BY <1>1, <1>2, <2>1, <2>4, <2>5, PromiseBy
<1>7. CASE ~(c \in Kept /\ o = Gone)
  <2>1. Kept' = Kept \/ Kept' = Kept \union {c}
    BY <1>4, <1>5, <1>7
  <2> QED BY <1>1, <1>2, <2>1, PromiseBy
<1> QED BY <1>6, <1>7

LEMMA PromiseCall ==
  ASSUME GroupInv, NEW next \in Pass,
         \/ Quiet(next) \/ Removes(next)
         \/ \E g \in Group : Writes(next, g) \/ Renames(next, g)
  PROVE  Promise!Next
<1> USE DEF GroupInv, TypeInv, TypeOK
<1>1. Called(next) /\ left \subseteq left'
  BY DEF Quiet, Removes, Writes, Renames
<1>2. PICK p \in CSG : p = pass.csg /\ p \in Kept /\ UNCHANGED Kept /\ pass \in Pass
  BY <1>1, CallSeen DEF Kept, Finalized
<1>3. Excused \subseteq Excused'
  BY <1>1, CallSeen DEF Excused
<1>4. pass.at \in Name /\ pass.snap.name \in Name
  BY <1>2 DEF Pass, Obj
<1>5. CASE Quiet(next)
  BY <1>2, <1>3, <1>5, PromiseBy DEF Quiet, Owner
<1>6. CASE Removes(next)
  <2>1. Owner' = [Owner EXCEPT ![pass.snap.name] = NoGroup]
    BY <1>4, <1>6 DEF Removes, Owner
  <2> QED BY <1>2, <1>3, <1>4, <2>1, PromiseBy
<1>7. ASSUME NEW g \in Group, Writes(next, g)
      PROVE  Promise!Next
  <2>1. /\ remote' = [remote EXCEPT ![pass.at] = g] /\ g # NoGroup
        /\ g.owner = p \/ (remote[pass.at] # NoGroup
                           /\ g.owner = remote[pass.at].owner)
    BY <1>2, <1>7, AbsentAssumption DEF Writes
  <2>2. Owner' = [Owner EXCEPT ![pass.at] = g.owner]
    BY <1>4, <2>1 DEF Owner
  <2>3. CASE g.owner = p
    BY <1>2, <1>3, <1>4, <2>2, <2>3, PromiseBy
  <2>4. CASE remote[pass.at] # NoGroup /\ g.owner = remote[pass.at].owner
    <3>1. Owner' = Owner
      BY <1>4, <2>2, <2>4 DEF Owner
    <3> QED BY <1>2, <1>3, <3>1, PromiseBy
  <2> QED BY <2>1, <2>3, <2>4
<1>8. ASSUME NEW g \in Group, Renames(next, g)
      PROVE  Promise!Next
  <2> DEFINE to == pass.snap.name
  <2>1. /\ remote[pass.at] \in Group /\ remote[pass.at] # NoGroup
        /\ remote[to] = NoGroup /\ g # NoGroup /\ g.owner = p
        /\ remote' = [remote EXCEPT ![to] = g, ![pass.at] = NoGroup]
    BY <1>2, <1>8, AbsentAssumption DEF Renames
  <2>2. Owner' = [Owner EXCEPT ![pass.at] = NoGroup, ![to] = p]
    BY <1>4, <2>1 DEF Owner
  <2>3. Owner[pass.at] # NoGroup /\ Owner[to] = NoGroup
    BY <1>4, <2>1, AbsentAssumption DEF Owner, Group
  <2> HIDE DEF to
  <2>4. to \in Name
    BY <1>4 DEF to
  <2> QED BY <1>2, <1>3, <1>4, <2>2, <2>3, <2>4, PromiseBy
<1> QED BY <1>5, <1>6, <1>7, <1>8

LEMMA PromiseStep ==
  ASSUME GroupInv, [Next]_vars
  PROVE  [Promise!Next]_Promise!vars
<1> USE DEF GroupInv, TypeInv, TypeOK
<1>1. ASSUME UNCHANGED <<obj, remote>>, left \subseteq left', slip \subseteq slip',
             renamed \subseteq renamed'
      PROVE  Promise!Next
  BY <1>1, PromiseBy DEF Kept, Owner, Excused
<1>2. CASE Idles
  <2>1. UNCHANGED <<Kept, Owner, Excused>>
    BY <1>2 DEF Idles, Kept, Owner, Excused
  <2> QED BY <2>1, PromiseBy
<1>3. ASSUME NEW c \in CSG, CacheSync(c) \/ Starts(c)
      PROVE  Promise!Next
  BY <1>1, <1>3 DEF CacheSync, Starts, k8s, ghosts
<1>4. CASE Restart
  BY <1>1, <1>4 DEF Restart
<1> QED BY <1>2, <1>3, <1>4, NextKind, PromiseStored, PromiseCall DEF StepKind

(***************************************************************************)
(* CentreonServiceGroup keeps the promise of a reconciler of remote        *)
(* objects: every write, rename and deletion of a group is made for a      *)
(* resource with the finalizer, and a resource loses the finalizer only    *)
(* when no group is left that it wrote, or when it is excused.             *)
(***************************************************************************)
THEOREM PromiseTheorem == Spec => ImplementsPromise
<1>1. Init => Promise!Init
  BY DEF Init, Promise!Init
<1> QED BY <1>1, GroupAlways, PromiseStep, PTL
        DEF Spec, ImplementsPromise, Promise!Spec

\* Every group the operator ever touched has a resource to delete it.
NoGroupOrphaned ==
  \A n \in Name : remote[n] # NoGroup =>
    \/ obj[remote[n].owner] \in Obj /\ obj[remote[n].owner].fin
    \/ remote[n].owner \in left \union (slip \intersect renamed)

\* The promise, read where it is proved to be of use.
Reconciler == INSTANCE RemoteObjectProofs WITH
  Resource <- CSG, Identity <- Name, Nobody <- NoGroup, Foreign <- NoGroup,
  Again <- FALSE,
  kept <- {c \in CSG : obj[c] \in Obj /\ obj[c].fin},
  owner <- [n \in Name |-> IF remote[n] = NoGroup THEN NoGroup ELSE remote[n].owner],
  excused <- left \union (slip \intersect renamed)

(***************************************************************************)
(* Nothing is orphaned (RemoteObjectProofs): a group that the operator     *)
(* created or wrote belongs to a resource that exists and has its          *)
(* finalizer, so that it will be deleted with it, or to one for which the  *)
(* code is known to lose track of it.                                      *)
(***************************************************************************)
THEOREM OrphanTheorem == Spec => []NoGroupOrphaned
<1>1. Promise!Init => Reconciler!Init
  BY DEF Promise!Init, Reconciler!Init
<1>2. [Promise!Next]_(Promise!vars) => [Reconciler!Next]_(Reconciler!vars)
  BY DEF Promise!Next, Promise!vars, Promise!Keep, Promise!Release, Promise!Write,
         Promise!Remove, Promise!Move, Promise!Excuse, Reconciler!Next,
         Reconciler!vars, Reconciler!Keep, Reconciler!Release, Reconciler!Write,
         Reconciler!Remove, Reconciler!Move, Reconciler!Excuse
<1>3. TypeOK /\ Reconciler!NoOrphan => NoGroupOrphaned
  <2> SUFFICES ASSUME TypeOK, Reconciler!NoOrphan, NEW n \in Name,
                      remote[n] # NoGroup
               PROVE  \/ obj[remote[n].owner] \in Obj /\ obj[remote[n].owner].fin
                      \/ remote[n].owner \in left \union (slip \intersect renamed)
    BY DEF NoGroupOrphaned
  <2>1. remote[n].owner \in CSG
    BY DEF TypeOK, Group
  <2> QED BY <2>1, AbsentAssumption DEF Reconciler!NoOrphan
<1> QED BY <1>1, <1>2, <1>3, TypeCorrect, PromiseTheorem,
           Reconciler!NoOrphanTheorem, PTL
        DEF ImplementsPromise, Promise!Spec, Reconciler!Spec
=============================================================================
