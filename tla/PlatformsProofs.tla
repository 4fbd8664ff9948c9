-------------------------- MODULE PlatformsProofs --------------------------
(***************************************************************************)
(* Theorems about Platforms, for every value of its constants.             *)
(***************************************************************************)
EXTENDS Platforms, TLAPS

USE BoundAssumption, AbsentAssumption

(***************************************************************************)
(* Types.  A pass that stores an entry has one to store.                   *)
(***************************************************************************)
PutHasEntry == pass # NoPass /\ pass.pc = "put" => pass.computed \in ComputedPlatform

TypeInv == TypeOK /\ PutHasEntry

LEMMA ReadType ==
  ASSUME TypeInv, NEW p \in Plat, Readable(p)
  PROVE  Read(p) \in ComputedPlatform /\ Read(p).name = p
  BY DEF TypeInv, TypeOK, Readable, Read, getComputedCentreonPlatform,
         ComputedPlatform, Obj, PlatformSpec

LEMMA TypeInit == Init => TypeInv
  BY DEF Init, TypeInv, TypeOK, PutHasEntry, Empty

LEMMA TypeStart ==
  ASSUME TypeInv, ComputedPlatformList \/ StartInformers \/ Stop
  PROVE  TypeInv'
<1> USE DEF TypeInv, TypeOK, PutHasEntry
<1>1. CASE ComputedPlatformList
  <2> DEFINE entry(p) == getComputedCentreonPlatform(p, obj[p].spec,
                                                     secret[obj[p].spec.secret])
  <2>1. ASSUME NEW p \in Plat, obj[p] # NoObj, secret[obj[p].spec.secret] # NoCred
        PROVE  entry(p) \in ComputedPlatform
    BY <2>1 DEF getComputedCentreonPlatform, ComputedPlatform, Obj, PlatformSpec
  <2> HIDE DEF entry
  <2>2. PICK skipped \in SUBSET Plat :
          LET listed == { p \in Plat \ skipped :
                            obj[p] # NoObj /\ secret[obj[p].spec.secret] # NoCred }
              claims == { p \in listed : obj[p].spec.isDefault \/ p = DefaultKey }
          IN /\ \E d \in claims \union {NoEntry} :
                  /\ d = NoEntry <=> claims = {}
                  /\ platforms' = [k \in Key |->
                       IF k = DefaultKey
                       THEN IF claims = {} THEN NoEntry ELSE entry(d)
                       ELSE IF k \in listed THEN entry(k) ELSE NoEntry]
             /\ missed' = { p \in listed : ~obj[p].fin }
    BY <1>1 DEF ComputedPlatformList, entry
  <2>3. platforms' \in [Key -> ComputedPlatform \union {NoEntry}]
    BY <2>1, <2>2
  <2> QED BY <1>1, <2>2, <2>3 DEF ComputedPlatformList
<1>2. CASE StartInformers
  BY <1>2 DEF StartInformers
<1>3. CASE Stop
  BY <1>3 DEF Stop, Empty
<1> QED BY <1>1, <1>2, <1>3

LEMMA TypeUserWrite ==
  ASSUME TypeInv, NEW p \in Plat, NEW o \in Obj \union {NoObj}, UserWrite(p, o),
         born' \in 0..MaxUid, edits' \in 0..MaxEdits
  PROVE  TypeInv'
<1>1. pass' \in Pass \union {NoPass} /\ PutHasEntry'
  BY DEF TypeInv, TypeOK, PutHasEntry, UserWrite, Pass
<1> QED BY <1>1 DEF TypeInv, TypeOK, UserWrite, Store

LEMMA TypeUser ==
  ASSUME TypeInv, NEW p \in Plat, User(p)
  PROVE  TypeInv'
<1>1. CASE ValidateCreate(p)
  <2>1. PICK spec \in PlatformSpec :
          UserWrite(p, [spec |-> spec, uid |-> born + 1, fin |-> FALSE,
                        deleting |-> FALSE])
    BY <1>1 DEF ValidateCreate
  <2>2. born' = born + 1 /\ born < MaxUid /\ UNCHANGED edits
    BY <1>1 DEF ValidateCreate
  <2>3. born + 1 \in 1..MaxUid /\ born' \in 0..MaxUid /\ edits' \in 0..MaxEdits
    BY <2>2 DEF TypeInv, TypeOK
  <2>4. [spec |-> spec, uid |-> born + 1, fin |-> FALSE, deleting |-> FALSE] \in Obj
    BY <2>3 DEF Obj
  <2> QED BY <2>1, <2>3, <2>4, TypeUserWrite
<1>2. CASE ValidateUpdate(p)
  <2>1. PICK spec \in PlatformSpec : UserWrite(p, [obj[p] EXCEPT !.spec = spec])
    BY <1>2 DEF ValidateUpdate
  <2>2. born' \in 0..MaxUid /\ edits' \in 0..MaxEdits /\ obj[p] \in Obj
    BY <1>2 DEF ValidateUpdate, TypeInv, TypeOK
  <2>3. [obj[p] EXCEPT !.spec = spec] \in Obj
    BY <2>2 DEF Obj
  <2> QED BY <2>1, <2>2, <2>3, TypeUserWrite
<1>3. CASE UserDelete(p)
  <2>1. obj[p] \in Obj /\ born' \in 0..MaxUid /\ edits' \in 0..MaxEdits
    BY <1>3 DEF UserDelete, TypeInv, TypeOK
  <2>2. [obj[p] EXCEPT !.deleting = TRUE] \in Obj
    BY <2>1 DEF Obj
  <2> QED BY <1>3, <2>1, <2>2, TypeUserWrite DEF UserDelete
<1> QED BY <1>1, <1>2, <1>3 DEF User

LEMMA TypeReconcile ==
  ASSUME TypeInv, NEW p \in Plat, Reconcile(p)
  PROVE  TypeInv'
<1>1. CASE AddFinalizer(p)
  <2>1. [cache[p] EXCEPT !.fin = TRUE] \in Obj
    BY <1>1 DEF AddFinalizer, TypeInv, TypeOK, Obj
  <2> QED BY <1>1, <2>1 DEF AddFinalizer, Take, Store, TypeInv, TypeOK, PutHasEntry
<1>2. CASE ReconcileDelete(p)
  <2>1. pass' \in Pass /\ pass'.pc = "delete"
    BY <1>2 DEF ReconcileDelete, Begin, TypeInv, TypeOK, Pass
  <2> QED BY <1>2, <2>1 DEF ReconcileDelete, Begin, Take, TypeInv, TypeOK, PutHasEntry
<1>3. CASE ReconcilePut(p)
  <2>1. Read(p) \in ComputedPlatform
    BY <1>3, ReadType DEF ReconcilePut
  <2>2. pass' \in Pass /\ pass'.computed = Read(p)
    BY <1>3, <2>1 DEF ReconcilePut, Readable, Begin, TypeInv, TypeOK, Pass
  <2> QED BY <1>3, <2>1, <2>2 DEF ReconcilePut, Begin, Take, TypeInv, TypeOK, PutHasEntry
<1>4. CASE ReconcileAbsent(p)
  BY <1>4 DEF ReconcileAbsent, Take, TypeInv, TypeOK, PutHasEntry
<1>5. CASE ReconcileNoDiff(p)
  BY <1>5 DEF ReconcileNoDiff, Take, TypeInv, TypeOK, PutHasEntry
<1> QED BY <1>1, <1>2, <1>3, <1>4, <1>5 DEF Reconcile

LEMMA TypeWork ==
  ASSUME TypeInv, Calls \/ AuthFails
  PROVE  TypeInv'
<1> USE DEF TypeInv, TypeOK, PutHasEntry, Work, Pass
<1>1. CASE Create
  BY <1>1 DEF Create
<1>2. CASE Delete
  BY <1>2 DEF Delete
<1>3. CASE RemoveFinalizer
  BY <1>3 DEF RemoveFinalizer, Store, Retry
<1>4. CASE AuthFails
  BY <1>4 DEF AuthFails, Retry
<1> QED BY <1>1, <1>2, <1>3, <1>4 DEF Calls

LEMMA TypeNext == TypeInv /\ [Next]_vars => TypeInv'
<1> SUFFICES ASSUME TypeInv, [Next]_vars
             PROVE  TypeInv'
  OBVIOUS
<1>1. ASSUME NEW p \in Plat, CacheSync(p)
      PROVE  TypeInv'
  BY <1>1 DEF CacheSync, TypeInv, TypeOK, PutHasEntry
<1>2. ASSUME NEW s \in Secret, WriteSecret(s)
      PROVE  TypeInv'
  BY <1>2 DEF WriteSecret, TypeInv, TypeOK, PutHasEntry
<1>3. ASSUME NEW s \in Secret, watchCentreonPlatformSecret(s)
      PROVE  TypeInv'
  BY <1>3 DEF watchCentreonPlatformSecret, TypeInv, TypeOK, PutHasEntry
<1>4. CASE UNCHANGED vars
  BY <1>4 DEF vars, TypeInv, TypeOK, PutHasEntry
<1> QED BY <1>1, <1>2, <1>3, <1>4, TypeStart, TypeUser, TypeReconcile, TypeWork
        DEF Next

(***************************************************************************)
(* The type invariant.                                                     *)
(***************************************************************************)
THEOREM TypeCorrect == Spec => []TypeOK
<1>1. TypeInv => TypeOK
  BY DEF TypeInv
<1> QED BY <1>1, TypeInit, TypeNext, PTL DEF Spec

(***************************************************************************)
(* The inductive invariant.  A cache without pending versions agrees with  *)
(* the API server; a pass works on a version that had the finalizer; an    *)
(* entry belongs to a platform with the finalizer and has its name; and a  *)
(* key that neither waits nor is worked on has the entry its cached        *)
(* resource and its cached secret describe.                                *)
(***************************************************************************)
HasFin(o) == o # NoObj /\ o.fin
Usable(o) == o # NoObj /\ o.fin /\ ~o.deleting

CacheFollows == phase = "up" => \A p \in Plat : p \notin dirty => cache[p] = obj[p]

CacheFinalized == \A p \in Plat : Usable(cache[p]) => HasFin(obj[p])

PassFollows ==
  pass # NoPass =>
    /\ phase = "up"
    /\ pass.fresh => pass.plat \notin dirty /\ obj[pass.plat] = pass.snap
    /\ pass.pc = "put" => /\ pass.computed.name = pass.plat
                          /\ Usable(pass.snap) /\ HasFin(obj[pass.plat])
    /\ pass.pc # "put" => HasFin(pass.snap) /\ pass.snap.deleting
    /\ pass.pc = "release" /\ pass.plat # DefaultKey => platforms[pass.plat] = NoEntry
    /\ pass.plat \notin queue =>
         /\ cache[pass.plat] = pass.snap
         /\ pass.pc = "put" => pass.computed = Read(pass.plat)

EntryFinalized ==
  \A p \in Plat \ (missed \union {DefaultKey}) :
    platforms[p] # NoEntry => HasFin(obj[p])

EntryNamed ==
  \A p \in Plat \ {DefaultKey} : platforms[p] # NoEntry => platforms[p].name = p

EntryFollows ==
  phase = "up" =>
    \A p \in Plat \ {DefaultKey} :
      (Usable(cache[p]) /\ p \notin queue /\ (pass # NoPass => pass.plat # p))
        => platforms[p] = Read(p)

MapInv ==
  /\ CacheFollows /\ CacheFinalized /\ PassFollows
  /\ EntryFinalized /\ EntryNamed /\ EntryFollows

LEMMA MapInit == Init => MapInv
  BY DEF Init, Empty, MapInv, CacheFollows, CacheFinalized, PassFollows,
         EntryFinalized, EntryNamed, EntryFollows, Usable, Key

\* Filling the map, listing into the caches, and stopping.
LEMMA MapStart ==
  ASSUME TypeInv, MapInv, ComputedPlatformList \/ StartInformers \/ Stop
  PROVE  MapInv'
<1> USE DEF MapInv, CacheFollows, CacheFinalized, PassFollows, EntryFinalized,
            EntryNamed, EntryFollows
<1>1. CASE ComputedPlatformList
  <2> DEFINE entry(p) == getComputedCentreonPlatform(p, obj[p].spec,
                                                     secret[obj[p].spec.secret])
  <2>1. \A p : entry(p).name = p
    BY DEF getComputedCentreonPlatform
  <2> HIDE DEF entry
  <2>2. PICK skipped \in SUBSET Plat :
          LET listed == { p \in Plat \ skipped :
                            obj[p] # NoObj /\ secret[obj[p].spec.secret] # NoCred }
              claims == { p \in listed : obj[p].spec.isDefault \/ p = DefaultKey }
          IN /\ \E d \in claims \union {NoEntry} :
                  /\ d = NoEntry <=> claims = {}
                  /\ platforms' = [k \in Key |->
                       IF k = DefaultKey
                       THEN IF claims = {} THEN NoEntry ELSE entry(d)
                       ELSE IF k \in listed THEN entry(k) ELSE NoEntry]
             /\ missed' = { p \in listed : ~obj[p].fin }
    BY <1>1 DEF ComputedPlatformList, entry
  <2>3. phase' = "listed" /\ phase = "down" /\ UNCHANGED <<obj, cache, dirty, queue, pass>>
    BY <1>1 DEF ComputedPlatformList
  <2>4. EntryFinalized' /\ EntryNamed'
    BY <2>1, <2>2, <2>3 DEF Key, HasFin
  <2>5. CacheFollows' /\ CacheFinalized' /\ PassFollows' /\ EntryFollows'
    BY <2>3 DEF HasFin, Usable
  <2> QED BY <2>4, <2>5
<1>2. CASE StartInformers
  <2>1. pass = NoPass /\ phase = "listed"
    BY <1>2 DEF StartInformers
  <2> QED BY <1>2, <2>1 DEF StartInformers, HasFin, Usable
<1>3. CASE Stop
  BY <1>3 DEF Stop, Empty, HasFin, Usable, Key
<1> QED BY <1>1, <1>2, <1>3

\* A user's write that keeps the finalizer while there is one.
LEMMA MapUserWrite ==
  ASSUME TypeInv, MapInv, NEW p \in Plat, NEW o, UserWrite(p, o),
         HasFin(obj[p]) => HasFin(o)
  PROVE  MapInv'
<1> USE DEF MapInv, UserWrite, Store
<1>1. CacheFollows' /\ CacheFinalized'
  BY DEF CacheFollows, CacheFinalized, TypeInv, TypeOK, Usable, HasFin
<1>2. EntryFinalized' /\ EntryNamed'
  BY DEF EntryFinalized, EntryNamed, TypeInv, TypeOK, HasFin
<1>3. /\ pass = NoPass <=> pass' = NoPass
      /\ pass # NoPass => /\ pass'.plat = pass.plat /\ pass'.snap = pass.snap
                          /\ pass'.computed = pass.computed /\ pass'.pc = pass.pc
                          /\ pass'.fresh => pass.fresh /\ pass.plat # p
  BY DEF TypeInv, TypeOK, Pass
<1>4. PassFollows'
  BY <1>3 DEF PassFollows, TypeInv, TypeOK, Pass, HasFin, Read
<1>5. EntryFollows'
  BY <1>3 DEF EntryFollows, Read
<1> QED BY <1>1, <1>2, <1>4, <1>5

LEMMA MapUser ==
  ASSUME TypeInv, MapInv, NEW p \in Plat, User(p)
  PROVE  MapInv'
<1>1. CASE ValidateCreate(p)
  BY <1>1, MapUserWrite DEF ValidateCreate, HasFin
<1>2. CASE ValidateUpdate(p)
  <2>1. PICK spec \in PlatformSpec : UserWrite(p, [obj[p] EXCEPT !.spec = spec])
    BY <1>2 DEF ValidateUpdate
  <2> DEFINE o == [obj[p] EXCEPT !.spec = spec]
  <2>2. obj[p] \in Obj /\ o \in Obj /\ o.fin = obj[p].fin
    BY <1>2 DEF ValidateUpdate, TypeInv, TypeOK, Obj
  <2> HIDE DEF o
  <2>3. HasFin(obj[p]) => HasFin(o)
    BY <2>2 DEF HasFin
  <2>4. UserWrite(p, o)
    BY <2>1 DEF o
  <2> QED BY <2>3, <2>4, MapUserWrite
<1>3. CASE UserDelete(p)
  <2> DEFINE o == [obj[p] EXCEPT !.deleting = TRUE]
  <2>1. obj[p] \in Obj /\ o \in Obj /\ o.fin = obj[p].fin
    BY <1>3 DEF UserDelete, TypeInv, TypeOK, Obj
  <2>2. UserWrite(p, IF obj[p].fin THEN o ELSE NoObj)
    BY <1>3 DEF UserDelete
  <2> HIDE DEF o
  <2>3. HasFin(obj[p]) => obj[p].fin /\ HasFin(o)
    BY <2>1 DEF HasFin
  <2>4. CASE obj[p].fin
    BY <2>2, <2>3, <2>4, MapUserWrite
  <2>5. CASE ~obj[p].fin
    BY <2>2, <2>3, <2>5, MapUserWrite
  <2> QED BY <2>4, <2>5
<1> QED BY <1>1, <1>2, <1>3 DEF User

\* Events: what an informer delivers is enqueued where it matters.
LEMMA MapEvents ==
  ASSUME TypeInv, MapInv,
         \/ \E p \in Plat : CacheSync(p)
         \/ \E s \in Secret : WriteSecret(s) \/ watchCentreonPlatformSecret(s)
  PROVE  MapInv'
<1> USE DEF MapInv
<1>1. ASSUME NEW p \in Plat, CacheSync(p)
      PROVE  MapInv'
  <2> USE <1>1 DEF CacheSync, TypeInv, TypeOK
  <2>1. CacheFollows' /\ CacheFinalized' /\ EntryFinalized' /\ EntryNamed'
    BY DEF CacheFollows, CacheFinalized, EntryFinalized, EntryNamed, HasFin, Usable
  <2>2. PassFollows'
    BY DEF PassFollows, HasFin, Usable, Read, Pass
  <2>3. EntryFollows'
    BY DEF EntryFollows, Usable, Read
  <2> QED BY <2>1, <2>2, <2>3
<1>2. ASSUME NEW s \in Secret, WriteSecret(s)
      PROVE  MapInv'
  BY <1>2 DEF WriteSecret, CacheFollows, CacheFinalized, PassFollows,
     EntryFinalized, EntryNamed, EntryFollows, Read, Usable, HasFin
<1>3. ASSUME NEW s \in Secret, watchCentreonPlatformSecret(s)
      PROVE  MapInv'
  <2> USE <1>3 DEF watchCentreonPlatformSecret, TypeInv, TypeOK
  <2>1. CacheFollows' /\ CacheFinalized' /\ EntryFinalized' /\ EntryNamed'
    BY DEF CacheFollows, CacheFinalized, EntryFinalized, EntryNamed
  <2>2. ASSUME NEW p \in Plat, cache[p] # NoObj, p \notin queue'
        PROVE  Read(p)' = Read(p)
    BY <2>2 DEF Read, getComputedCentreonPlatform, Obj, PlatformSpec
  <2>3. PassFollows'
    <3>1. CASE pass # NoPass /\ pass.plat \notin queue' /\ pass.pc = "put"
      <4>1. pass.plat \in Plat /\ cache[pass.plat] # NoObj
        BY <3>1 DEF PassFollows, Usable, Pass
      <4> QED BY <2>2, <3>1, <4>1 DEF PassFollows
    <3>2. CASE ~(pass # NoPass /\ pass.plat \notin queue' /\ pass.pc = "put")
      BY <3>2 DEF PassFollows
    <3> QED BY <3>1, <3>2
  <2>4. EntryFollows'
    BY <2>2 DEF EntryFollows, Usable
  <2> QED BY <2>1, <2>3, <2>4
<1> QED BY <1>1, <1>2, <1>3

\* The start of a pass: what it works on is what the caches show.
LEMMA MapBegin ==
  ASSUME TypeInv, MapInv, NEW p \in Plat, NEW pc \in {"put", "delete"},
         NEW computed \in ComputedPlatform \union {NoEntry}, Take(p), Begin(p, pc, computed), HasFin(cache[p]),
         pc = "put" => Usable(cache[p]) /\ computed = Read(p) /\ computed.name = p,
         pc = "delete" => cache[p].deleting
  PROVE  MapInv'
<1> USE DEF MapInv, Take, Begin
<1>1. /\ pass' # NoPass => /\ pass'.plat = p /\ pass'.snap = cache[p] /\ pass'.pc = pc
                           /\ pass'.computed = computed
                           /\ pass'.fresh <=> p \notin dirty
      /\ pass'.plat = p /\ phase = "up"
  OBVIOUS
<1>2. CacheFollows' /\ CacheFinalized' /\ EntryFinalized' /\ EntryNamed'
  BY DEF CacheFollows, CacheFinalized, EntryFinalized, EntryNamed
<1>3. Read(p)' = Read(p)
  BY DEF Read
<1>4. PassFollows'
  BY <1>1, <1>3 DEF PassFollows, CacheFollows, CacheFinalized
<1>5. ASSUME NEW q \in Plat \ {DefaultKey}, Usable(cache[q]), q \notin queue', q # p
      PROVE  platforms[q] = Read(q)' /\ UNCHANGED platforms
  BY <1>5 DEF EntryFollows, Read
<1>6. pass' # NoPass
  <2>1. cache[p] \in Obj
    BY DEF TypeInv, TypeOK, HasFin
  <2>2. [plat |-> p, snap |-> cache[p], computed |-> computed,
         fresh |-> p \notin dirty, pc |-> pc] \in Pass
    BY <2>1 DEF Pass
  <2> QED BY <2>2
<1>7. EntryFollows'
  BY <1>1, <1>5, <1>6 DEF EntryFollows
<1> QED BY <1>2, <1>4, <1>7

LEMMA MapStutter ==
  ASSUME TypeInv, MapInv, NEW p \in Plat, Take(p),
         UNCHANGED <<obj, cache, dirty, secret, seen, phase, pass, platforms, missed>>,
         p # DefaultKey /\ Usable(cache[p]) => platforms[p] = Read(p)
  PROVE  MapInv'
<1> USE DEF MapInv, Take
<1>1. CacheFollows' /\ CacheFinalized' /\ EntryFinalized' /\ EntryNamed' /\ PassFollows'
  BY DEF CacheFollows, CacheFinalized, EntryFinalized, EntryNamed, PassFollows
<1>2. EntryFollows'
  BY DEF EntryFollows, Read
<1> QED BY <1>1, <1>2

LEMMA MapReconcile ==
  ASSUME TypeInv, MapInv, NEW p \in Plat, Reconcile(p)
  PROVE  MapInv'
<1>1. CASE ReconcileAbsent(p)
  BY <1>1, MapStutter DEF ReconcileAbsent, Usable
<1>2. CASE AddFinalizer(p)
  <2> DEFINE o == [cache[p] EXCEPT !.fin = TRUE]
  <2>1. cache[p] \in Obj /\ o \in Obj /\ o.fin
    BY <1>2 DEF AddFinalizer, TypeInv, TypeOK, Obj
  <2>2. /\ obj' = [obj EXCEPT ![p] = o] /\ dirty' = dirty \union {p}
        /\ queue' = queue \ {p} /\ pass = NoPass /\ ~cache[p].fin
        /\ UNCHANGED <<cache, seen, phase, pass, platforms, missed>>
    BY <1>2 DEF AddFinalizer, Store, Take
  <2> HIDE DEF o
  <2>3. HasFin(o)
    BY <2>1 DEF HasFin
  <2>4. CacheFollows' /\ CacheFinalized' /\ EntryFinalized' /\ EntryNamed' /\ PassFollows'
    BY <2>2, <2>3 DEF MapInv, CacheFollows, CacheFinalized, EntryFinalized,
       EntryNamed, PassFollows, TypeInv, TypeOK
  <2>5. EntryFollows'
    BY <2>2 DEF MapInv, EntryFollows, Read, Usable
  <2> QED BY <2>4, <2>5 DEF MapInv
<1>3. CASE ReconcileDelete(p)
  BY <1>3, MapBegin DEF ReconcileDelete, HasFin
<1>4. CASE ReconcilePut(p)
  BY <1>4, MapBegin, ReadType DEF ReconcilePut, Readable, HasFin, Usable
<1>5. CASE ReconcileNoDiff(p)
  <2>1. Readable(p) /\ ~Diff(platforms[p], Read(p)) /\ Read(p) \in ComputedPlatform
        /\ Read(p).name = p
    BY <1>5, ReadType DEF ReconcileNoDiff
  <2>2. ASSUME p # DefaultKey
        PROVE  platforms[p] = Read(p)
    <3>1. platforms[p] \in ComputedPlatform /\ platforms[p].name = p
      BY <2>1, <2>2 DEF Diff, TypeInv, TypeOK, Key, MapInv, EntryNamed
    <3>2. platforms[p].hash = Read(p).hash /\ platforms[p].spec = Read(p).spec
      BY <2>1 DEF Diff
    <3> QED BY <2>1, <3>1, <3>2 DEF ComputedPlatform
  <2> QED BY <1>5, <2>2, MapStutter DEF ReconcileNoDiff
<1> QED BY <1>1, <1>2, <1>3, <1>4, <1>5 DEF Reconcile

\* The steps of a pass.
LEMMA MapWork ==
  ASSUME TypeInv, MapInv, Calls \/ AuthFails
  PROVE  MapInv'
<1>1. pass \in Pass /\ pass # NoPass /\ pass.plat \in Plat /\ phase = "up"
  BY DEF Calls, AuthFails, Create, Delete, RemoveFinalizer, Work, TypeInv, TypeOK,
         Pass, MapInv, PassFollows
<1>2. PassFollows
  BY DEF MapInv
<1>3. CASE Create
  <2> USE <1>3 DEF Create
  <2>1. /\ platforms'[pass.plat] = pass.computed
        /\ \A q \in Plat \ {DefaultKey} : q # pass.plat => platforms'[q] = platforms[q]
    BY <1>1 DEF KeysOf, Key
  <2>2. CacheFollows' /\ CacheFinalized' /\ PassFollows'
    BY DEF MapInv, CacheFollows, CacheFinalized, PassFollows
  <2>3. EntryFinalized' /\ EntryNamed'
    BY <1>1, <1>2, <2>1 DEF MapInv, EntryFinalized, EntryNamed, PassFollows
  <2>4. EntryFollows'
    BY <1>1, <1>2, <2>1 DEF MapInv, EntryFollows, PassFollows, Read
  <2> QED BY <2>2, <2>3, <2>4 DEF MapInv
<1>4. CASE Delete
  <2> USE <1>4 DEF Delete
  <2>1. /\ platforms'[pass.plat] = NoEntry
        /\ \A q \in Plat \ {DefaultKey} : q # pass.plat => platforms'[q] = platforms[q]
    BY <1>1 DEF KeysOf, Key
  <2>2. /\ pass' # NoPass /\ pass'.plat = pass.plat /\ pass'.snap = pass.snap
        /\ pass'.fresh = pass.fresh /\ pass'.pc = "release"
    BY <1>1 DEF Pass
  <2>3. CacheFollows' /\ CacheFinalized'
    BY DEF MapInv, CacheFollows, CacheFinalized
  <2>4. PassFollows'
    BY <1>1, <1>2, <2>1, <2>2 DEF PassFollows
  <2>5. EntryFinalized' /\ EntryNamed'
    BY <1>1, <2>1 DEF MapInv, EntryFinalized, EntryNamed
  <2>6. EntryFollows'
    BY <1>1, <2>1, <2>2 DEF MapInv, EntryFollows, Read
  <2> QED BY <2>3, <2>4, <2>5, <2>6 DEF MapInv
<1>5. CASE AuthFails
  BY <1>1, <1>5 DEF AuthFails, Retry, MapInv, CacheFollows, CacheFinalized, PassFollows,
     EntryFinalized, EntryNamed, EntryFollows, Read
<1>6. CASE RemoveFinalizer
  <2>1. CASE /\ pass.fresh /\ pass' = NoPass /\ UNCHANGED queue
             /\ Store(pass.plat, NoObj)
    <3>1. /\ obj[pass.plat] = pass.snap /\ cache[pass.plat] = pass.snap
          /\ HasFin(pass.snap) /\ pass.snap.deleting
          /\ pass.plat # DefaultKey => platforms[pass.plat] = NoEntry
      BY <1>1, <1>2, <1>6, <2>1 DEF RemoveFinalizer, MapInv, PassFollows, CacheFollows
    <3>2. UNCHANGED <<cache, seen, phase, platforms, missed>>
      BY <1>6 DEF RemoveFinalizer
    <3>3. /\ dirty' = dirty \union {pass.plat} /\ ~Usable(cache[pass.plat])
          /\ \A q \in Plat : q # pass.plat => obj'[q] = obj[q]
      <4>1. ~Usable(cache[pass.plat])
        BY <3>1 DEF Usable
      <4>2. \A q \in Plat : q # pass.plat => obj'[q] = obj[q]
        BY <2>1 DEF Store, TypeInv, TypeOK
      <4> QED BY <2>1, <4>1, <4>2 DEF Store
    <3>4. CacheFollows' /\ PassFollows'
      BY <2>1, <3>2, <3>3 DEF MapInv, CacheFollows, PassFollows
    <3>5. CacheFinalized'
      BY <3>2, <3>3 DEF MapInv, CacheFinalized
    <3>6. EntryFinalized' /\ EntryNamed'
      BY <3>1, <3>2, <3>3 DEF MapInv, EntryFinalized, EntryNamed
    <3>7. EntryFollows'
      <4>1. ASSUME NEW q \in Plat, Usable(cache[q])
            PROVE  q # pass.plat /\ Read(q)' = Read(q)
        BY <3>2, <3>3, <4>1 DEF Read
      <4> QED BY <1>1, <2>1, <3>2, <4>1 DEF MapInv, EntryFollows
    <3> QED BY <3>4, <3>5, <3>6, <3>7 DEF MapInv
  <2>2. CASE Retry /\ UNCHANGED <<obj, dirty>>
    BY <1>1, <1>6, <2>2 DEF RemoveFinalizer, Retry, MapInv, CacheFollows, CacheFinalized,
       PassFollows, EntryFinalized, EntryNamed, EntryFollows, Read
  <2> QED BY <1>6, <2>1, <2>2 DEF RemoveFinalizer
<1> QED BY <1>3, <1>4, <1>5, <1>6 DEF Calls

LEMMA MapNext == TypeInv /\ MapInv /\ [Next]_vars => MapInv'
<1> SUFFICES ASSUME TypeInv, MapInv, [Next]_vars
             PROVE  MapInv'
  OBVIOUS
<1>1. CASE UNCHANGED vars
  BY <1>1 DEF vars, MapInv, CacheFollows, CacheFinalized, PassFollows,
     EntryFinalized, EntryNamed, EntryFollows, Read
<1> QED BY <1>1, MapStart, MapUser, MapEvents, MapReconcile, MapWork DEF Next

LEMMA Invariants == Spec => [](TypeInv /\ MapInv)
  BY TypeInit, TypeNext, MapInit, MapNext, PTL DEF Spec

(***************************************************************************)
(* A platform that is gone has no entry under its name, unless it was      *)
(* listed at start-up without a finalizer: the finalizer is stored before  *)
(* the entry and removed after it, however late the cache is.              *)
(***************************************************************************)
THEOREM GoneTheorem == Spec => []GoneHasNoEntry
<1>1. MapInv => GoneHasNoEntry
  BY DEF MapInv, EntryFinalized, GoneHasNoEntry, HasFin
<1> QED BY <1>1, Invariants, PTL

LEMMA CurrentStep == TypeInv /\ MapInv => EntryIsCurrent
<1> SUFFICES ASSUME TypeInv, MapInv, Settled, NEW p \in Plat \ {DefaultKey}, Live(p)
             PROVE  platforms[p] = Wanted(p)
  BY DEF EntryIsCurrent
<1>1. cache[p] = obj[p] /\ Usable(cache[p])
  BY DEF Settled, MapInv, CacheFollows, Live, Usable
<1>2. platforms[p] = Read(p)
  BY <1>1 DEF Settled, MapInv, EntryFollows
<1> QED BY <1>1, <1>2 DEF Read, Wanted, Settled

(***************************************************************************)
(* Once every event was delivered and every key served, each entry is the  *)
(* client that the latest resource and the latest secret describe: no      *)
(* order of events, secret changes, failed logins or stops loses one.      *)
(***************************************************************************)
THEOREM CurrentTheorem == Spec => []EntryIsCurrent
  BY CurrentStep, Invariants, PTL

(***************************************************************************)
(* The map as the other controllers see it.  Two facts more are needed: an *)
(* operator that does not run has no map, and runs no pass.                *)
(***************************************************************************)
DownEmpty ==
  /\ phase = "down" => platforms = [k \in Key |-> NoEntry]
  /\ phase # "up" => pass = NoPass

LEMMA DownNext == DownEmpty /\ [Next]_vars => DownEmpty'
<1> SUFFICES ASSUME DownEmpty, [Next]_vars
             PROVE  DownEmpty'
  OBVIOUS
<1> USE DEF DownEmpty
<1>1. CASE ComputedPlatformList \/ StartInformers \/ Stop
  BY <1>1 DEF ComputedPlatformList, StartInformers, Stop
<1>2. ASSUME NEW p \in Plat, User(p)
      PROVE  DownEmpty'
  BY <1>2 DEF User, ValidateCreate, ValidateUpdate, UserDelete, UserWrite, Store
<1>3. ASSUME NEW p \in Plat, CacheSync(p)
      PROVE  DownEmpty'
  BY <1>3 DEF CacheSync
<1>4. ASSUME NEW p \in Plat, Reconcile(p)
      PROVE  DownEmpty'
  BY <1>4 DEF Reconcile, ReconcileAbsent, AddFinalizer, ReconcileDelete,
     ReconcilePut, ReconcileNoDiff, Take, Begin, Store
<1>5. ASSUME NEW s \in Secret, WriteSecret(s) \/ watchCentreonPlatformSecret(s)
      PROVE  DownEmpty'
  BY <1>5 DEF WriteSecret, watchCentreonPlatformSecret
<1>6. CASE Calls \/ AuthFails
  BY <1>6 DEF Calls, AuthFails, Create, Delete, RemoveFinalizer, Retry, Work, Store
<1>7. CASE UNCHANGED vars
  BY <1>7 DEF vars
<1> QED BY <1>1, <1>2, <1>3, <1>4, <1>5, <1>6, <1>7 DEF Next

LEMMA MapFill ==
  ASSUME TypeInv, DownEmpty, ComputedPlatformList
  PROVE  Map!Fill
<1> DEFINE entry(p) == getComputedCentreonPlatform(p, obj[p].spec,
                                                   secret[obj[p].spec.secret])
<1>1. \A p \in Plat : entry(p).name = p
  BY DEF getComputedCentreonPlatform
<1> HIDE DEF entry
<1>2. PICK skipped \in SUBSET Plat :
        LET listed == { p \in Plat \ skipped :
                          obj[p] # NoObj /\ secret[obj[p].spec.secret] # NoCred }
            claims == { p \in listed : obj[p].spec.isDefault \/ p = DefaultKey }
        IN \E d \in claims \union {NoEntry} :
             /\ d = NoEntry <=> claims = {}
             /\ platforms' = [k \in Key |->
                  IF k = DefaultKey
                  THEN IF claims = {} THEN NoEntry ELSE entry(d)
                  ELSE IF k \in listed THEN entry(k) ELSE NoEntry]
  BY DEF ComputedPlatformList, entry
<1> DEFINE listed == { p \in Plat \ skipped :
                         obj[p] # NoObj /\ secret[obj[p].spec.secret] # NoCred }
           claims == { p \in listed : obj[p].spec.isDefault \/ p = DefaultKey }
<1>3. PICK d \in claims \union {NoEntry} :
        /\ d = NoEntry <=> claims = {}
        /\ platforms' = [k \in Key |->
             IF k = DefaultKey
             THEN IF claims = {} THEN NoEntry ELSE entry(d)
             ELSE IF k \in listed THEN entry(k) ELSE NoEntry]
  BY <1>2
<1>4. claims # {} => d \in listed
  BY <1>3
<1> HIDE DEF claims
<1>5. \A p \in Plat \ {DefaultKey} :
        platforms'[p] = IF p \in listed THEN entry(p) ELSE NoEntry
  BY <1>3 DEF Key
<1>6. platforms'[DefaultKey] = IF claims = {} THEN NoEntry ELSE entry(d)
  BY <1>3 DEF Key
<1>7. platforms'[DefaultKey] = NoEntry \/ \E p \in Plat : platforms'[DefaultKey] = platforms'[p]
  <2>1. CASE claims = {}
    BY <2>1, <1>6
  <2>2. CASE claims # {} /\ d = DefaultKey
    BY <2>2, <1>4
  <2>3. CASE claims # {} /\ d # DefaultKey
    BY <2>3, <1>4, <1>5, <1>6
  <2> QED BY <2>1, <2>2, <2>3
<1>8. platforms' \in [Map!Key -> ComputedPlatform \union {NoEntry}]
  <2>1. TypeInv'
    BY TypeStart
  <2> QED BY <2>1 DEF TypeInv, TypeOK, Key, Map!Key
<1>9. platforms = Map!Cleared
  BY DEF DownEmpty, ComputedPlatformList, Map!Cleared, Map!Key, Key
<1> QED BY <1>1, <1>5, <1>7, <1>8, <1>9 DEF Map!Fill

LEMMA MapKeys ==
  ASSUME NEW p \in Plat, NEW b \in BOOLEAN
  PROVE  KeysOf(p, b) \in Map!KeySets(p)
  BY DEF KeysOf, Map!KeySets

LEMMA MapCalls ==
  ASSUME TypeInv, MapInv, Create \/ Delete
  PROVE  Map!Next
<1>1. pass \in Pass /\ pass.plat \in Plat /\ pass.snap.spec.isDefault \in BOOLEAN
  BY DEF Create, Delete, Work, TypeInv, TypeOK, Pass, Obj, PlatformSpec
<1> DEFINE keys == KeysOf(pass.plat, pass.snap.spec.isDefault)
<1>2. keys \in Map!KeySets(pass.plat)
  BY <1>1, MapKeys
<1> HIDE DEF keys
<1>3. CASE Create
  <2>1. pass.computed \in ComputedPlatform /\ pass.computed.name = pass.plat
    BY <1>3 DEF Create, Work, TypeInv, PutHasEntry, MapInv, PassFollows
  <2>2. platforms' = [k \in Map!Key |-> IF k \in keys THEN pass.computed
                                                     ELSE platforms[k]]
    BY <1>3 DEF Create, Map!Key, Key, keys
  <2>3. Map!Put(pass.plat, pass.computed)
    BY <1>2, <2>1, <2>2 DEF Map!Put
  <2> QED BY <1>1, <2>1, <2>3 DEF Map!Next
<1>4. CASE Delete
  <2>1. platforms' = [k \in Map!Key |-> IF k \in keys THEN NoEntry ELSE platforms[k]]
    BY <1>4 DEF Delete, Map!Key, Key, keys
  <2>2. Map!Remove(pass.plat)
    BY <1>2, <2>1 DEF Map!Remove
  <2> QED BY <1>1, <2>2 DEF Map!Next
<1> QED BY <1>3, <1>4

(***************************************************************************)
(* The map is what PlatformMap says of it, for every set of platforms: the *)
(* start fills an empty one, and a pass puts or removes the entry of its   *)
(* platform under its name, with or without the default key.               *)
(***************************************************************************)
THEOREM MapTheorem == Spec => ImplementsMap
<1>1. Init => Map!Init /\ DownEmpty
  BY DEF Init, Map!Init, Map!Cleared, Map!Key, Key, DownEmpty
<1>2. ASSUME TypeInv, MapInv, DownEmpty, [Next]_vars
      PROVE  [Map!Next]_platforms
  <2>1. CASE ComputedPlatformList
    BY <1>2, <2>1, MapFill DEF Map!Next
  <2>2. CASE Stop
    BY <2>2 DEF Stop, Map!Next, Map!Clear, Map!Cleared, Map!Key, Key
  <2>3. CASE Create \/ Delete
    BY <1>2, <2>3, MapCalls
  <2>4. CASE UNCHANGED platforms
    BY <2>4
  <2>5. ASSUME ~ComputedPlatformList, ~Stop, ~(Create \/ Delete), Next
        PROVE  UNCHANGED platforms
    <3>1. ASSUME NEW p \in Plat, User(p) \/ CacheSync(p) \/ Reconcile(p)
          PROVE  UNCHANGED platforms
      BY <3>1 DEF User, ValidateCreate, ValidateUpdate, UserDelete, UserWrite,
         CacheSync, Reconcile, ReconcileAbsent, AddFinalizer, ReconcileDelete,
         ReconcilePut, ReconcileNoDiff, Begin
    <3>2. ASSUME NEW s \in Secret, WriteSecret(s) \/ watchCentreonPlatformSecret(s)
          PROVE  UNCHANGED platforms
      BY <3>2 DEF WriteSecret, watchCentreonPlatformSecret
    <3>3. CASE StartInformers \/ RemoveFinalizer \/ AuthFails
      BY <3>3 DEF StartInformers, RemoveFinalizer, AuthFails
    <3> QED BY <2>5, <3>1, <3>2, <3>3 DEF Next, Calls
  <2> QED BY <1>2, <2>1, <2>2, <2>3, <2>4, <2>5 DEF vars
<1> QED BY <1>1, <1>2, Invariants, DownNext, PTL DEF Spec, ImplementsMap, Map!Spec

(***************************************************************************)
(* The webhook, at work.  Where isDefault is not edited, at most one       *)
(* platform per value of it ever has the finalizer, however late the       *)
(* caches are: the finalizer itself is added by a validated update, and    *)
(* the one that has it is in the cache the webhook looks at.               *)
(***************************************************************************)
Alike(o, v) == o.uid = v.uid /\ o.spec.isDefault = v.spec.isDefault

SameDefault(o, v) == o.spec.isDefault = v.spec.isDefault

\* No uid is used again, and the cache shows no other platform's.
UidInv ==
  /\ \A p \in Plat : obj[p] # NoObj => obj[p].uid <= born
  /\ \A p \in Plat : cache[p] # NoObj => cache[p].uid <= born
  /\ \A p, q \in Plat : (obj[p] # NoObj /\ obj[q] # NoObj /\ obj[p].uid = obj[q].uid)
                          => p = q
  /\ \A p, q \in Plat : (obj[p] # NoObj /\ cache[q] # NoObj /\ obj[p].uid = cache[q].uid)
                          => p = q

FinCached ==
  phase = "up" =>
    \A p \in Plat : HasFin(obj[p]) => cache[p] # NoObj /\ Alike(obj[p], cache[p])

OneFinal ==
  \A p, q \in Plat :
    (HasFin(obj[p]) /\ HasFin(obj[q]) /\ SameDefault(obj[p], obj[q])) => p = q

\* Nor does the cache show another one with the finalizer.
OneCached ==
  \A p, q \in Plat :
    (HasFin(obj[p]) /\ HasFin(cache[q]) /\ SameDefault(obj[p], cache[q])) => p = q

PassAlone ==
  pass # NoPass =>
    /\ \A p \in Plat : (HasFin(obj[p]) /\ SameDefault(obj[p], pass.snap)) => p = pass.plat
    /\ HasFin(obj[pass.plat]) => Alike(obj[pass.plat], pass.snap)

OneInv == UidInv /\ FinCached /\ OneFinal /\ OneCached /\ PassAlone

LEMMA OneInit == Init => OneInv
  BY DEF Init, Empty, OneInv, UidInv, FinCached, OneFinal, OneCached, PassAlone, HasFin

LEMMA OneStart ==
  ASSUME TypeInv, MapInv, OneInv, ComputedPlatformList \/ StartInformers \/ Stop
  PROVE  OneInv'
<1> USE DEF OneInv, UidInv, FinCached, OneFinal, OneCached, PassAlone, HasFin
<1>1. CASE ComputedPlatformList
  BY <1>1 DEF ComputedPlatformList
<1>2. CASE StartInformers
  <2>1. pass = NoPass
    BY <1>2 DEF StartInformers, MapInv, PassFollows
  <2> QED BY <1>2, <2>1 DEF StartInformers, Alike, SameDefault
<1>3. CASE Stop
  BY <1>3 DEF Stop, Empty
<1> QED BY <1>1, <1>2, <1>3

\* What a user may write: a new platform, or another version of the same one.
Revises(p, o) ==
  \/ obj[p] = NoObj /\ o.uid = born + 1 /\ born' = born + 1 /\ ~o.fin
  \/ obj[p] # NoObj /\ Alike(o, obj[p]) /\ o.fin = obj[p].fin /\ born' = born

LEMMA OneUserWrite ==
  ASSUME TypeInv, OneInv, NEW p \in Plat, NEW o \in Obj \union {NoObj}, UserWrite(p, o),
         o # NoObj => Revises(p, o),
         o = NoObj => ~HasFin(obj[p]) /\ born' = born
  PROVE  OneInv'
<1>1. /\ obj'[p] = o /\ (\A q \in Plat : q # p => obj'[q] = obj[q])
      /\ UNCHANGED <<cache, phase>> /\ born \in Nat /\ born' \in Nat /\ born <= born'
  BY DEF UserWrite, Store, TypeInv, TypeOK, Revises
<1>2. ASSUME NEW q \in Plat, HasFin(obj'[q])
      PROVE  HasFin(obj[q]) /\ Alike(obj'[q], obj[q])
  BY <1>1, <1>2 DEF HasFin, Revises, Alike
<1>3. UidInv'
  <2>1. \A q \in Plat : /\ obj[q] # NoObj => obj[q].uid \in Nat
                        /\ cache[q] # NoObj => cache[q].uid \in Nat
    BY DEF TypeInv, TypeOK, Obj
  <2>2. CASE o # NoObj /\ obj[p] # NoObj
    BY <1>1, <2>2 DEF Revises, Alike, OneInv, UidInv
  <2>3. CASE o # NoObj /\ obj[p] = NoObj
    BY <1>1, <2>1, <2>3 DEF Revises, OneInv, UidInv
  <2>4. CASE o = NoObj
    BY <1>1, <2>4 DEF OneInv, UidInv
  <2> QED BY <2>2, <2>3, <2>4
<1>4. FinCached' /\ OneFinal' /\ OneCached'
  BY <1>1, <1>2 DEF OneInv, FinCached, OneFinal, OneCached, Alike, SameDefault
<1>5. PassAlone'
  <2>1. pass' # NoPass => pass # NoPass /\ pass'.plat = pass.plat /\ pass'.snap = pass.snap
    BY DEF UserWrite, TypeInv, TypeOK, Pass
  <2>2. pass # NoPass => pass.plat \in Plat
    BY DEF TypeInv, TypeOK, Pass
  <2> QED BY <1>2, <2>1, <2>2 DEF OneInv, PassAlone, Alike, SameDefault
<1> QED BY <1>3, <1>4, <1>5 DEF OneInv

LEMMA OneUser ==
  ASSUME ~MayDemote, TypeInv, OneInv, NEW p \in Plat, User(p)
  PROVE  OneInv'
<1>1. CASE ValidateCreate(p)
  <2>1. PICK spec \in PlatformSpec :
          UserWrite(p, [spec |-> spec, uid |-> born + 1, fin |-> FALSE,
                        deleting |-> FALSE])
    BY <1>1 DEF ValidateCreate
  <2> DEFINE o == [spec |-> spec, uid |-> born + 1, fin |-> FALSE, deleting |-> FALSE]
  <2>2. born' = born + 1 /\ born < MaxUid /\ obj[p] = NoObj
    BY <1>1 DEF ValidateCreate
  <2>3. o \in Obj
    BY <2>2 DEF Obj, TypeInv, TypeOK
  <2>4. o # NoObj /\ Revises(p, o)
    BY <2>2, <2>3 DEF Revises
  <2> HIDE DEF o
  <2>5. UserWrite(p, o)
    BY <2>1 DEF o
  <2> QED BY <2>3, <2>4, <2>5, OneUserWrite
<1>2. CASE ValidateUpdate(p)
  <2>1. PICK spec \in PlatformSpec :
          spec.isDefault = obj[p].spec.isDefault /\ UserWrite(p, [obj[p] EXCEPT !.spec = spec])
    BY <1>2 DEF ValidateUpdate
  <2> DEFINE o == [obj[p] EXCEPT !.spec = spec]
  <2>2. obj[p] \in Obj /\ obj[p] # NoObj /\ born' = born
    BY <1>2 DEF ValidateUpdate, TypeInv, TypeOK
  <2>3. o \in Obj /\ o.fin = obj[p].fin /\ o.uid = obj[p].uid /\ o.spec = spec
    BY <2>2 DEF Obj
  <2> HIDE DEF o
  <2>4. o # NoObj /\ Revises(p, o)
    BY <2>1, <2>2, <2>3 DEF Revises, Alike
  <2>5. UserWrite(p, o)
    BY <2>1 DEF o
  <2> QED BY <2>3, <2>4, <2>5, OneUserWrite
<1>3. CASE UserDelete(p)
  <2> DEFINE o == [obj[p] EXCEPT !.deleting = TRUE]
  <2>1. obj[p] \in Obj /\ obj[p] # NoObj /\ born' = born
    BY <1>3 DEF UserDelete, TypeInv, TypeOK
  <2>2. o \in Obj /\ o.fin = obj[p].fin /\ o.uid = obj[p].uid /\ o.spec = obj[p].spec
    BY <2>1 DEF Obj
  <2>3. UserWrite(p, IF obj[p].fin THEN o ELSE NoObj)
    BY <1>3 DEF UserDelete
  <2> HIDE DEF o
  <2>4. o # NoObj /\ Revises(p, o)
    BY <2>1, <2>2 DEF Revises, Alike
  <2>5. CASE obj[p].fin
    BY <2>2, <2>3, <2>4, <2>5, OneUserWrite
  <2>6. CASE ~obj[p].fin
    BY <2>1, <2>3, <2>6, OneUserWrite DEF HasFin
  <2> QED BY <2>5, <2>6
<1> QED BY <1>1, <1>2, <1>3 DEF User

LEMMA OneEvents ==
  ASSUME TypeInv, OneInv,
         \/ \E p \in Plat : CacheSync(p)
         \/ \E s \in Secret : WriteSecret(s) \/ watchCentreonPlatformSecret(s)
  PROVE  OneInv'
<1> USE DEF OneInv, UidInv, FinCached, OneFinal, OneCached, PassAlone
<1>1. ASSUME NEW p \in Plat, CacheSync(p)
      PROVE  OneInv'
  BY <1>1 DEF CacheSync, TypeInv, TypeOK, HasFin, Alike, SameDefault
<1>2. ASSUME NEW s \in Secret, WriteSecret(s) \/ watchCentreonPlatformSecret(s)
      PROVE  OneInv'
  BY <1>2 DEF WriteSecret, watchCentreonPlatformSecret
<1> QED BY <1>1, <1>2

\* The finalizer is added: the webhook saw every platform that has one.
LEMMA OneFinalizer ==
  ASSUME TypeInv, MapInv, OneInv, NEW p \in Plat, AddFinalizer(p)
  PROVE  /\ OneInv' /\ pass' = NoPass
         /\ HasFin(obj'[p]) /\ Alike(obj'[p], obj[p]) /\ ~HasFin(obj[p])
         /\ \A q \in Plat : q # p => obj'[q] = obj[q]
<1> DEFINE o == [cache[p] EXCEPT !.fin = TRUE]
<1>1. cache[p] \in Obj /\ o \in Obj /\ o.fin /\ o.uid = cache[p].uid /\ o.spec = cache[p].spec
  BY DEF AddFinalizer, TypeInv, TypeOK, Obj
<1>2. obj' = [obj EXCEPT ![p] = o]
  BY DEF AddFinalizer, Store
<1> HIDE DEF o
<1>3. /\ obj'[p] = o /\ (\A q \in Plat : q # p => obj'[q] = obj[q])
      /\ HasFin(o) /\ Alike(o, cache[p])
  BY <1>1, <1>2 DEF TypeInv, TypeOK, HasFin, Alike
<1>4. /\ cache[p] = obj[p] /\ cache[p] # NoObj /\ ~cache[p].fin /\ phase = "up"
      /\ pass = NoPass /\ UNCHANGED <<cache, phase, pass, born>>
  BY DEF AddFinalizer, Take, MapInv, CacheFollows
<1>5. ASSUME NEW q \in Plat, cache[q] # NoObj, SameDefault(cache[q], cache[p])
      PROVE  p = q
  <2>1. cache[q].uid = cache[p].uid
    BY <1>5 DEF AddFinalizer, validateUnicityOfDefaultPlatform, SameDefault
  <2> QED BY <1>4, <1>5, <2>1 DEF OneInv, UidInv
<1>6. UidInv' /\ FinCached'
  BY <1>3, <1>4 DEF OneInv, UidInv, FinCached, Alike, HasFin
<1>7. OneFinal'
  <2>1. \A q \in Plat : HasFin(obj[q]) /\ SameDefault(obj[q], o) => q = p
    BY <1>3, <1>4, <1>5 DEF OneInv, FinCached, Alike, SameDefault
  <2> QED BY <1>3, <2>1 DEF OneInv, OneFinal, SameDefault
<1>8. OneCached'
  BY <1>3, <1>4, <1>5 DEF OneInv, OneCached, Alike, SameDefault, HasFin
<1> QED BY <1>3, <1>4, <1>6, <1>7, <1>8 DEF OneInv, PassAlone, HasFin, Alike

LEMMA OneReconcile ==
  ASSUME TypeInv, MapInv, OneInv, NEW p \in Plat, Reconcile(p)
  PROVE  OneInv'
<1>1. CASE AddFinalizer(p)
  BY <1>1, OneFinalizer
<1>2. CASE ReconcileDelete(p) \/ ReconcilePut(p)
  <2>1. /\ pass'.plat = p /\ pass'.snap = cache[p] /\ HasFin(cache[p]) /\ phase = "up"
        /\ UNCHANGED <<obj, cache, phase, born>>
    BY <1>2 DEF ReconcileDelete, ReconcilePut, Begin, Take, Readable, HasFin
  <2>2. PassAlone'
    BY <2>1 DEF OneInv, PassAlone, OneCached, FinCached, SameDefault, Alike
  <2> QED BY <2>1, <2>2 DEF OneInv, UidInv, FinCached, OneFinal, OneCached
<1>3. CASE ReconcileAbsent(p) \/ ReconcileNoDiff(p)
  BY <1>3 DEF ReconcileAbsent, ReconcileNoDiff, OneInv, UidInv, FinCached, OneFinal,
     OneCached, PassAlone
<1> QED BY <1>1, <1>2, <1>3 DEF Reconcile

LEMMA OneWork ==
  ASSUME TypeInv, MapInv, OneInv, Calls \/ AuthFails
  PROVE  OneInv'
<1> USE DEF OneInv
<1>1. pass # NoPass /\ pass.plat \in Plat /\ pass \in Pass
  BY DEF Calls, AuthFails, Create, Delete, RemoveFinalizer, Work, TypeInv, TypeOK, Pass
<1>2. /\ UNCHANGED <<cache, phase, born>>
      /\ pass' # NoPass => pass'.plat = pass.plat /\ pass'.snap = pass.snap
  BY <1>1 DEF Calls, AuthFails, Create, Delete, RemoveFinalizer, Retry, Pass
<1>3. \/ UNCHANGED obj
      \/ obj' = [obj EXCEPT ![pass.plat] = NoObj]
  BY DEF Calls, AuthFails, Create, Delete, RemoveFinalizer, Store
<1>4. /\ \A q \in Plat : obj'[q] = obj[q] \/ obj'[q] = NoObj
  BY <1>1, <1>3 DEF TypeInv, TypeOK
<1>5. UidInv'
  BY <1>2, <1>4 DEF UidInv
<1> QED BY <1>1, <1>2, <1>4, <1>5 DEF FinCached, OneFinal, OneCached, PassAlone, HasFin

LEMMA OneNext == ~MayDemote /\ TypeInv /\ MapInv /\ OneInv /\ [Next]_vars => OneInv'
<1> SUFFICES ASSUME ~MayDemote, TypeInv, MapInv, OneInv, [Next]_vars
             PROVE  OneInv'
  OBVIOUS
<1>1. CASE UNCHANGED vars
  BY <1>1 DEF vars, OneInv, UidInv, FinCached, OneFinal, OneCached, PassAlone
<1> QED BY <1>1, OneStart, OneUser, OneEvents, OneReconcile, OneWork DEF Next


(***************************************************************************)
(* The entry of the key "default".  Where isDefault is not edited and no   *)
(* platform has that name, it is the entry of the default platform that    *)
(* has the finalizer, and there is none when that one has none.            *)
(***************************************************************************)
DefaultNamed ==
  platforms[DefaultKey] # NoEntry =>
    LET d == platforms[DefaultKey].name
    IN HasFin(obj[d]) /\ obj[d].spec.isDefault /\ platforms[d] = platforms[DefaultKey]

DefaultShared ==
  \A p \in Plat :
    HasFin(obj[p]) /\ obj[p].spec.isDefault => platforms[p] = platforms[DefaultKey]

DefaultInv == missed = {} => DefaultNamed /\ DefaultShared

LEMMA EntryName ==
  ASSUME TypeInv, platforms[DefaultKey] # NoEntry
  PROVE  platforms[DefaultKey] \in ComputedPlatform /\ platforms[DefaultKey].name \in Plat
<1>1. platforms[DefaultKey] \in ComputedPlatform
  BY DEF TypeInv, TypeOK, Key
<1> QED BY <1>1 DEF ComputedPlatform

LEMMA DefaultInit == Init => DefaultInv
  BY DEF Init, Empty, DefaultInv, DefaultNamed, DefaultShared, HasFin, Key

\* A step that changes no entry and no platform's finalizer.
LEMMA DefaultStutter ==
  ASSUME TypeInv, DefaultInv, UNCHANGED <<platforms, missed>>,
         \A p \in Plat : HasFin(obj[p]) => HasFin(obj'[p]),
         \A p \in Plat : HasFin(obj'[p]) => HasFin(obj[p]) /\ SameDefault(obj'[p], obj[p])
  PROVE  DefaultInv'
<1> SUFFICES ASSUME missed = {}
             PROVE  DefaultNamed' /\ DefaultShared'
  BY DEF DefaultInv
<1>1. DefaultNamed'
  BY EntryName DEF DefaultInv, DefaultNamed, SameDefault
<1>2. DefaultShared'
  BY DEF DefaultInv, DefaultShared, SameDefault
<1> QED BY <1>1, <1>2

LEMMA DefaultList ==
  ASSUME DefaultKey \notin Plat, TypeInv, OneInv, ComputedPlatformList
  PROVE  DefaultInv'
<1> DEFINE entry(p) == getComputedCentreonPlatform(p, obj[p].spec,
                                                   secret[obj[p].spec.secret])
<1>1. \A p \in Plat : entry(p).name = p
  BY DEF getComputedCentreonPlatform
<1> HIDE DEF entry
<1>2. PICK skipped \in SUBSET Plat :
        LET listed == { p \in Plat \ skipped :
                          obj[p] # NoObj /\ secret[obj[p].spec.secret] # NoCred }
            claims == { p \in listed : obj[p].spec.isDefault \/ p = DefaultKey }
        IN /\ \E d \in claims \union {NoEntry} :
                /\ d = NoEntry <=> claims = {}
                /\ platforms' = [k \in Key |->
                     IF k = DefaultKey
                     THEN IF claims = {} THEN NoEntry ELSE entry(d)
                     ELSE IF k \in listed THEN entry(k) ELSE NoEntry]
           /\ missed' = { p \in listed : ~obj[p].fin }
  BY DEF ComputedPlatformList, entry
<1> DEFINE listed == { p \in Plat \ skipped :
                         obj[p] # NoObj /\ secret[obj[p].spec.secret] # NoCred }
           claims == { p \in listed : obj[p].spec.isDefault }
<1>3. PICK d \in claims \union {NoEntry} :
        /\ d = NoEntry <=> claims = {}
        /\ platforms' = [k \in Key |->
             IF k = DefaultKey
             THEN IF claims = {} THEN NoEntry ELSE entry(d)
             ELSE IF k \in listed THEN entry(k) ELSE NoEntry]
        /\ missed' = { p \in listed : ~obj[p].fin }
  BY <1>2
<1>4. UNCHANGED obj
  BY DEF ComputedPlatformList
<1> SUFFICES ASSUME missed' = {}
             PROVE  DefaultNamed' /\ DefaultShared'
  BY DEF DefaultInv
<1>5. \A p \in claims : p \in listed /\ HasFin(obj[p]) /\ obj[p].spec.isDefault
  BY <1>3 DEF HasFin
<1>6. \A p, q \in claims : p = q
  BY <1>5 DEF OneInv, OneFinal, SameDefault
<1>7. /\ \A p \in Plat : platforms'[p] = IF p \in listed THEN entry(p) ELSE NoEntry
      /\ platforms'[DefaultKey] = IF claims = {} THEN NoEntry ELSE entry(d)
  BY <1>3 DEF Key
<1>8. CASE claims = {}
  BY <1>4, <1>7, <1>8 DEF DefaultNamed, DefaultShared, HasFin
<1>9. CASE claims # {}
  <2>1. d \in claims /\ platforms'[DefaultKey] = entry(d) /\ platforms'[d] = entry(d)
        /\ entry(d).name = d
    BY <1>1, <1>3, <1>5, <1>7, <1>9
  <2>2. ASSUME NEW p \in Plat, HasFin(obj[p]), obj[p].spec.isDefault
        PROVE  p = d
    BY <1>5, <2>1, <2>2 DEF OneInv, OneFinal, SameDefault
  <2> QED BY <1>4, <1>5, <2>1, <2>2 DEF DefaultNamed, DefaultShared
<1> QED BY <1>8, <1>9

\* A platform that gets its finalizer had no entry, and no other one is default.
LEMMA DefaultFinalizer ==
  ASSUME DefaultKey \notin Plat, TypeInv, MapInv, OneInv, DefaultInv,
         NEW p \in Plat, AddFinalizer(p)
  PROVE  DefaultInv'
<1>1. /\ OneInv' /\ HasFin(obj'[p]) /\ Alike(obj'[p], obj[p]) /\ ~HasFin(obj[p])
      /\ \A q \in Plat : q # p => obj'[q] = obj[q]
  BY OneFinalizer
<1>2. UNCHANGED <<platforms, missed>>
  BY DEF AddFinalizer
<1> SUFFICES ASSUME missed = {}
             PROVE  DefaultNamed' /\ DefaultShared'
  BY <1>2 DEF DefaultInv
<1>3. platforms[p] = NoEntry
  BY <1>1 DEF MapInv, EntryFinalized
<1>4. ASSUME platforms[DefaultKey] # NoEntry
      PROVE  platforms[DefaultKey].name \in Plat \ {p}
  BY <1>1, <1>4, EntryName DEF DefaultInv, DefaultNamed
<1>5. DefaultNamed'
  BY <1>1, <1>2, <1>4 DEF DefaultInv, DefaultNamed
<1>6. ASSUME obj'[p].spec.isDefault
      PROVE  platforms[DefaultKey] = NoEntry
  <2> SUFFICES ASSUME platforms[DefaultKey] # NoEntry
               PROVE  FALSE
    OBVIOUS
  <2> DEFINE d == platforms[DefaultKey].name
  <2>1. d \in Plat /\ d # p /\ HasFin(obj[d]) /\ obj[d].spec.isDefault
    BY <1>4 DEF DefaultInv, DefaultNamed
  <2> HIDE DEF d
  <2>2. HasFin(obj'[d]) /\ obj'[d].spec.isDefault
    BY <1>1, <2>1
  <2>3. SameDefault(obj'[d], obj'[p])
    <3>1. obj'[d].spec.isDefault = TRUE /\ obj'[p].spec.isDefault = TRUE
      <4>1. TypeInv'
        BY TypeReconcile DEF Reconcile
      <4>2. obj'[d].spec.isDefault \in BOOLEAN /\ obj'[p].spec.isDefault \in BOOLEAN
        BY <4>1, <1>1, <2>1, <2>2 DEF TypeInv, TypeOK, HasFin, Obj, PlatformSpec
      <4> QED BY <4>2, <2>2, <1>6
    <3> QED BY <3>1 DEF SameDefault
  <2> QED BY <1>1, <2>1, <2>2, <2>3 DEF OneInv, OneFinal
<1>7. DefaultShared'
  BY <1>1, <1>2, <1>3, <1>6 DEF DefaultInv, DefaultShared
<1> QED BY <1>5, <1>7

LEMMA DefaultReconcile ==
  ASSUME DefaultKey \notin Plat, TypeInv, MapInv, OneInv, DefaultInv,
         NEW p \in Plat, Reconcile(p)
  PROVE  DefaultInv'
<1>1. CASE AddFinalizer(p)
  BY <1>1, DefaultFinalizer
<1>2. CASE ~AddFinalizer(p)
  <2>1. UNCHANGED <<obj, platforms, missed>>
    BY <1>2 DEF Reconcile, ReconcileAbsent, ReconcileDelete, ReconcilePut,
       ReconcileNoDiff, Begin
  <2> QED BY <2>1, DefaultStutter DEF SameDefault
<1> QED BY <1>1, <1>2

LEMMA DefaultUserWrite ==
  ASSUME TypeInv, DefaultInv, NEW p \in Plat, NEW o, UserWrite(p, o),
         HasFin(obj[p]) => HasFin(o),
         HasFin(o) => HasFin(obj[p]) /\ SameDefault(o, obj[p])
  PROVE  DefaultInv'
<1>1. obj'[p] = o /\ (\A q \in Plat : q # p => obj'[q] = obj[q])
  BY DEF UserWrite, Store, TypeInv, TypeOK
<1> QED BY <1>1, DefaultStutter DEF UserWrite, SameDefault

LEMMA DefaultUser ==
  ASSUME ~MayDemote, TypeInv, DefaultInv, NEW p \in Plat, User(p)
  PROVE  DefaultInv'
<1>1. CASE ValidateCreate(p)
  BY <1>1, DefaultUserWrite DEF ValidateCreate, HasFin
<1>2. CASE ValidateUpdate(p)
  <2>1. PICK spec \in PlatformSpec :
          spec.isDefault = obj[p].spec.isDefault /\ UserWrite(p, [obj[p] EXCEPT !.spec = spec])
    BY <1>2 DEF ValidateUpdate
  <2> DEFINE o == [obj[p] EXCEPT !.spec = spec]
  <2>2. obj[p] \in Obj /\ o \in Obj /\ o.fin = obj[p].fin /\ o.spec = spec
    BY <1>2 DEF ValidateUpdate, TypeInv, TypeOK, Obj
  <2> HIDE DEF o
  <2>3. UserWrite(p, o)
    BY <2>1 DEF o
  <2> QED BY <2>1, <2>2, <2>3, DefaultUserWrite DEF HasFin, SameDefault
<1>3. CASE UserDelete(p)
  <2> DEFINE o == [obj[p] EXCEPT !.deleting = TRUE]
  <2>1. obj[p] \in Obj /\ o \in Obj /\ o.fin = obj[p].fin /\ o.spec = obj[p].spec
    BY <1>3 DEF UserDelete, TypeInv, TypeOK, Obj
  <2>2. UserWrite(p, IF obj[p].fin THEN o ELSE NoObj)
    BY <1>3 DEF UserDelete
  <2> HIDE DEF o
  <2>3. CASE obj[p].fin
    BY <2>1, <2>2, <2>3, DefaultUserWrite DEF HasFin, SameDefault
  <2>4. CASE ~obj[p].fin
    BY <2>2, <2>4, DefaultUserWrite DEF HasFin
  <2> QED BY <2>3, <2>4
<1> QED BY <1>1, <1>2, <1>3 DEF User

\* A pass that writes entries is of the default platform, or of another key.
LEMMA DefaultWork ==
  ASSUME DefaultKey \notin Plat, TypeInv, MapInv, OneInv, DefaultInv, Calls \/ AuthFails
  PROVE  DefaultInv'
<1>1. pass # NoPass /\ pass.plat \in Plat /\ pass \in Pass /\ PassFollows /\ UNCHANGED missed
  BY DEF Calls, AuthFails, Create, Delete, RemoveFinalizer, Work, TypeInv, TypeOK, Pass,
         MapInv
<1> DEFINE w == pass.plat
           b == pass.snap.spec.isDefault
<1>2. /\ b \in BOOLEAN
      /\ \A p \in Plat : HasFin(obj[p]) => obj[p].spec.isDefault \in BOOLEAN
  BY <1>1 DEF TypeInv, TypeOK, Pass, Obj, PlatformSpec, HasFin
<1>3. /\ HasFin(obj[w]) => obj[w].spec.isDefault = b
      /\ \A p \in Plat : HasFin(obj[p]) /\ obj[p].spec.isDefault = b => p = w
  BY <1>1 DEF OneInv, PassAlone, Alike, SameDefault
<1> SUFFICES ASSUME missed = {}
             PROVE  DefaultNamed' /\ DefaultShared'
  BY <1>1 DEF DefaultInv
<1>4. DefaultNamed /\ DefaultShared
  BY DEF DefaultInv
<1>5. CASE Create \/ Delete
  <2>1. PICK e \in ComputedPlatform \union {NoEntry} :
          /\ platforms' = [k \in Key |-> IF k \in KeysOf(w, b) THEN e ELSE platforms[k]]
          /\ e # NoEntry => e.name = w /\ HasFin(obj[w])
    <3>1. CASE Create
      BY <1>1, <3>1 DEF Create, TypeInv, PutHasEntry, PassFollows
    <3>2. CASE Delete
      BY <3>2 DEF Delete
    <3> QED BY <1>5, <3>1, <3>2
  <2>2. UNCHANGED obj
    BY <1>5 DEF Create, Delete
  <2>3. CASE b
    <3>1. platforms'[w] = e /\ platforms'[DefaultKey] = e
      BY <1>1, <2>1, <2>3 DEF KeysOf, Key
    <3>2. \A p \in Plat : HasFin(obj[p]) /\ obj[p].spec.isDefault => p = w
      BY <1>2, <1>3, <2>3
    <3>3. HasFin(obj[w]) => obj[w].spec.isDefault
      BY <1>3, <2>3
    <3> QED BY <2>1, <2>2, <3>1, <3>2, <3>3 DEF DefaultNamed, DefaultShared
  <2>4. CASE ~b
    <3>1. /\ platforms'[DefaultKey] = platforms[DefaultKey]
          /\ \A p \in Plat : p # w => platforms'[p] = platforms[p]
      BY <1>1, <2>1, <2>4 DEF KeysOf, Key
    <3>2. \A p \in Plat : HasFin(obj[p]) /\ obj[p].spec.isDefault => p # w
      BY <1>3, <2>4
    <3>3. DefaultShared'
      BY <1>4, <2>2, <3>1, <3>2 DEF DefaultShared
    <3>4. DefaultNamed'
      BY <1>4, <2>2, <3>1, <3>2, EntryName DEF DefaultNamed
    <3> QED BY <3>3, <3>4
  <2> QED BY <1>2, <2>3, <2>4
<1>6. CASE RemoveFinalizer
  <2>1. CASE Store(w, NoObj)
    <3>1. /\ obj'[w] = NoObj /\ \A p \in Plat : p # w => obj'[p] = obj[p]
      BY <1>1, <2>1 DEF Store, TypeInv, TypeOK
    <3>2. UNCHANGED platforms /\ platforms[w] = NoEntry
      BY <1>1, <1>6 DEF RemoveFinalizer, PassFollows
    <3>3. DefaultShared'
      BY <1>4, <3>1, <3>2 DEF DefaultShared, HasFin
    <3>4. DefaultNamed'
      BY <1>4, <3>1, <3>2, EntryName DEF DefaultNamed
    <3> QED BY <3>3, <3>4
  <2>2. CASE UNCHANGED obj
    <3>1. UNCHANGED <<platforms, missed>>
      BY <1>6 DEF RemoveFinalizer
    <3>2. DefaultInv'
      BY <2>2, <3>1, DefaultStutter DEF SameDefault
    <3> QED BY <3>1, <3>2 DEF DefaultInv
  <2> QED BY <1>6, <2>1, <2>2 DEF RemoveFinalizer
<1>7. CASE AuthFails
  <2>1. UNCHANGED <<obj, platforms, missed>>
    BY <1>7 DEF AuthFails
  <2>2. DefaultInv'
    BY <2>1, DefaultStutter DEF SameDefault
  <2> QED BY <2>1, <2>2 DEF DefaultInv
<1> QED BY <1>5, <1>6, <1>7 DEF Calls

LEMMA DefaultNext ==
  ASSUME ~MayDemote, DefaultKey \notin Plat
  PROVE  TypeInv /\ MapInv /\ OneInv /\ DefaultInv /\ [Next]_vars => DefaultInv'
<1> SUFFICES ASSUME TypeInv, MapInv, OneInv, DefaultInv, [Next]_vars
             PROVE  DefaultInv'
  OBVIOUS
<1>1. CASE ComputedPlatformList
  BY <1>1, DefaultList
<1>2. CASE Stop
  BY <1>2, EntryName DEF Stop, DefaultInv, DefaultNamed, DefaultShared, Key
<1>3. CASE \/ StartInformers
           \/ \E p \in Plat : CacheSync(p)
           \/ \E s \in Secret : WriteSecret(s) \/ watchCentreonPlatformSecret(s)
           \/ UNCHANGED vars
  <2>1. UNCHANGED <<obj, platforms, missed>>
    BY <1>3 DEF StartInformers, CacheSync, WriteSecret, watchCentreonPlatformSecret, vars
  <2> QED BY <2>1, DefaultStutter DEF SameDefault
<1> QED BY <1>1, <1>2, <1>3, DefaultUser, DefaultReconcile, DefaultWork DEF Next

LEMMA DefaultInvariants ==
  ASSUME ~MayDemote, DefaultKey \notin Plat
  PROVE  Spec => [](TypeInv /\ MapInv /\ OneInv /\ DefaultInv)
  BY TypeInit, TypeNext, MapInit, MapNext, OneInit, OneNext, DefaultInit, DefaultNext, PTL
     DEF Spec

(***************************************************************************)
(* At most one platform per value of isDefault ever has the finalizer,     *)
(* hence is served, however late the cache is that the webhook looks at,   *)
(* when users do not edit isDefault.                                       *)
(***************************************************************************)
THEOREM OneTheorem ==
  ASSUME ~MayDemote
  PROVE  Spec => []OneFinalized
<1>1. OneInv => OneFinalized
  BY DEF OneInv, OneFinal, OneFinalized, HasFin, SameDefault
<1> QED BY <1>1, TypeInit, TypeNext, MapInit, MapNext, OneInit, OneNext, PTL DEF Spec

(***************************************************************************)
(* Once settled, the default entry is that of a default platform that      *)
(* exists (isDefault is not edited, no platform is named "default").       *)
(***************************************************************************)
THEOREM DefaultEntryTheorem ==
  ASSUME ~MayDemote, DefaultKey \notin Plat
  PROVE  Spec => []DefaultIsAnEntry
<1>1. DefaultInv => DefaultIsAnEntry
  BY DEF DefaultInv, DefaultNamed, DefaultIsAnEntry, GetClient, HasFin
<1> QED BY <1>1, DefaultInvariants, PTL

(***************************************************************************)
(* Once settled, a resource without a platformRef gets the current client  *)
(* of the only default platform (isDefault is not edited, no platform is   *)
(* named "default").                                                       *)
(***************************************************************************)
THEOREM DefaultServedTheorem ==
  ASSUME ~MayDemote, DefaultKey \notin Plat
  PROVE  Spec => []DefaultIsServed
<1>1. TypeInv /\ MapInv => EntryIsCurrent
  BY CurrentStep
<1>2. DefaultInv /\ EntryIsCurrent => DefaultIsServed
  BY DEF DefaultInv, DefaultShared, EntryIsCurrent, DefaultIsServed, GetClient, Live, HasFin
<1> QED BY <1>1, <1>2, DefaultInvariants, PTL

=============================================================================
