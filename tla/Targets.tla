------------------------------ MODULE Targets ------------------------------
(***************************************************************************)
(* The platforms map and the passes over resources together: which Centreon*)
(* server each pass of a resource writes to.                               *)
(*                                                                         *)
(* A pass asks the map for the client of its resource's platformRef once   *)
(* and keeps it to its end (GetRemoteHandler); the Platform controller     *)
(* changes the map at any time and wakes no resource when it does.  Passes *)
(* and the webhook read the informer cache, which lags.  The map is the    *)
(* abstract one of PlatformMap, which Platforms implements; a pass is the  *)
(* abstract one of RemoteObject: its calls to Centreon are one write or    *)
(* one deletion, and all resources describe the same service, so that two  *)
(* of them meet on every server they share.                                *)
(***************************************************************************)
EXTENDS Naturals

CONSTANTS
  CR,          \* the custom resources (one element per UID)
  Plat,        \* names of platforms
  DefaultKey,  \* the key "default" of the map
  Server,      \* Centreon servers
  NoRef,       \* no platformRef
  Refs,        \* the platformRefs users give
  NoEntry, NoSvc, NoPass, Unborn, Gone,
  MaxChanges,  \* bound: how often a running operator changes its map
  MaxFaults    \* bound: how many calls fail and how often the operator stops

\* A client: the platform it was computed from and the server it talks to.
Entry == [name : Plat, server : Server]

Obj == [ref : Refs, fin : BOOLEAN, deleting : BOOLEAN]

Pass == [cr : CR, server : Server, pc : {"write", "delete", "release"}]

ASSUME RefsAssumption == Refs \subseteq Plat \union {NoRef}
ASSUME BoundAssumption == MaxChanges \in Nat /\ MaxFaults \in Nat
ASSUME AbsentAssumption ==
  /\ NoEntry \notin Entry /\ NoPass \notin Pass /\ NoSvc \notin CR
  /\ Unborn \notin Obj /\ Gone \notin Obj /\ Unborn # Gone

VARIABLES
  platforms,  \* the map: platforms[k] is an entry, or NoEntry
  up,         \* the operator runs
  obj,        \* obj[c]: the resource in the API server, Unborn or Gone
  cache,      \* cache[c]: the operator's copy of it
  queue,      \* the keys waiting for the worker
  pass,       \* the pass the worker runs, or NoPass
  remote,     \* remote[s]: the resource that wrote the service on s, or NoSvc
  changes, faults,
  used        \* ghost: the servers the calls of a resource's passes addressed

vars == <<platforms, up, obj, cache, queue, pass, remote, changes, faults, used>>

Map == INSTANCE PlatformMap

TypeOK ==
  /\ platforms \in [Map!Key -> Entry \union {NoEntry}]
  /\ up \in BOOLEAN
  /\ obj \in [CR -> Obj \union {Unborn, Gone}]
  /\ cache \in [CR -> Obj \union {Unborn, Gone}]
  /\ queue \subseteq CR
  /\ pass \in Pass \union {NoPass}
  /\ remote \in [Server -> CR \union {NoSvc}]
  /\ changes \in 0..MaxChanges /\ faults \in 0..MaxFaults
  /\ used \in [CR -> SUBSET Server]

Init ==
  /\ Map!Init
  /\ up = FALSE
  /\ obj = [c \in CR |-> Unborn] /\ cache = obj
  /\ queue = {} /\ pass = NoPass
  /\ remote = [s \in Server |-> NoSvc]
  /\ changes = 0 /\ faults = 0
  /\ used = [c \in CR |-> {}]

-----------------------------------------------------------------------------
(***************************************************************************)
(* The operator and its map.                                               *)
(***************************************************************************)

\* The map is filled with the platforms that could be logged in to, then the
\* informers list and enqueue every resource.
Start ==
  /\ ~up /\ up' = TRUE
  /\ Map!Fill
  /\ cache' = obj
  /\ queue' = {c \in CR : obj[c] \in Obj}
  /\ UNCHANGED <<obj, pass, remote, changes, faults, used>>

Stop ==
  /\ up /\ up' = FALSE
  /\ faults < MaxFaults /\ faults' = faults + 1
  /\ Map!Clear
  /\ queue' = {} /\ pass' = NoPass
  /\ UNCHANGED <<obj, cache, remote, changes, used>>

\* A pass of the Platform controller; no resource is enqueued.
ChangePlatform(p) ==
  /\ up /\ changes < MaxChanges /\ changes' = changes + 1
  /\ Map!Remove(p) \/ \E e \in Entry : Map!Put(p, e)
  /\ UNCHANGED <<up, obj, cache, queue, pass, remote, faults, used>>

GetPlatform(o) == IF o.ref = NoRef THEN DefaultKey ELSE o.ref

\* The entry a pass over o uses; without one the pass fails.
GetClient(o) == platforms[GetPlatform(o)]

-----------------------------------------------------------------------------
(***************************************************************************)
(* Users, the webhook and the informer.                                    *)
(***************************************************************************)

\* No other cached resource names the same platform; the alias is a name of its own.
validateResourceUnicity(c, o) ==
  \A d \in CR \ {c} : cache[d] \in Obj => GetPlatform(cache[d]) # GetPlatform(o)

CreateResource(c) ==
  /\ up /\ obj[c] = Unborn
  /\ \E r \in Refs :
       LET o == [ref |-> r, fin |-> FALSE, deleting |-> FALSE] IN
       /\ validateResourceUnicity(c, o)
       /\ obj' = [obj EXCEPT ![c] = o]
  /\ UNCHANGED <<platforms, up, cache, queue, pass, remote, changes, faults, used>>

DeleteResource(c) ==
  /\ obj[c] \in Obj /\ ~obj[c].deleting
  /\ obj' = [obj EXCEPT ![c] = IF obj[c].fin THEN [obj[c] EXCEPT !.deleting = TRUE]
                                             ELSE Gone]
  /\ UNCHANGED <<platforms, up, cache, queue, pass, remote, changes, faults, used>>

\* The informer delivers the latest version, which also enqueues the key.
CacheSync(c) ==
  /\ up /\ cache[c] # obj[c]
  /\ cache' = [cache EXCEPT ![c] = obj[c]]
  /\ queue' = queue \union {c}
  /\ UNCHANGED <<platforms, up, obj, pass, remote, changes, faults, used>>

\* Mutant of Resync: events that change no spec are filtered out.
ResyncFiltered(c) ==
  /\ up /\ cache[c] \in Obj /\ c \notin queue /\ used[c] = {}
  /\ queue' = queue \union {c}
  /\ UNCHANGED <<platforms, up, obj, cache, pass, remote, changes, faults, used>>

\* The informer delivers every copy again once in a while, also during a pass.
Resync(c) ==
  /\ up /\ cache[c] \in Obj /\ c \notin queue
  /\ queue' = queue \union {c}
  /\ UNCHANGED <<platforms, up, obj, cache, pass, remote, changes, faults, used>>

-----------------------------------------------------------------------------
(***************************************************************************)
(* Passes.  One that finds no client fails before anything else, also when *)
(* the resource is being deleted, and its key is put back: a stutter.      *)
(***************************************************************************)
Take(c) == up /\ pass = NoPass /\ c \in queue /\ queue' = queue \ {c}

Begin(c, pc) ==
  /\ pass' = [cr |-> c, server |-> GetClient(cache[c]).server, pc |-> pc]
  /\ UNCHANGED <<platforms, up, obj, cache, remote, changes, faults, used>>

ReconcileAbsent(c) ==
  /\ Take(c) /\ cache[c] \notin Obj
  /\ UNCHANGED <<platforms, up, obj, cache, pass, remote, changes, faults, used>>

\* An update, refused when the copy is outdated or the webhook finds another
\* resource: the pass fails, a stutter.
AddFinalizer(c) ==
  /\ up /\ pass = NoPass /\ c \in queue
  /\ cache[c] \in Obj /\ ~cache[c].fin
  /\ GetClient(cache[c]) # NoEntry
  /\ cache[c] = obj[c] /\ validateResourceUnicity(c, cache[c])
  /\ obj' = [obj EXCEPT ![c].fin = TRUE]
  /\ UNCHANGED <<platforms, up, cache, queue, pass, remote, changes, faults, used>>

Ready(c) == Take(c) /\ cache[c] \in Obj /\ cache[c].fin

\* Mutant of ReconcileDelete: without a client there is nothing to delete.
ReconcileDeleteAnyway(c) ==
  /\ Ready(c) /\ cache[c].deleting
  /\ IF GetClient(cache[c]) # NoEntry THEN Begin(c, "delete")
     ELSE /\ obj' = [obj EXCEPT ![c] = Gone]
          /\ UNCHANGED <<platforms, up, cache, pass, remote, changes, faults, used>>

\* Mutant of ReconcileDelete: a service that another resource wrote is an error.
ReconcileDeleteOwn(c) ==
  /\ Ready(c) /\ cache[c].deleting
  /\ GetClient(cache[c]) # NoEntry
  /\ remote[GetClient(cache[c]).server] \in {c, NoSvc}
  /\ Begin(c, "delete")

ReconcileDelete(c) ==
  /\ Ready(c) /\ cache[c].deleting
  /\ GetClient(cache[c]) # NoEntry
  /\ Begin(c, "delete")

\* The service is not there, or is what another resource made of it.
ReconcileWrite(c) ==
  /\ Ready(c) /\ ~cache[c].deleting
  /\ GetClient(cache[c]) # NoEntry
  /\ remote[GetClient(cache[c]).server] # c
  /\ Begin(c, "write")

ReconcileNoDiff(c) ==
  /\ Ready(c) /\ ~cache[c].deleting
  /\ GetClient(cache[c]) # NoEntry
  /\ remote[GetClient(cache[c]).server] = c
  /\ UNCHANGED <<platforms, up, obj, cache, pass, remote, changes, faults, used>>

OnError(c) == pass' = NoPass /\ queue' = queue \union {c}

\* The call reaches the server the pass began with, and leads to pass next or
\* loses its answer.
Call(owner, next) ==
  /\ remote' = [remote EXCEPT ![pass.server] = owner]
  /\ used' = [used EXCEPT ![pass.cr] = @ \union {pass.server}]
  /\ \/ pass' = next /\ UNCHANGED <<queue, faults>>
     \/ faults < MaxFaults /\ faults' = faults + 1 /\ OnError(pass.cr)
  /\ UNCHANGED <<platforms, up, obj, cache, changes>>

\* Mutant of Write: the server is recorded where the resource belongs.
WriteServer == pass # NoPass /\ pass.pc = "write" /\ Call(pass.server, NoPass)

Write == pass # NoPass /\ pass.pc = "write" /\ Call(pass.cr, NoPass)

Delete ==
  pass # NoPass /\ pass.pc = "delete" /\ Call(NoSvc, [pass EXCEPT !.pc = "release"])

CallFails ==
  /\ pass # NoPass
  /\ faults < MaxFaults /\ faults' = faults + 1
  /\ OnError(pass.cr)
  /\ UNCHANGED <<platforms, up, obj, cache, remote, changes, used>>

\* An update as well, judged by the webhook; of a resource that is gone it fails.
RemoveFinalizer ==
  /\ pass # NoPass /\ pass.pc = "release"
  /\ IF obj[pass.cr] \in Obj /\ validateResourceUnicity(pass.cr, obj[pass.cr])
     THEN /\ obj' = [obj EXCEPT ![pass.cr] = Gone]
          /\ pass' = NoPass /\ UNCHANGED queue
     ELSE OnError(pass.cr) /\ UNCHANGED obj
  /\ UNCHANGED <<platforms, up, cache, remote, changes, faults, used>>

-----------------------------------------------------------------------------
User(c) == CreateResource(c) \/ DeleteResource(c)

Reconcile(c) ==
  \/ ReconcileAbsent(c) \/ AddFinalizer(c) \/ ReconcileDelete(c)
  \/ ReconcileWrite(c) \/ ReconcileNoDiff(c)

Work == Write \/ Delete \/ RemoveFinalizer

Next ==
  \/ Start \/ Stop
  \/ \E p \in Plat : ChangePlatform(p)
  \/ \E c \in CR : User(c) \/ CacheSync(c) \/ Resync(c) \/ Reconcile(c)
  \/ Work \/ CallFails

Spec == Init /\ [][Next]_vars

\* The operator is started again, the informer delivers, its resync comes round,
\* and the queue serves its keys in turn.
Fairness ==
  /\ WF_vars(Start) /\ WF_vars(Work)
  /\ \A c \in CR :
       SF_vars(Reconcile(c)) /\ WF_vars(CacheSync(c)) /\ WF_vars(Resync(c))

FairSpec == Spec /\ Fairness

-----------------------------------------------------------------------------
(***************************************************************************)
(* Properties.                                                             *)
(***************************************************************************)

\* A resource is not let go before its service is deleted, although its platform
\* may be missing from the map, now or since a restart; only when its passes went
\* to several servers does the deletion miss the ones before the last.
Promise == INSTANCE RemoteObject WITH
  Resource <- CR, Identity <- Server, Nobody <- NoSvc, Foreign <- NoSvc,
  Again <- TRUE,
  kept <- {c \in CR : obj[c] \in Obj /\ obj[c].fin}, owner <- remote,
  excused <- {c \in CR : \E s, t \in used[c] : s # t}

ImplementsPromise == Promise!Spec

\* The deletion of a resource completes unless its platform is missing again and
\* again, or another resource of the same identity and platformRef remains: both
\* were admitted while the cache lagged, and now the webhook refuses the update
\* that removes the finalizer.
DeletionCompletes ==
  \A c \in CR :
    <>[](obj[c] \in Obj => GetClient(obj[c]) # NoEntry)
      => []<>(\/ obj[c] \notin Obj \/ ~obj[c].deleting
              \/ \E d \in CR \ {c} :
                   obj[d] \in Obj /\ GetPlatform(obj[d]) = GetPlatform(obj[c]))

\* The client of c, and of no other resource, talks to server s.
AloneOn(c, s) ==
  \A d \in CR :
    (obj[d] \in Obj /\ GetClient(obj[d]) \in [name : Plat, server : {s}]) <=> d = c

\* A platform that moved to another server is followed: its resource's service
\* is written there in the end, although no event tells the resource so and passes
\* that still hold the old client may come in between.
FollowsPlatform ==
  \A c \in CR, s \in Server :
    <>[](AloneOn(c, s) /\ ~obj[c].deleting) => <>[](remote[s] = c)
=============================================================================
