-------------------------- MODULE CentreonService --------------------------
(***************************************************************************)
(* The reconciliation of CentreonService custom resources (CR) against one *)
(* Centreon platform.                                                      *)
(*                                                                         *)
(* A resource lives in the Kubernetes API server (obj).  The operator sees *)
(* it through its informer cache (cache), which lags.  One worker takes a  *)
(* key from the work queue and runs one pass: it reads the cached copy,    *)
(* looks the service up on Centreon, creates, updates or deletes it by a   *)
(* sequence of API calls, and at the end of a successful pass records the  *)
(* service's identity in the resource's status.  Admission of a resource   *)
(* by the validating webhook reads the same cache.                         *)
(*                                                                         *)
(* A service is identified by its host and its name (Id).  Every other     *)
(* field of it (command, arguments, groups, macros...) is abstracted to    *)
(* one value of Cfg; CentreonHandler models how those are compared and set.*)
(***************************************************************************)
EXTENDS Naturals, FiniteSets

CONSTANTS
  CR,         \* the custom resources (one element per UID)
  Host, Name, \* Centreon hosts and service names
  Cfg,        \* the values of the fields that do not identify a service
  Policy,     \* the policies users give to resources
  Found,      \* the sets of services that may exist before the operator
  Bare,       \* the configuration of a service that was only added
  Manual,     \* the owner of a service the operator never wrote to
  NoId, NoSvc, NoReq, NoPass, Unborn, Gone,
  MayRename,  \* TRUE if users may change spec.host and spec.name
  MaxEdits,   \* bound: how many times users edit a spec
  MaxFaults   \* bound: how many calls fail and how often the operator stops

Id == [host : Host, name : Name]

Field == {"name", "cfg", "host"}

PolicyRecord ==
  [noCreate : BOOLEAN, noUpdate : BOOLEAN, noDelete : BOOLEAN,
   exclude : SUBSET Field]

Obj ==
  [id : Id, cfg : Cfg, policy : Policy, st : Id \union {NoId},
   fin : BOOLEAN, deleting : BOOLEAN]

\* What an update towards v leaves when the new template or command took macros away
\* that were as described: the next one settles it (see ServiceUpdate).
Partly(v) == [towards |-> v]

Svc ==
  [cfg : Cfg \union {Bare} \union {Partly(v) : v \in Cfg}, owner : CR \union {Manual}]

Pass ==
  [cr : CR, snap : Obj, at : Id, todo : SUBSET Field,
   fresh : BOOLEAN, moved : BOOLEAN,
   pc : {"create", "fill", "update", "status", "delete", "release"}]

ASSUME PolicyAssumption == Policy \subseteq PolicyRecord
ASSUME FoundAssumption == Found \subseteq SUBSET Id
ASSUME BoundAssumption ==
  MaxEdits \in Nat /\ MaxFaults \in Nat /\ MayRename \in BOOLEAN
ASSUME AbsentAssumption ==
  /\ NoId \notin Id /\ NoSvc \notin Svc \union CR \union {Manual}
  /\ NoPass \notin Pass
  /\ NoReq \notin Obj
  /\ Unborn \notin Obj /\ Gone \notin Obj /\ Unborn # Gone
  /\ Manual \notin CR /\ Bare \notin Cfg

VARIABLES
  obj,     \* obj[c]: the resource in the API server, Unborn or Gone
  cache,   \* cache[c]: the operator's copy of it
  dirty,   \* the resources with a version the cache has not received
  req,     \* req[c]: a write the webhook admitted and the server has not stored
  queue,   \* the keys waiting for the worker
  pass,    \* the pass the worker runs, or NoPass
  remote,  \* remote[i]: the Centreon service with identity i, or NoSvc
  edits, faults,
  slip,    \* ghost: resources whose status may not name their service
  left     \* ghost: resources whose service was left behind on deletion

vars == <<obj, cache, dirty, req, queue, pass, remote, edits, faults, slip, left>>
k8s == <<obj, cache, dirty, req, edits>>

TypeOK ==
  /\ obj \in [CR -> Obj \union {Unborn, Gone}]
  /\ cache \in [CR -> Obj \union {Unborn, Gone}]
  /\ dirty \subseteq CR
  /\ req \in [CR -> Obj \union {NoReq}]
  /\ queue \subseteq CR
  /\ pass \in Pass \union {NoPass}
  /\ remote \in [Id -> Svc \union {NoSvc}]
  /\ edits \in 0..MaxEdits
  /\ faults \in 0..MaxFaults
  /\ slip \subseteq CR
  /\ left \subseteq CR

Init ==
  /\ obj = [c \in CR |-> Unborn]
  /\ cache = [c \in CR |-> Unborn]
  /\ dirty = {}
  /\ req = [c \in CR |-> NoReq]
  /\ queue = {}
  /\ pass = NoPass
  /\ \E found \in Found :
       remote = [i \in Id |-> IF i \in found
                              THEN [cfg |-> Bare, owner |-> Manual]
                              ELSE NoSvc]
  /\ edits = 0 /\ faults = 0
  /\ slip = {} /\ left = {}

-----------------------------------------------------------------------------
(***************************************************************************)
(* Users, the API server and the validating webhook.                       *)
(***************************************************************************)

\* The webhook refuses an identity another cached resource already targets.
validateResourceUnicity(c, i) ==
  \A d \in CR \ {c} : cache[d] \in Obj => cache[d].id # i

\* The webhook admits a new resource; the API server has not stored it yet.
ValidateCreate(c) ==
  /\ obj[c] = Unborn /\ req[c] = NoReq
  /\ \E i \in Id, v \in Cfg, p \in Policy :
       /\ validateResourceUnicity(c, i)
       /\ req' = [req EXCEPT ![c] =
            [id |-> i, cfg |-> v, policy |-> p, st |-> NoId,
             fin |-> FALSE, deleting |-> FALSE]]
  /\ UNCHANGED <<obj, cache, dirty, queue, pass, remote, edits, faults, slip, left>>

\* The webhook admits an edit of a spec.
ValidateUpdate(c) ==
  /\ obj[c] \in Obj /\ req[c] = NoReq /\ edits < MaxEdits
  /\ \E i \in Id, v \in Cfg, p \in Policy :
       LET new == [obj[c] EXCEPT !.id = i, !.cfg = v, !.policy = p] IN
       /\ new # obj[c]
       /\ MayRename \/ i = obj[c].id
       /\ validateResourceUnicity(c, i)
       /\ req' = [req EXCEPT ![c] = new]
  /\ edits' = edits + 1
  /\ UNCHANGED <<obj, cache, dirty, queue, pass, remote, faults, slip, left>>

\* The API server stores a new version of c.  Every other write that was based
\* on an older version, an admitted one or the running pass', will be refused
\* (optimistic concurrency on resourceVersion).
Store(c, o) ==
  /\ obj' = [obj EXCEPT ![c] = o]
  /\ dirty' = dirty \union {c}
  /\ req' = [req EXCEPT ![c] = NoReq]

UserWrite(c, o) ==
  /\ Store(c, o)
  /\ pass' = IF pass # NoPass /\ pass.cr = c THEN [pass EXCEPT !.fresh = FALSE]
                                             ELSE pass
  /\ UNCHANGED <<cache, queue, remote, faults, slip, left>>

Persist(c) ==
  /\ req[c] # NoReq
  /\ UserWrite(c, req[c])
  /\ UNCHANGED edits

\* A user deletes a resource: it stays, marked, while it has the finalizer.
UserDelete(c) ==
  /\ obj[c] \in Obj /\ ~obj[c].deleting
  /\ UserWrite(c, IF obj[c].fin THEN [obj[c] EXCEPT !.deleting = TRUE] ELSE Gone)
  /\ UNCHANGED edits

\* The informer delivers the latest version, which also enqueues the key.
CacheSync(c) ==
  /\ c \in dirty
  /\ cache' = [cache EXCEPT ![c] = obj[c]]
  /\ dirty' = dirty \ {c}
  /\ queue' = queue \union {c}
  /\ UNCHANGED <<obj, req, pass, remote, edits, faults, slip, left>>

-----------------------------------------------------------------------------
(***************************************************************************)
(* The start of a pass.  A pass that fails before it changed anything      *)
(* (platform unknown, Centreon unreachable on Get, finalizer update        *)
(* refused) is put back on the queue: nothing changes, so it is a stutter. *)
(***************************************************************************)

\* Mutant of Get: only the service name in the status is used.
GetHostBySpec(o) ==
  IF o.st # NoId THEN [o.id EXCEPT !.name = o.st.name] ELSE o.id

\* Status.Host/ServiceName when set, else Spec.Host/GetExternalName.
Get(o) == IF o.st # NoId THEN o.st ELSE o.id

\* The fields an update has to set (the ones not excluded by the policy).
Diff(o, i) ==
  { f \in Field \ o.policy.exclude :
      \/ f = "name" /\ i.name # o.id.name
      \/ f = "host" /\ i.host # o.id.host
      \/ f = "cfg" /\ remote[i].cfg # o.cfg }

Take(c) == pass = NoPass /\ c \in queue /\ queue' = queue \ {c}

Begin(c, pc, at, todo) ==
  /\ pass' = [cr |-> c, snap |-> cache[c], at |-> at, todo |-> todo,
              fresh |-> c \notin dirty, moved |-> FALSE, pc |-> pc]
  /\ UNCHANGED <<k8s, remote, faults, slip, left>>

\* The resource is not in the cache any more: nothing to do.
ReconcileAbsent(c) ==
  /\ Take(c)
  /\ cache[c] \notin Obj
  /\ UNCHANGED <<k8s, pass, remote, faults, slip, left>>

\* Mutant of AddFinalizer: the webhook validates creations only.
AddFinalizerUnvalidated(c) ==
  /\ Take(c)
  /\ cache[c] \in Obj /\ ~cache[c].fin
  /\ c \notin dirty
  /\ Store(c, [cache[c] EXCEPT !.fin = TRUE])
  /\ UNCHANGED <<cache, edits, pass, remote, faults, slip, left>>

\* The finalizer is added first, by an update that the webhook validates too.
AddFinalizer(c) ==
  /\ Take(c)
  /\ cache[c] \in Obj /\ ~cache[c].fin
  /\ c \notin dirty
  /\ validateResourceUnicity(c, cache[c].id)
  /\ Store(c, [cache[c] EXCEPT !.fin = TRUE])
  /\ UNCHANGED <<cache, edits, pass, remote, faults, slip, left>>

\* Mutant of ReconcileDelete: nothing is deleted when the status is empty.
ReconcileDeleteRecorded(c) ==
  /\ Take(c)
  /\ cache[c] \in Obj /\ cache[c].fin /\ cache[c].deleting
  /\ Begin(c, IF cache[c].st = NoId THEN "release" ELSE "delete", cache[c].id, {})

ReconcileDelete(c) ==
  /\ Take(c)
  /\ cache[c] \in Obj /\ cache[c].fin /\ cache[c].deleting
  /\ Begin(c, "delete", cache[c].id, {})

\* Mutant of ReconcileCreate: the service is created before the finalizer is set.
ReconcileCreateEarly(c) ==
  /\ Take(c)
  /\ cache[c] \in Obj /\ ~cache[c].deleting
  /\ remote[Get(cache[c])] = NoSvc
  /\ Begin(c, "create", cache[c].id, {})

ReconcileCreate(c) ==
  /\ Take(c)
  /\ cache[c] \in Obj /\ cache[c].fin /\ ~cache[c].deleting
  /\ remote[Get(cache[c])] = NoSvc
  /\ Begin(c, "create", cache[c].id, {})

ReconcileUpdate(c) ==
  /\ Take(c)
  /\ cache[c] \in Obj /\ cache[c].fin /\ ~cache[c].deleting
  /\ LET i == Get(cache[c]) IN
       /\ remote[i] # NoSvc
       /\ Diff(cache[c], i) # {}
       /\ Begin(c, "update", i, Diff(cache[c], i))

\* Nothing to create or update: OnSuccess leaves the status' identity alone.
ReconcileNoDiff(c) ==
  /\ Take(c)
  /\ cache[c] \in Obj /\ cache[c].fin /\ ~cache[c].deleting
  /\ LET i == Get(cache[c]) IN remote[i] # NoSvc /\ Diff(cache[c], i) = {}
  /\ UNCHANGED <<k8s, pass, remote, faults, slip, left>>

-----------------------------------------------------------------------------
(***************************************************************************)
(* The calls of a pass.  Each may fail before Centreon applied it, or be   *)
(* applied and lose its answer; both are errors to the code, which ends    *)
(* the pass without touching the status and puts the key back.             *)
(***************************************************************************)

\* Mutant of Abort: the error is swallowed, the key is not put back.
AbortForgets(p) ==
  /\ pass' = NoPass
  /\ slip' = IF p.moved THEN slip \union {p.cr} ELSE slip
  /\ UNCHANGED queue

Abort(p) ==
  /\ pass' = NoPass
  /\ queue' = queue \union {p.cr}
  /\ slip' = IF p.moved THEN slip \union {p.cr} ELSE slip

\* A call was applied: the pass goes on as next, or never learns of it.
Reply(next) ==
  \/ pass' = next /\ UNCHANGED <<queue, faults, slip>>
  \/ faults < MaxFaults /\ faults' = faults + 1 /\ Abort(next)

\* A call that changes nothing failed, or the API server refused the status.
CallFails ==
  /\ pass # NoPass
  /\ faults < MaxFaults /\ faults' = faults + 1
  /\ Abort(pass)
  /\ UNCHANGED <<k8s, remote, left>>

\* A policy turns the call into a no-op that counts as a success.
SkipCall(pc, flag, next) ==
  /\ pass # NoPass /\ pass.pc = pc /\ flag
  /\ pass' = [pass EXCEPT !.pc = next]
  /\ UNCHANGED <<k8s, queue, remote, faults, slip>>

CreateSkipped ==
  /\ SkipCall("create", pass.snap.policy.noCreate, "status")
  /\ UNCHANGED left

\* CreateService, first call: Add, refused when the identity is taken.
CreateAdd ==
  /\ pass # NoPass /\ pass.pc = "create" /\ ~pass.snap.policy.noCreate
  /\ IF remote[pass.at] = NoSvc
     THEN /\ remote' = [remote EXCEPT ![pass.at] =
                          [cfg |-> Bare, owner |-> pass.cr]]
          /\ Reply([pass EXCEPT !.pc = "fill", !.moved = TRUE])
     ELSE Abort(pass) /\ UNCHANGED <<remote, faults>>
  /\ UNCHANGED <<k8s, left>>

\* CreateService, the calls that set everything else.
CreateFill ==
  /\ pass # NoPass /\ pass.pc = "fill"
  /\ remote' = [remote EXCEPT ![pass.at].cfg = pass.snap.cfg]
  /\ Reply([pass EXCEPT !.pc = "status"])
  /\ UNCHANGED <<k8s, left>>

UpdateSkipped ==
  /\ SkipCall("update", pass.snap.policy.noUpdate, "status")
  /\ UNCHANGED left

InUpdate(f) ==
  /\ pass # NoPass /\ pass.pc = "update" /\ ~pass.snap.policy.noUpdate
  /\ f \in pass.todo

\* The pass once the call for field f was applied; the last one leads to the
\* status, and the calls that follow a rename address the new identity.
Done(f, i) ==
  [pass EXCEPT !.todo = @ \ {f}, !.at = i, !.moved = @ \/ i # pass.snap.st,
               !.pc = IF pass.todo = {f} THEN "status" ELSE "update"]

\* SetParam, SetServiceGroups, SetMacro...: in any order with the rename.  Not all of
\* it need be as described then, but not twice in a row.
UpdateSetCfg ==
  /\ InUpdate("cfg")
  /\ \E v \in {pass.snap.cfg} \union ({Partly(pass.snap.cfg)} \ {remote[pass.at].cfg}) :
       remote' = [remote EXCEPT ![pass.at] = [cfg |-> v, owner |-> pass.cr]]
  /\ Reply(Done("cfg", pass.at))
  /\ UNCHANGED <<k8s, left>>

\* SetParam "description" and SetHost: refused when the new identity is taken.
Move(f, to) ==
  /\ IF remote[to] = NoSvc
     THEN /\ remote' = [remote EXCEPT
                          ![to] = [remote[pass.at] EXCEPT !.owner = pass.cr],
                          ![pass.at] = NoSvc]
          /\ Reply(Done(f, to))
     ELSE Abort(pass) /\ UNCHANGED <<remote, faults>>
  /\ UNCHANGED <<k8s, left>>

UpdateRename ==
  InUpdate("name") /\ Move("name", [pass.at EXCEPT !.name = pass.snap.id.name])

\* The host is moved last.
UpdateSetHost ==
  /\ InUpdate("host") /\ pass.todo = {"host"}
  /\ Move("host", [pass.at EXCEPT !.host = pass.snap.id.host])

\* The status is recorded and ends the pass, or is refused on a stale resource.
Record(st) ==
  /\ pass # NoPass /\ pass.pc = "status"
  /\ IF pass.fresh
     THEN /\ Store(pass.cr, [pass.snap EXCEPT !.st = st])
          /\ pass' = NoPass
          /\ slip' = IF pass.at # pass.snap.id THEN slip \union {pass.cr} ELSE slip
          /\ UNCHANGED queue
     ELSE Abort(pass) /\ UNCHANGED <<obj, dirty, req>>
  /\ UNCHANGED <<cache, edits, remote, faults, left>>

\* Mutants of WriteStatus: a wrong field; the status keeps the host it had.
WriteStatusWrongField == Record(pass.snap.cfg)

WriteStatusOldHost ==
  Record(IF pass.snap.st = NoId THEN pass.snap.id
         ELSE [pass.snap.id EXCEPT !.host = pass.snap.st.host])

\* OnSuccess after a create or an update: the status takes the identity of the
\* spec, whatever the calls did.
WriteStatus == Record(pass.snap.id)

\* Mutant of DeleteRemote: an unknown service is an error.
DeleteRemoteStrict ==
  /\ pass # NoPass /\ pass.pc = "delete" /\ ~pass.snap.policy.noDelete
  /\ IF remote[pass.snap.id] = NoSvc
     THEN Abort(pass) /\ UNCHANGED <<remote, faults>>
     ELSE /\ remote' = [remote EXCEPT ![pass.snap.id] = NoSvc]
          /\ Reply([pass EXCEPT !.pc = "release"])
  /\ UNCHANGED <<k8s, left>>

\* DeleteService by the spec's identity; an unknown service is a success.
DeleteRemote ==
  /\ pass # NoPass /\ pass.pc = "delete" /\ ~pass.snap.policy.noDelete
  /\ remote' = [remote EXCEPT ![pass.snap.id] = NoSvc]
  /\ Reply([pass EXCEPT !.pc = "release"])
  /\ left' = IF pass.snap.st \in {NoId, pass.snap.id} THEN left
                                                      ELSE left \union {pass.cr}
  /\ UNCHANGED k8s

DeleteSkipped ==
  /\ SkipCall("delete", pass.snap.policy.noDelete, "release")
  /\ left' = left \union {pass.cr}

\* The finalizer is removed by an update, which the webhook validates as well.
RemoveFinalizer ==
  /\ pass # NoPass /\ pass.pc = "release"
  /\ IF pass.fresh /\ validateResourceUnicity(pass.cr, pass.snap.id)
     THEN /\ Store(pass.cr, Gone)
          /\ pass' = NoPass
          /\ UNCHANGED <<queue, slip>>
     ELSE Abort(pass) /\ UNCHANGED <<obj, dirty, req>>
  /\ UNCHANGED <<cache, edits, remote, faults, left>>

\* The operator stops and starts again: it lists every resource afresh.
Restart ==
  /\ faults < MaxFaults /\ faults' = faults + 1
  /\ pass' = NoPass
  /\ cache' = obj /\ dirty' = {}
  /\ queue' = {c \in CR : obj[c] \in Obj}
  /\ slip' = IF pass # NoPass /\ pass.moved THEN slip \union {pass.cr} ELSE slip
  /\ UNCHANGED <<obj, req, edits, remote, left>>

-----------------------------------------------------------------------------
User(c) == ValidateCreate(c) \/ ValidateUpdate(c) \/ Persist(c) \/ UserDelete(c)

Reconcile(c) ==
  \/ ReconcileAbsent(c) \/ AddFinalizer(c) \/ ReconcileDelete(c)
  \/ ReconcileCreate(c) \/ ReconcileUpdate(c) \/ ReconcileNoDiff(c)

Work ==
  \/ CreateSkipped \/ CreateAdd \/ CreateFill
  \/ UpdateSkipped \/ UpdateSetCfg \/ UpdateRename \/ UpdateSetHost
  \/ WriteStatus \/ DeleteRemote \/ DeleteSkipped \/ RemoveFinalizer

Next ==
  \/ \E c \in CR : User(c) \/ CacheSync(c) \/ Reconcile(c)
  \/ Work \/ CallFails \/ Restart

Spec == Init /\ [][Next]_vars

\* The informer delivers, a pass runs on, and the work queue serves its keys in
\* turn (it is first in, first out), so no key waits for ever behind others.
Fairness ==
  /\ WF_vars(Work)
  /\ \A c \in CR : WF_vars(CacheSync(c)) /\ SF_vars(Reconcile(c))

FairSpec == Spec /\ Fairness

-----------------------------------------------------------------------------
(***************************************************************************)
(* Properties.                                                             *)
(***************************************************************************)

Owned(c) == {i \in Id : remote[i] # NoSvc /\ remote[i].owner = c}

\* A resource carries the finalizer before the first service is created or
\* written for it, whatever the cache shows, so deleting it cannot bypass the
\* code that removes the service.
FinalizerFirst ==
  \A c \in CR : obj[c] \in Obj /\ Owned(c) # {} => obj[c].fin

\* Two resources admitted with the same identity (each validated before the
\* cache showed the other) do not both get past the second validation, the one
\* of the finalizer update, when specs keep their identity.
FinalizedUnique ==
  \A c, d \in CR :
    (/\ c # d
     /\ obj[c] \in Obj /\ obj[c].fin
     /\ obj[d] \in Obj /\ obj[d].fin) => obj[c].id # obj[d].id

\* With renames: unless a pass was cut after it created or moved the service,
\* or skipped the move by policy, every service a resource created or wrote is
\* the one its status names, or the one the running pass is working on.
StatusTracksService ==
  \A c \in CR \ slip :
    \A i \in Owned(c) :
      \/ obj[c] \in Obj /\ obj[c].st = i
      \/ c \in left
      \/ pass # NoPass /\ pass.cr = c /\ pass.at = i

\* With renames: the same resources never leave a second service behind.
OneServicePerResource ==
  \A c \in CR \ slip : Cardinality(Owned(c)) <= 1

\* What the passes do to services is what a reconciler of remote objects promises:
\* they write for resources that have the finalizer only, and one loses it only
\* when no service of it is left, unless its policy says so or it was deleted
\* between a rename and the pass that would have applied it.  When specs keep
\* their identity a slip costs nothing, although a pass may have been cut right
\* after the call that added the service and the status is still empty.
Promise == INSTANCE RemoteObject WITH
  Resource <- CR, Identity <- Id, Nobody <- NoSvc, Foreign <- Manual,
  Again <- FALSE,
  kept <- {c \in CR : obj[c] \in Obj /\ obj[c].fin},
  owner <- [i \in Id |-> IF remote[i] = NoSvc THEN NoSvc ELSE remote[i].owner],
  excused <- left \union (IF MayRename THEN slip ELSE {})

ImplementsPromise == Promise!Spec

\* The README on the status: "the host where service is attached on Centreon",
\* "the service name on Centreon": between passes, without faults, the status of
\* a resource that is not being deleted names an existing service.
StatusIsWhereServiceIs ==
  \A c \in CR :
    (pass = NoPass /\ faults = 0 /\ obj[c] \in Obj /\ ~obj[c].deleting
       /\ obj[c].st # NoId) => remote[obj[c].st] # NoSvc

Plain(p) == ~p.noCreate /\ ~p.noUpdate /\ ~p.noDelete /\ p.exclude = {}

InSync(c) ==
  (obj[c] \in Obj /\ obj[c].fin /\ ~obj[c].deleting /\ Plain(obj[c].policy))
     => /\ remote[obj[c].id] # NoSvc
        /\ remote[obj[c].id].cfg = obj[c].cfg

\* Once faults and edits are over, every service becomes and stays what its
\* resource says (specs keep their identity), although any pass may have been
\* cut after any of its calls.
Converges == \A c \in CR : <>[]InSync(c)

\* A deleted resource eventually disappears, or another resource targets the
\* same service (specs keep their identity): the webhook then refuses the update
\* that removes the finalizer.
DeletionCompletes ==
  \A c \in CR :
    []<>(\/ obj[c] \notin Obj \/ ~obj[c].deleting
         \/ \E d \in CR \ {c} : obj[d] \in Obj /\ obj[d].id = obj[c].id)
=============================================================================
