------------------------ MODULE CentreonServiceGroup ------------------------
(***************************************************************************)
(* The reconciliation of CentreonServiceGroup resources against one        *)
(* Centreon platform, and the services that wait for their group.          *)
(*                                                                         *)
(* The passes are those of CentreonService on another object: a group is   *)
(* identified by its name alone, its parameters are set with the rename in *)
(* any order, and its deletion takes away the memberships of services.     *)
(* Services are reconciled by another worker of the same operator, which   *)
(* nothing tells about groups: it fails while a service's group is missing *)
(* and tries again until the service is a member.  Here a service exists   *)
(* on Centreon and names one group; CentreonService models the rest of it. *)
(***************************************************************************)
EXTENDS Naturals, FiniteSets

CONSTANTS
  CSG,        \* the custom resources (one element per UID)
  Name,       \* names of groups on Centreon
  Cfg,        \* the parameters of a group besides its name
  Blank,      \* the one of them whose description is empty
  Bare,       \* the parameters of a group that was only added
  Policy,     \* the policies users give to resources
  Service,    \* services that are to be in a group
  Groups,     \* Groups[s]: the group that the resource of service s names
  NoName, NoGroup, NoPass, Unborn, Gone,
  MaxEdits,   \* bound: how many times users edit a resource
  MaxFaults   \* bound: how many calls fail and how often the operator stops

Field == {"name", "cfg"}

PolicyRecord ==
  [noCreate : BOOLEAN, noUpdate : BOOLEAN, noDelete : BOOLEAN,
   exclude : SUBSET Field]

Obj ==
  [name : Name, cfg : Cfg, policy : Policy, st : Name \union {NoName},
   fin : BOOLEAN, deleting : BOOLEAN]

Group == [cfg : Cfg \union {Bare}, owner : CSG, members : SUBSET Service]

Pass ==
  [csg : CSG, snap : Obj, at : Name, todo : SUBSET Field,
   fresh : BOOLEAN, moved : BOOLEAN,
   pc : {"create", "fill", "update", "status", "delete", "release"}]

\* A pass over a service joins its group and then leaves the groups in drop.
Job == [pc : {"queued", "leave", "idle"}, drop : SUBSET Name]

ASSUME PolicyAssumption == Policy \subseteq PolicyRecord
ASSUME GroupsAssumption == Groups \in [Service -> Name]
ASSUME BoundAssumption == MaxEdits \in Nat /\ MaxFaults \in Nat
ASSUME AbsentAssumption ==
  /\ NoName \notin Name /\ NoGroup \notin Group \union CSG /\ NoPass \notin Pass
  /\ Unborn \notin Obj /\ Gone \notin Obj /\ Unborn # Gone
  /\ Blank \in Cfg /\ Bare \notin Cfg

VARIABLES
  obj,     \* obj[c]: the resource in the API server, Unborn or Gone
  cache,   \* cache[c]: the operator's copy of it
  dirty,   \* the resources with a version the cache has not received
  queue,   \* the keys waiting for the worker
  pass,    \* the pass the worker runs, or NoPass
  remote,  \* remote[n]: the Centreon group named n, or NoGroup
  job,     \* job[s]: what the services' worker does with s
  edits, faults,
  renamed, \* ghost: the resources users renamed
  contested, \* ghost: the names such an edit gave to a resource or took from one
  slip,    \* ghost: resources whose status may not name their group
  left,    \* ghost: resources whose group was left behind on deletion
  lost     \* ghost: services that lost their group and are not looked at again

vars == <<obj, cache, dirty, queue, pass, remote, job, edits, faults,
          renamed, contested, slip, left, lost>>
k8s == <<obj, cache, dirty, edits, renamed, contested>>
ghosts == <<slip, left, lost>>

TypeOK ==
  /\ obj \in [CSG -> Obj \union {Unborn, Gone}]
  /\ cache \in [CSG -> Obj \union {Unborn, Gone}]
  /\ dirty \subseteq CSG
  /\ queue \subseteq CSG
  /\ pass \in Pass \union {NoPass}
  /\ remote \in [Name -> Group \union {NoGroup}]
  /\ job \in [Service -> Job]
  /\ edits \in 0..MaxEdits /\ faults \in 0..MaxFaults
  /\ renamed \subseteq CSG /\ contested \subseteq Name
  /\ slip \subseteq CSG /\ left \subseteq CSG /\ lost \subseteq Service

Queued == [pc |-> "queued", drop |-> {}]
Idle == [pc |-> "idle", drop |-> {}]

Init ==
  /\ obj = [c \in CSG |-> Unborn] /\ cache = obj
  /\ dirty = {} /\ queue = {} /\ pass = NoPass
  /\ remote = [n \in Name |-> NoGroup]
  /\ job = [s \in Service |-> Queued]
  /\ edits = 0 /\ faults = 0
  /\ renamed = {} /\ contested = {} /\ slip = {} /\ left = {} /\ lost = {}

-----------------------------------------------------------------------------
(***************************************************************************)
(* Users, the API server, the webhook and the informer.                    *)
(***************************************************************************)

\* The webhook refuses a name another cached resource already has.
validateResourceUnicity(c, n) ==
  \A d \in CSG \ {c} : cache[d] \in Obj => cache[d].name # n

\* A new version of c; writes that were based on an older one are refused.
Store(c, o) ==
  /\ obj' = [obj EXCEPT ![c] = o]
  /\ dirty' = dirty \union {c}

UserWrite(c, o) ==
  /\ Store(c, o)
  /\ pass' = IF pass # NoPass /\ pass.csg = c THEN [pass EXCEPT !.fresh = FALSE]
                                              ELSE pass
  /\ UNCHANGED <<cache, queue, remote, job, faults, ghosts>>

ValidateCreate(c) ==
  /\ obj[c] = Unborn
  /\ \E n \in Name, v \in Cfg, p \in Policy :
       /\ validateResourceUnicity(c, n)
       /\ UserWrite(c, [name |-> n, cfg |-> v, policy |-> p, st |-> NoName,
                        fin |-> FALSE, deleting |-> FALSE])
  /\ UNCHANGED <<edits, renamed, contested>>

ValidateUpdate(c) ==
  /\ obj[c] \in Obj /\ edits < MaxEdits
  /\ \E n \in Name, v \in Cfg, p \in Policy :
       LET new == [obj[c] EXCEPT !.name = n, !.cfg = v, !.policy = p] IN
       /\ new # obj[c]
       /\ validateResourceUnicity(c, n)
       /\ UserWrite(c, new)
       /\ IF n = obj[c].name
          THEN UNCHANGED <<renamed, contested>>
          ELSE /\ renamed' = renamed \union {c}
               /\ contested' = contested \union {n, obj[c].name}
  /\ edits' = edits + 1

\* A user deletes a resource: it stays, marked, while it has the finalizer.
UserDelete(c) ==
  /\ obj[c] \in Obj /\ ~obj[c].deleting
  /\ UserWrite(c, IF obj[c].fin THEN [obj[c] EXCEPT !.deleting = TRUE] ELSE Gone)
  /\ UNCHANGED <<edits, renamed, contested>>

CacheSync(c) ==
  /\ c \in dirty
  /\ cache' = [cache EXCEPT ![c] = obj[c]]
  /\ dirty' = dirty \ {c}
  /\ queue' = queue \union {c}
  /\ UNCHANGED <<obj, pass, remote, job, edits, faults, renamed, contested, ghosts>>

-----------------------------------------------------------------------------
(***************************************************************************)
(* The start of a pass over a group.  One that fails before it changed     *)
(* anything is put back on the queue: it is a stutter.                     *)
(***************************************************************************)

\* Status.ServiceGroupName when set, else GetExternalName.
Get(o) == IF o.st # NoName THEN o.st ELSE o.name

\* DiffServiceGroup: the parameters to set, without the excluded ones.
Diff(o, n) ==
  { f \in Field \ o.policy.exclude :
      \/ f = "name" /\ n # o.name
      \/ f = "cfg" /\ remote[n].cfg # o.cfg }

Take(c) == pass = NoPass /\ c \in queue /\ queue' = queue \ {c}

Begin(c, pc, at, todo) ==
  /\ pass' = [csg |-> c, snap |-> cache[c], at |-> at, todo |-> todo,
              fresh |-> c \notin dirty, moved |-> FALSE, pc |-> pc]
  /\ UNCHANGED <<k8s, remote, job, faults, ghosts>>

ReconcileAbsent(c) ==
  /\ Take(c)
  /\ cache[c] \notin Obj
  /\ UNCHANGED <<k8s, pass, remote, job, faults, ghosts>>

\* Mutant of AddFinalizer: the webhook validates creations only.
AddFinalizerUnvalidated(c) ==
  /\ Take(c)
  /\ cache[c] \in Obj /\ ~cache[c].fin /\ c \notin dirty
  /\ Store(c, [cache[c] EXCEPT !.fin = TRUE])
  /\ UNCHANGED <<cache, pass, remote, job, edits, faults, renamed, contested, ghosts>>

\* The finalizer is added by an update, which the webhook validates too.
AddFinalizer(c) ==
  /\ Take(c)
  /\ cache[c] \in Obj /\ ~cache[c].fin /\ c \notin dirty
  /\ validateResourceUnicity(c, cache[c].name)
  /\ Store(c, [cache[c] EXCEPT !.fin = TRUE])
  /\ UNCHANGED <<cache, pass, remote, job, edits, faults, renamed, contested, ghosts>>

Live(c) == cache[c] \in Obj /\ cache[c].fin /\ ~cache[c].deleting

\* Mutant of ReconcileDelete: nothing is deleted when the status is empty.
ReconcileDeleteRecorded(c) ==
  /\ Take(c)
  /\ cache[c] \in Obj /\ cache[c].fin /\ cache[c].deleting
  /\ Begin(c, IF cache[c].st = NoName THEN "release" ELSE "delete",
           cache[c].name, {})

ReconcileDelete(c) ==
  /\ Take(c)
  /\ cache[c] \in Obj /\ cache[c].fin /\ cache[c].deleting
  /\ Begin(c, "delete", cache[c].name, {})

\* Mutant of ReconcileCreate: the group is created before the finalizer is set.
ReconcileCreateEarly(c) ==
  /\ Take(c)
  /\ cache[c] \in Obj /\ ~cache[c].deleting
  /\ remote[Get(cache[c])] = NoGroup
  /\ Begin(c, "create", cache[c].name, {})

ReconcileCreate(c) ==
  /\ Take(c) /\ Live(c)
  /\ remote[Get(cache[c])] = NoGroup
  /\ Begin(c, "create", cache[c].name, {})

ReconcileUpdate(c) ==
  /\ Take(c) /\ Live(c)
  /\ LET n == Get(cache[c]) IN
       /\ remote[n] # NoGroup
       /\ Diff(cache[c], n) # {}
       /\ Begin(c, "update", n, Diff(cache[c], n))

ReconcileNoDiff(c) ==
  /\ Take(c) /\ Live(c)
  /\ LET n == Get(cache[c]) IN remote[n] # NoGroup /\ Diff(cache[c], n) = {}
  /\ UNCHANGED <<k8s, pass, remote, job, faults, ghosts>>

-----------------------------------------------------------------------------
(***************************************************************************)
(* The calls of a pass over a group.  Each may fail before Centreon        *)
(* applied it, or be applied and lose its answer; both end the pass with   *)
(* the status as it was and put the key back.                              *)
(***************************************************************************)

\* Mutant of Abort: the error is swallowed, the key is not put back.
AbortForgets(p) ==
  /\ pass' = NoPass
  /\ slip' = IF p.moved THEN slip \union {p.csg} ELSE slip
  /\ UNCHANGED queue

Abort(p) ==
  /\ pass' = NoPass
  /\ queue' = queue \union {p.csg}
  /\ slip' = IF p.moved THEN slip \union {p.csg} ELSE slip

Reply(next) ==
  \/ pass' = next /\ UNCHANGED <<queue, faults, slip>>
  \/ faults < MaxFaults /\ faults' = faults + 1 /\ Abort(next)

\* A call that changes nothing failed, or the API server refused the status.
CallFails ==
  /\ pass # NoPass
  /\ faults < MaxFaults /\ faults' = faults + 1
  /\ Abort(pass)
  /\ UNCHANGED <<k8s, remote, job, left, lost>>

\* A policy turns the call into a no-op that counts as a success.
SkipCall(pc, flag, next) ==
  /\ pass # NoPass /\ pass.pc = pc /\ flag
  /\ pass' = [pass EXCEPT !.pc = next]
  /\ UNCHANGED <<k8s, queue, remote, job, faults, slip, lost>>

CreateSkipped ==
  /\ SkipCall("create", pass.snap.policy.noCreate, "status")
  /\ UNCHANGED left

\* CreateServiceGroup refuses an empty description; Add refuses a taken name.
CreateAdd ==
  /\ pass # NoPass /\ pass.pc = "create" /\ ~pass.snap.policy.noCreate
  /\ IF pass.snap.cfg # Blank /\ remote[pass.at] = NoGroup
     THEN /\ remote' = [remote EXCEPT ![pass.at] =
                          [cfg |-> Bare, owner |-> pass.csg, members |-> {}]]
          /\ Reply([pass EXCEPT !.pc = "fill", !.moved = TRUE])
     ELSE Abort(pass) /\ UNCHANGED <<remote, faults>>
  /\ UNCHANGED <<k8s, job, left, lost>>

\* CreateServiceGroup, the calls that set the state and the comment.
CreateFill ==
  /\ pass # NoPass /\ pass.pc = "fill"
  /\ remote' = [remote EXCEPT ![pass.at].cfg = pass.snap.cfg]
  /\ Reply([pass EXCEPT !.pc = "status"])
  /\ UNCHANGED <<k8s, job, left, lost>>

UpdateSkipped ==
  /\ SkipCall("update", pass.snap.policy.noUpdate, "status")
  /\ UNCHANGED left

InUpdate(f) ==
  /\ pass # NoPass /\ pass.pc = "update" /\ ~pass.snap.policy.noUpdate
  /\ f \in pass.todo

\* The pass once the call for f was applied: the calls after a rename use the
\* new name, and the last one leads to the status.
Done(f, n) ==
  [pass EXCEPT !.todo = @ \ {f}, !.at = n, !.moved = @ \/ n # pass.snap.st,
               !.pc = IF pass.todo = {f} THEN "status" ELSE "update"]

\* SetParam "alias", "activate" or "comment".
UpdateSetCfg ==
  /\ InUpdate("cfg")
  /\ remote' = [remote EXCEPT ![pass.at].cfg = pass.snap.cfg,
                              ![pass.at].owner = pass.csg]
  /\ Reply(Done("cfg", pass.at))
  /\ UNCHANGED <<k8s, job, left, lost>>

\* The services that lose their group n and that no pass will look at.
Losing(n) ==
  IF remote[n] = NoGroup THEN {}
  ELSE { s \in remote[n].members : Groups[s] = n /\ job[s].pc # "queued" }

\* SetParam "name": the members stay; refused when the name is taken.
UpdateRename ==
  /\ InUpdate("name")
  /\ LET to == pass.snap.name IN
       IF remote[to] = NoGroup
       THEN /\ remote' = [remote EXCEPT
                            ![to] = [remote[pass.at] EXCEPT !.owner = pass.csg],
                            ![pass.at] = NoGroup]
            /\ lost' = lost \union Losing(pass.at)
            /\ Reply(Done("name", to))
       ELSE Abort(pass) /\ UNCHANGED <<remote, lost, faults>>
  /\ UNCHANGED <<k8s, job, left>>

\* The status is recorded and ends the pass, or is refused on a stale resource.
Record(st) ==
  /\ pass # NoPass /\ pass.pc = "status"
  /\ IF pass.fresh
     THEN /\ Store(pass.csg, [pass.snap EXCEPT !.st = st])
          /\ pass' = NoPass
          /\ slip' = IF pass.at # pass.snap.name THEN slip \union {pass.csg} ELSE slip
          /\ UNCHANGED queue
     ELSE Abort(pass) /\ UNCHANGED <<obj, dirty>>
  /\ UNCHANGED <<cache, edits, renamed, contested, remote, job, faults, left, lost>>

\* Mutants of WriteStatus: an update leaves the status alone; a wrong field.
WriteStatusOnCreate ==
  Record(IF pass.snap.st = NoName THEN pass.snap.name ELSE pass.snap.st)

WriteStatusWrongField == Record(pass.snap.cfg)

\* OnSuccess after a create or an update: the status takes the name of the spec.
WriteStatus == Record(pass.snap.name)

\* DeleteServiceGroup by the spec's name; an unknown group is a success.
DeleteRemote ==
  /\ pass # NoPass /\ pass.pc = "delete" /\ ~pass.snap.policy.noDelete
  /\ remote' = [remote EXCEPT ![pass.snap.name] = NoGroup]
  /\ lost' = lost \union Losing(pass.snap.name)
  /\ left' = IF pass.snap.st \in {NoName, pass.snap.name}
             THEN left ELSE left \union {pass.csg}
  /\ Reply([pass EXCEPT !.pc = "release"])
  /\ UNCHANGED <<k8s, job>>

DeleteSkipped ==
  /\ SkipCall("delete", pass.snap.policy.noDelete, "release")
  /\ left' = left \union {pass.csg}

\* The finalizer is removed by an update, which the webhook validates as well.
RemoveFinalizer ==
  /\ pass # NoPass /\ pass.pc = "release"
  /\ IF pass.fresh /\ validateResourceUnicity(pass.csg, pass.snap.name)
     THEN /\ Store(pass.csg, Gone)
          /\ pass' = NoPass
          /\ UNCHANGED <<queue, slip>>
     ELSE Abort(pass) /\ UNCHANGED <<obj, dirty>>
  /\ UNCHANGED <<cache, edits, renamed, contested, remote, job, faults, left, lost>>

-----------------------------------------------------------------------------
(***************************************************************************)
(* The passes over services: what they do about groups.                    *)
(***************************************************************************)
Member(s, n) == remote[n] # NoGroup /\ s \in remote[n].members

\* The call failed: the service is queued again.
Requeue(s) ==
  job' = [job EXCEPT ![s] = Queued] /\ lost' = lost \ {s}

\* The other groups of the service, which its resource does not name.
Others(s) == { n \in Name \ {Groups[s]} : Member(s, n) }

\* After the first call, or without it, the pass leaves the other groups.
Rest(s) == IF Others(s) = {} THEN Idle ELSE [pc |-> "leave", drop |-> Others(s)]

\* DiffService finds the service in its group.
InGroup(s) ==
  /\ job[s].pc = "queued" /\ Member(s, Groups[s])
  /\ job' = [job EXCEPT ![s] = Rest(s)]
  /\ UNCHANGED <<k8s, queue, pass, remote, faults, ghosts>>

Joined(s) == [remote EXCEPT ![Groups[s]].members = @ \union {s}]

\* Mutant of SetServiceGroups: the refusal of the group is swallowed.
SetServiceGroupsOnce(s) ==
  /\ job[s].pc = "queued" /\ ~Member(s, Groups[s])
  /\ remote' = IF remote[Groups[s]] # NoGroup THEN Joined(s) ELSE remote
  /\ job' = [job EXCEPT ![s] = Rest(s)]
  /\ UNCHANGED <<k8s, queue, pass, faults, ghosts>>

\* SetServiceGroups.  Centreon refuses a group it does not know, and the service
\* is queued again: a stutter.
SetServiceGroups(s) ==
  /\ job[s].pc = "queued" /\ ~Member(s, Groups[s])
  /\ remote[Groups[s]] # NoGroup
  /\ remote' = Joined(s)
  /\ job' = [job EXCEPT ![s] = Rest(s)]
  /\ UNCHANGED <<k8s, queue, pass, faults, ghosts>>

\* DeleteServiceGroups.
DeleteServiceGroups(s) ==
  /\ job[s].pc = "leave"
  /\ IF \A n \in job[s].drop : remote[n] # NoGroup
     THEN /\ remote' = [n \in Name |->
               IF n \in job[s].drop THEN [remote[n] EXCEPT !.members = @ \ {s}]
                                    ELSE remote[n]]
          /\ job' = [job EXCEPT ![s] = Idle]
          /\ UNCHANGED lost
     ELSE Requeue(s) /\ UNCHANGED remote
  /\ UNCHANGED <<k8s, queue, pass, faults, slip, left>>

\* A call fails; the first one may have been applied.
JobFails(s) ==
  /\ faults < MaxFaults /\ faults' = faults + 1
  /\ \/ job[s].pc = "leave" /\ UNCHANGED remote
     \/ /\ job[s].pc = "queued" /\ ~Member(s, Groups[s])
        /\ remote[Groups[s]] # NoGroup /\ remote' = Joined(s)
  /\ Requeue(s)
  /\ UNCHANGED <<k8s, queue, pass, slip, left>>

\* The operator stops and starts again: it looks at every resource afresh.
Restart ==
  /\ faults < MaxFaults /\ faults' = faults + 1
  /\ pass' = NoPass
  /\ cache' = obj /\ dirty' = {}
  /\ queue' = {c \in CSG : obj[c] \in Obj}
  /\ job' = [s \in Service |-> Queued]
  /\ slip' = IF pass # NoPass /\ pass.moved THEN slip \union {pass.csg} ELSE slip
  /\ lost' = {}
  /\ UNCHANGED <<obj, remote, edits, renamed, contested, left>>

-----------------------------------------------------------------------------
User(c) == ValidateCreate(c) \/ ValidateUpdate(c) \/ UserDelete(c)

Reconcile(c) ==
  \/ ReconcileAbsent(c) \/ AddFinalizer(c) \/ ReconcileDelete(c)
  \/ ReconcileCreate(c) \/ ReconcileUpdate(c) \/ ReconcileNoDiff(c)

Work ==
  \/ CreateSkipped \/ CreateAdd \/ CreateFill
  \/ UpdateSkipped \/ UpdateSetCfg \/ UpdateRename
  \/ WriteStatus \/ DeleteRemote \/ DeleteSkipped \/ RemoveFinalizer

UpdateService(s) == InGroup(s) \/ SetServiceGroups(s) \/ DeleteServiceGroups(s)

Next ==
  \/ \E c \in CSG : User(c) \/ CacheSync(c) \/ Reconcile(c)
  \/ Work \/ CallFails
  \/ \E s \in Service : UpdateService(s) \/ JobFails(s)
  \/ Restart

Spec == Init /\ [][Next]_vars

-----------------------------------------------------------------------------
(***************************************************************************)
(* Properties.                                                             *)
(***************************************************************************)

Owned(c) == {n \in Name : remote[n] # NoGroup /\ remote[n].owner = c}

\* Two resources admitted with one name, each validated before the cache showed
\* the other, do not both get past the validation of the finalizer update, as
\* long as no edit ever gave that name to a resource or took it from one.
UniqueUnlessRenamed ==
  \A c, d \in CSG :
    (/\ c # d
     /\ obj[c] \in Obj /\ obj[c].fin
     /\ obj[d] \in Obj /\ obj[d].fin
     /\ obj[c].name = obj[d].name) => obj[c].name \in contested

\* No pass deletes or renames the group that another resource wrote last and
\* still has, although groups are addressed by the name in the spec, unless an
\* edit gave that name to a resource or took it from one.
OthersKept ==
  [][\A n \in Name \ contested :
       (remote[n] # NoGroup /\ remote'[n] = NoGroup) =>
         \/ remote[n].owner = pass.csg
         \/ obj[remote[n].owner] = Gone]_remote

\* Unless a pass was cut after it created or renamed the group, or skipped the
\* rename by policy, a group that a resource created or wrote last is the one
\* its status names, or the one the running pass works on: the next pass finds
\* it, although the rename was made among other calls in any order.
StatusTracksGroup ==
  \A c \in CSG \ slip :
    \A n \in Owned(c) :
      \/ obj[c] \in Obj /\ obj[c].st = n
      \/ c \in left
      \/ pass # NoPass /\ pass.csg = c /\ pass.at = n

\* What the passes do to groups is what a reconciler of remote objects promises:
\* they write for resources that have the finalizer only, and one loses it only
\* when no group of it is left, unless its policy says so, it was deleted between
\* a rename and the pass that would have applied it (the deletion uses the new
\* name), or it was renamed and a pass of it slipped.
Promise == INSTANCE RemoteObject WITH
  Resource <- CSG, Identity <- Name, Nobody <- NoGroup, Foreign <- NoGroup,
  Again <- FALSE,
  kept <- {c \in CSG : obj[c] \in Obj /\ obj[c].fin},
  owner <- [n \in Name |-> IF remote[n] = NoGroup THEN NoGroup ELSE remote[n].owner],
  excused <- left \union (slip \intersect renamed)

ImplementsPromise == Promise!Spec

\* A service is looked at until it has joined its group, whichever of the two
\* resources came first and however often its passes failed for want of the
\* group; only one whose group was taken away after it had joined is left alone.
RestingServiceJoined ==
  \A s \in Service :
    (job[s].pc = "idle" /\ s \notin lost) => Member(s, Groups[s])

Plain(p) == ~p.noCreate /\ ~p.noUpdate /\ ~p.noDelete /\ p.exclude = {}

\* No event, no key and no pass of c is on its way.
Resting(c) == c \notin dirty \union queue /\ (pass # NoPass => pass.csg # c)

\* The operator does not rest before the group of a resource is what the resource
\* says, although any pass may have been cut after any of its calls; nothing
\* but an edit of the names disturbs it afterwards.
RestingGroupInSync ==
  \A c \in CSG :
    (/\ Resting(c)
     /\ obj[c] \in Obj /\ obj[c].fin /\ ~obj[c].deleting
     /\ Plain(obj[c].policy) /\ obj[c].name \notin contested)
    => /\ remote[obj[c].name] # NoGroup
       /\ remote[obj[c].name].cfg = obj[c].cfg
=============================================================================
