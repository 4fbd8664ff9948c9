# Verification of the monitoring operator

The monitoring operator is a Kubernetes operator. It watches custom resources and cluster objects and makes a Centreon
server monitor them. This directory holds TLA+ models of its parts, the TLC configurations that check them on small
instances, and TLAPS proofs of what matters most for every instance.

## 1. The system

| Component | State it keeps | Operations | Interacts with |
|---|---|---|---|
| CentreonService reconciler (`internal/controller/centreon/centreonservice_*.go`) | the resource's spec, status and finalizer in the API server; the service on Centreon | one pass per key: finalizer, get, diff, create/update/delete, status | API server (through a cache and through writes), platforms map, centreonhandler |
| CentreonServiceGroup reconciler (`centreonservicegroup_*.go`) | the same for service groups | the same | the same |
| Platform reconciler (`internal/controller/platform/`) | `platforms`, one map from platform name (and `"default"`) to a Centreon client, shared by every controller and guarded by nothing | fill it at start-up, create/update/delete an entry, re-read a changed secret | API server, secrets, the two reconcilers above (`GetClient`) |
| Template/Sentinel reconcilers (`internal/controller/{template,ingress,route,namespace,node,certificate}`) | the CentreonService(Group) resources generated from templates, labelled with their parent | list children by label, build expected ones, create/update/delete | API server; their output is the input of the first two |
| Admission webhooks (`api/v1/*_webhook.go`) | none; they list from the informer cache | validate create, validate update | API server, indexers |
| centreonhandler (`pkg/centreonhandler`) | none | diff of two services; sequences of API calls that create, update, delete | Centreon |
| start-up (`cmd/main.go`) | none | builds the manager, the indexers, the webhooks, the platforms map and the controllers | all |
| annotations migration (`scripts/migrate_annotations`) | none | one-shot rewrite of annotations | API server |
| `operator-sdk-extra`, `go-centreon-rest`, controller-runtime | work queues, caches | the order of a pass, retries, API calls | not in the repository; modelled from how `src/` uses them |

### What is hard in it

* The operator never sees the API server, only a cache that lags. The webhook reads the same cache, so what it admits may
  conflict with what the server already has.
* A service has no identifier that survives a rename: it *is* its host and name. The status of the resource is the only
  memory of where the service was, and it is written last, after calls that may have been applied without an answer.
* Create and update are sequences of independent calls (the update's in the random order of a Go map), with no
  transaction; each one may be the last of its pass, and the next pass starts over from what it finds.
* The status write is refused when the user edited the resource during the pass, which undoes the memory, not the calls.
* The webhook also judges the operator's own updates, the ones that add and remove the finalizer.
* Policies turn calls into no-ops that count as success, while the status is written as if they had been made.
* The platforms map is written by one controller and read by others, has an alias entry under the name `"default"`, and is
  first filled from a list read before the informers run.
* A group may not exist yet when a service asks for it, or may go away later; nothing tells the service.
* The client of a platform is looked up once per pass, and no resource is told when its platform appears, moves or goes.
* The migration of annotations lists a kind once and updates one object after the other, with one list variable for all.
* Children of a template are found by a label that holds the parent's namespace and name, not its kind.

### What makes each part correct

* Reconcilers: nothing is written to Centreon for a resource without its finalizer; a resource owns at most one service
  and its status names it; a deleted resource leaves nothing; without faults everything converges, deletion included.
* Platforms: an entry's client is the one the resource and its secret describe; a deleted platform has no entry; the
  default alias names the platform that is the default.
* Sentinel: every child comes from a template of its parent and no object's children are touched by another.
* Handler: applying the difference of two services makes them equal on every field that is not ignored.
* Webhooks: two resources never target the same object of the same platform; the platform of a resource never changes.

Counters, wording of events and logs, prometheus metrics and the conditions other than the fields named in the models are
left out everywhere.

## 2. The plan

| # | Module | Composes / refines | State |
|---|---|---|---|
| 1 | `CentreonService` (+`MC`, `Proofs`) | webhook, API server, cache, worker and Centreon in one; implements `RemoteObject` | done; every safety property and the refinement proved |
| 2 | `Platforms` (+`MC`, `Proofs`) | start-up list, webhook, secrets, controller, shared map; implements `PlatformMap` | done; every safety property and the refinement proved |
| 3 | `CentreonHandler` (+`MC`, `Proofs`) | the inside of the update actions of `CentreonService`; implements `ServiceUpdate` | done; every safety property and the refinement proved |
| 4 | `Templates` (+`MC`, `Proofs`) | five template controllers, garbage collector | done; every safety property proved |
| 5 | `CentreonServiceGroup` (+`MC`, `Proofs`) | reconciler, webhook and handler of the groups, services that wait for their group; implements `RemoteObject` | done; every safety property and the refinement proved |
| 6 | `Targets` (+`MC`, `Proofs`) | `PlatformMap` and the passes over resources; implements `RemoteObject` | done; types and the refinement proved |
| 7 | `RemoteObject` (+`Proofs`), `PlatformMap`, `ServiceUpdate` | the abstract specifications | done; `NoOrphan` and `RefIsHonoured` proved |
| 8 | `MigrateAnnotations` (+`MC`, `Proofs`) | the one-shot rewrite, interrupted and repeated | done; both properties proved |

Every invariant, action property and refinement that a passing run checks is also a theorem. What stays with TLC is liveness.
Left: a theorem that takes the services' part of `CentreonServiceGroup` to the passes of `CentreonService`, which are modelled
apart, and weaker hypotheses where section 6 says that a theorem has one.

## 3. The modules and the code

Every definition that stands for code is listed in `PROJECT.json` with its lines. Each component is three modules: the
specification, a module `...MC` that gives its constants small values, and, where something is proved, a module `...Proofs`. A definition whose comment
starts with "Mutant of" is a plausible bug of the definition after it. It is not part of the specification; each property
is shown to fail when a definition is replaced by its mutant.

### CentreonService

State: `obj` (the resources in the API server: identity, configuration, policy, status, finalizer, deletion), `cache` (the
informer's copy, which `CacheSync` brings up to date one key at a time, skipping versions), `req` (a write the webhook has
judged and the server not yet stored), `queue`, `pass` (the one pass the worker runs), `remote` (the services).

Actions: `ValidateCreate`, `ValidateUpdate`, `Persist`, `UserDelete` are users and the API server; the webhook reads
`cache`, so two writes validated at the same time may conflict. `AddFinalizer`, `ReconcileDelete`, `ReconcileCreate`,
`ReconcileUpdate` and `ReconcileNoDiff` begin a pass from the cached copy; then come the calls to Centreon, one action each,
every one of which may fail, before or after it had its effect (`CallFails`, `Reply`), or be the last before a `Restart`;
`WriteStatus` ends the pass and is refused when the resource has changed. `UpdateSetCfg`, `UpdateRename` and `UpdateSetHost`
follow `UpdateService`: parameters, the name among them, in any order, the host last. `UpdateSetCfg` may leave the service
`Partly` described: a new template or command takes away macros that the old one brought (see `CentreonHandler`), and the
event of the status write starts the update that sets them. It leaves that only once in a row.

The ghosts `slip` and `left` name the resources for which the code does lose track of a service, so that the properties
cannot show these cases right; the hazards they stand for say so in `PROJECT.json`: a pass that was cut
after it created or moved the service, a move the policy skipped, a rename followed by a deletion before the next pass, a
deletion the policy skipped. The properties say that *nothing else* does; `ImplementsPromise` says it as a refinement of
`RemoteObject`, where these resources are `excused`.

Abstractions: one platform (its immutability is checked by the webhook); the fields other than host and name are one value
of `Cfg`, `Partly` such a value, or `Bare` for a service that was only added; nobody changes a service behind the operator's back, and there is no
periodic resync; a failed pass that changed nothing is a stutter. The webhook's refusal of empty fields restricts the inputs.

### Platforms

State: `obj`, `cache`, `dirty`, `queue`, `pass` as above; `secret` and `seen` (the operator's copy of the secrets); `phase`
of the process; `platforms`, the shared map, from names and from `DefaultKey` to entries; `missed`, a ghost.

Actions: `ComputedPlatformList` fills the map from a direct list; one unusable secret empties it. `StartInformers` then
lists again for the cache, and `Stop` loses everything. A pass computes the client from cached resource and cached secret
(`Read`), compares it with the entry (`Diff`) and writes the entry, under its name and, for the default platform, under
`DefaultKey` (the two map writes are one step). `watchCentreonPlatformSecret` wakes the cached platforms that name a changed
secret. A client is abstracted to what it is built from: name, spec (isDefault, secret, one value for the
other settings) and hash of the secret.

The properties of the default entry hold while users leave isDefault alone (`MayDemote`). Setting it back is finding 2.
Setting it on a platform that already has its finalizer, before the cache shows another default one, leaves two default
platforms with finalizers, and the deletion of one then takes the other's default entry away.

A platform whose name is itself "default" shares the key of the alias; the properties are stated for the other names.

`PlatformMap` is what the other controllers may rely on: entries come, change and go, one platform at a time, under the
name of their platform and perhaps under `DefaultKey`. `ImplementsMap` is the refinement (the map is the same variable).

### CentreonHandler

State: `actual`, the service on Centreon with the macros set on itself; `expected`, the one the resource describes;
`ignored`, the excluded fields; `pc`, `todo` and `at`, the running update or creation, its remaining calls and the identity
they use; `settles`, what the update promises, from the calls it started with.

`DiffService` is the comparison, field by field, as a set of calls; `Stage` and `Turn` give the order `UpdateService` makes
them in, arbitrary within the map of parameters; `Effects` is what Centreon does for one call: a password flag given as empty
comes back as "0" (`NoPassword`). A call that is refused or lost ends the pass (`CallFails`). `SetServiceGroups` and
`SetCategories` add, the deletions remove.

`GetMacros` is what the comparison sees: the macros set on the service and, where it has none of that name, those its
template and its command bring (`Brought`, any function of their values). `DiffService` does not look at the source when it
looks for a macro (`centreon_service.go:282-295`), so a macro may be as described because the template brings it; and a call
that sets the template or the command (`Brings`) changes what is brought in the middle of an update whose calls for the macros
follow the comparison made before. So an update that makes such a call settles everything but macros of the resource, which
may be missing now, and the next update sets those on the service and settles the rest (`UpdateSettles`). No update deletes a
macro that is only inherited (`OnlyOwnDeleted`). `ExcludedUntouched` is about the macros of the service itself: when macros are
excluded and the template is not, the inherited ones change with it.

What Centreon returns is an assumption: a brought macro is not "direct", or has no value, which is what the comment at
`centreon_service.go:298-299` says. Templates and commands are not edited on Centreon in the meantime.

`ServiceUpdate` is the same at the level of detail of `CentreonService`: an identity and one bit for all the other fields.
`Update` maps `actual` and `todo` to it, and `ImplementsUpdate` shows that `CreateAdd`, `UpdateSetCfg`, `UpdateRename` and
`UpdateSetHost` are fair summaries of the calls, `Partly` included: in an update that sets the template or the command the bit
may come and go (`SetSome`) and be down after the last call (`SetCfg`), never twice in a row unless an update is cut.
One thing shows there that `CentreonService` does not say: a creation skips
fields that are empty, so the service may need one more update (`Fill` leaves `same` open, where `CreateFill` settles it).

### Templates

State: `parent`, `template`, `child` in the API server; `seenParent`, `seenTemplate`, `seenChild` in the caches; `dirty` and
`feed`, the versions on their way; `queue` and `pass` for each parent.

Parents and templates reach the cache as their latest version, children one version after the other, because the creation
and the deletion of a child are two events and each wakes its owner. `ViewParent` and `ViewChild` are the event filter,
`Owners` the owner watch, `templateIndexer` and `WatchTemplate` the index of parents by template, `Relisted` the events at start-up. `Read` renders
the templates (`ExpectedObjects`), lists the labelled children (`Listed`) and the objects that bear an expected name, and
derives the calls (`Diff`). `Create`, `Update` and `Delete` are each refused or applied, and an applied call may be lost to
the pass that made it. `CollectGarbage` removes a child whose owner is gone; the operator itself does nothing then.

Abstractions: the reads of one pass are one step; passes of different parents interleave freely, also of parents of one
kind, which the code serves one at a time; the calls of a pass come in any order; whether an update of an object that
another one owns keeps the owner, replaces it or fails is left open; a child disappears when its deletion ends, so one that
waits for its finalizer counts as present. What templates render is a function from parents to a child, nothing, or an error.

### CentreonServiceGroup

State as in `CentreonService`, with `remote[n]` the group of that name, its parameters, the resource that wrote it last and
its `members`; `job`, what the worker of the services does with each service.

The passes over groups are those of the services with what differs: the identity is the name alone, `CreateServiceGroup`
refuses an empty description (`CreateAdd`) although the field is `+optional`, so such a group is never created; the rename
comes at any place among the parameters; Centreon drops the memberships of a group it deletes. `SetServiceGroups` is refused
while the group is missing, and the service is queued again; `InGroup` is the pass that finds it there;
`DeleteServiceGroups` leaves the groups the resource does not name. The webhook's check and the store are one step here:
two resources with one name are still admitted, because the check reads the cache.

The ghosts `slip` and `left` are those of `CentreonService`; `lost` are the services whose group was taken away, by its
deletion or its rename, after they had joined: no event tells them and they stay without it; `contested` are the names that
an edit gave or took, where resources may meet although the webhook refuses duplicates. A rename that was cut before the
status was written leaves a resource that looks for its old group and finds the new name taken, by itself.

### RemoteObject, Targets

`RemoteObject` is the promise of a reconciler: it writes and moves objects for resources it keeps, and releases a resource
only when it owns nothing, or is excused. It deletes for resources it keeps; where outdated copies are delivered again
(`Again`, in `Targets`), a pass over one may delete once more after the release. `CentreonService`, `CentreonServiceGroup` and
`Targets` implement it.

`Targets` composes the map with the passes. State: `platforms` (the variable of `PlatformMap`), `up`, `obj`, `cache`, `queue`,
`pass`, which keeps the server of the client it began with (`GetRemoteHandler`), and `remote`, the writer of *one* service on
every server, so that two resources meet on every server they share. `ChangePlatform` is a pass of the Platform controller: it
enqueues nothing. `GetClient` without an entry fails the pass before anything else, the deletion included. `Resync` is
the informer's periodic delivery, the only way a running operator ever learns that a platform moved. The webhook compares
`platformRef`s: the default platform's name and no name are different to it, so two resources may describe one service.

Passes and the webhook read `cache`, which `CacheSync` brings up to date. So two resources with one identity *and* one
`platformRef` may both be stored, and the webhook, which judges the updates that add and remove the finalizer like any other
(`centreonservice_webhook.go:111-136`), then refuses to release either one for as long as both remain and the platform is
served, until a user gives one of them another name. `DeletionCompletes` excepts this pair, here as in `CentreonService`. As
all resources describe one service here, two with the same `platformRef` are such a pair.

### MigrateAnnotations

State: `annotation` of every object, `listed` (the version listed), `todo`, `found` (the variable the lists are decoded
into), `stale` (objects that others wrote since: the API server refuses the tool's update). `Leaves`, `Update` and `Refused`
are the outcomes for one object, the first error ends the run, and the run may be started again. An object without
annotation is judged by what `found` still holds (`Decoded`), which is harmless because the old reference is replaced in the
variable itself. A malformed annotation ends every run and leaves the objects after it as they are. References give both of
their fields, as the README of the operator shows them: `Decoded` replaces the whole list, whereas a reference that omits a
field would keep what the object before left in that element of the slice, and no property speaks of such references. The
old and the new reference differ.

## 4. The runs

`tlc -config X.cfg M` for each; passing ones take half a minute to three minutes with two workers.

| Run | Bounds | Shows |
|---|---|---|
| `service_fixed` (487k states) | 2 resources, 1 host, 1 name, 2 configurations, each also partly applied, fixed identities, services found on Centreon, 1 edit, 1 fault | types; two resources with a finalizer never share a service; none is let go before its service although every call may be the last of its pass; every service converges, every deletion completes |
| `service_rename` (3.7M) | 2 resources that are renamed and moved, 2 hosts, policies noUpdate and exclude "name" | nothing reaches Centreon without the finalizer; apart from the listed causes the status names the only service of a resource, also when one update changes name, fields and host and stops between them |
| `service_status_doc` | 1 resource under noUpdate | finding 1 |
| `platforms` (723k) | 2 platforms, 1 secret, 2 contents, 2 settings, 2 creations in all, 1 edit, 1 failed login or stop | entries and default entry follow resources and secrets, whichever event comes first; two platforms of one kind never both get the finalizer, although the webhook reads a late cache; the map implements the abstract one; a platform that is alone with its value of isDefault is served eventually |
| `platforms_default_doc`, `platforms_unicity_doc` | the same | findings 2 and 3 |
| `handler` (445k) | every service of 1 template and 1 command that bring a macro (with a value, without, none), 2 lists of 1 member, 1 macro; 4 exclusions, one of the macros and the command; 1 fault | updates settle, those of a template or command but for macros it took away, reach their service, leave excluded fields alone, delete no inherited macro, end, and implement the abstract update |
| `templates` (426k) | 2 parents (one created later, either deleted), 2 templates that ask for one child, both contents, nothing and an error, 1 child without labels, 1 edit, 1 fault or stop | the children become and stay what is asked for; nobody else's are deleted |
| `templates_shared_label` | the same, one label for both parents | finding 4 |
| `group` (2.0M) | 2 resources, 2 names, 2 configurations (one refused), 1 service, no policy or one that forbids every call, 1 edit, 1 fault | a group is found again after any cut pass, apart from the listed causes; resources keep off each other's groups; a service waits for its group and joins it; a group at rest is what its resource says |
| `targets` (292k) | 2 resources with one service, 1 platform and the alias, 2 servers, 1 change of a running map besides start-ups, 1 fault | a resource is let go while its service remains only if its passes went to several servers, although caches are late; its deletion waits for a missing platform and completes with it, unless another resource with its `platformRef` remains; a moved platform is followed |
| `migrate` (5.7M) | 2 objects of one kind, 1 of the next, lists of up to 2 references, 2 edits by others, 1 failed request | the tool changes an annotation only by replacing the reference in it; a completed run leaves none |

Why these bounds are enough: every conflict in the code is between two actors (two resources that want one name, two
platforms that want to be the default, a pass and an edit, a resource and its secret, two parents with one label), so two of
each kind meet every conflict once, and one fault at any point of a pass followed by complete passes covers the recovery
from any of its intermediate states. A second fault meets a state the first one leaves or that a shorter run reaches. Counters
are bounded in the guards of users and faults only: the operator's own steps are never bounded, so it never stops early.
Where a theorem covers a property the bounds are of no importance.

Deadlock is not checked: the system may be quiescent, with nothing to do and no edit left.

Symmetry is used in safety runs only. Several secrets, more
than two platforms and longer histories of them are covered by the theorems only.

## 5. Fairness

* Passes and the calls in them are weakly fair: the worker runs on, and a call answers or fails. Faults are bounded, so
  "eventually" means once they are over; the work queue retries for ever with a back-off.
* The beginning of a pass for a key is strongly fair where keys share a worker (`CentreonService`, `Platforms`): the queue
  is first in, first out, so no key is overtaken for ever. In `Templates` each parent has its own pass and weak fairness is enough.
* Deliveries to the caches are weakly fair: informers re-establish their watches.
* In `Targets` the resync of each resource is weakly fair: informers deliver every object again after their period (ten hours
  by default, nothing in `cmd/main.go` sets another), and only these events make a service follow its platform. Events that
  change nothing are not filtered out by the controllers of services and groups.
* A stopped operator is started again (the deployment restarts the pod), and the garbage collector of Kubernetes runs.
* Users, faults and stops have no fairness.

## 6. The proofs

`tlapm M.tla` for the eight proof modules. All results hold for every value of the constants that meets the assumptions in
the specifications: those say that the "absent" values differ from the present ones, that bounds are numbers, in `Templates`
that the objects found at the beginning bear the first uid (Kubernetes uses none twice), and in `CentreonHandler` that macros
which are brought are not direct or have no value (`InheritedAssumption`). These theorems have hypotheses of
their own: `UniqueTheorem` of the services (identities are not edited), `OneTheorem`, `DefaultEntryTheorem` and
`DefaultServedTheorem` (see `PlatformsProofs`), and the two of `TemplatesProofs`.

* `CentreonServiceProofs`. `TypeCorrect` needs one conjunct more than `TypeOK`: a pass that fills or updates has a service
  to work on (`PassHasService`), or its write would be to no record. `FinalizerTheorem`: the pass that makes calls read a
  copy with the finalizer; a copy shows the finalizer only if the server has it (`CacheFollows`), a pending write of a user
  keeps it unless the version it was made to is outdated (`RequestFollows`), so the running pass (`PassFollows`) and the
  owner of every service (`OwnerFinalized`) have it. `UniqueTheorem` (identities fixed): two resources may be admitted with
  one identity, but a resource that has its finalizer is in the cache, because the worker read it there before it added the
  finalizer, and with its own identity (`SameId`); so the update that would give the other one its finalizer is refused.
  `StatusTheorem` and `OneServiceTheorem` (with renames): the properties hold of every version of the status only because a
  pass starts from the status the server has. The cache may lag in everything else, but a key is queued only with the
  version the cache received, and a status is written only by the pass (`StatusSeen`, `ReqStatus`, `PassSeen`); so every
  pass begins at the one service of its resource, and a status that differs from it means that the running pass has moved it
  or that the resource slipped (`Tracked`). `PromiseTheorem`: with renames, by `Tracked`; with fixed identities slips are no
  excuse, and a resource owns nothing but the service of its spec, which every pass works on and a deletion removes, even
  when the status is empty because the pass that added the service was cut (`FixedInv`).
* `PlatformsProofs`. `GoneTheorem` and `CurrentTheorem` from one inductive invariant (`MapInv`): a cache without pending
  versions agrees with the server, a pass works on a version that had the finalizer, an entry bears its key's name and
  belongs to a platform that has the finalizer or was missed at start-up, and a key that neither waits nor is worked on has
  the entry its cached resource and cached secret describe (`EntryFollows`).
  `MapTheorem` needs less: the default entry at start-up comes from the platforms listed, and each step of the controller
  is one `Put`, one `Remove`, `Fill`, `Clear` or a stutter of the map.
  `OneTheorem`, when isDefault is not edited (`~MayDemote`): the update that adds the finalizer is validated against the
  cache, and a platform with a finalizer is in that cache with its isDefault, because the worker read it there and because
  start-up fills the cache before any pass (`OneInv`). `DefaultEntryTheorem` and `DefaultServedTheorem` add that no platform
  is named as the alias: the default entry is that of the one default platform with a finalizer, equal to its own entry
  (`DefaultInv`), which is current by `MapInv`. The code enforces neither hypothesis. Without the first the properties fail
  (finding 2); without the second two platforms write one key (a hazard no property covers).
* `RemoteObjectProofs`. `NoOrphanTheorem` is about the abstract promise, so it holds of all three modules that implement
  it: only kept resources write, and a release needs that nothing is owned. The `OrphanTheorem` of each of the three carries
  it over through the refinement, in the words of its module: whatever the operator wrote on a server belongs to a resource
  that exists and has its finalizer, or is excused.
* `TargetsProofs`. `HonouredTheorem` is about `PlatformMap` and holds of `Platforms` by `MapTheorem`. `PromiseTheorem`: the
  copy a pass reads never shows a finalizer the resource does not have, unless the resource was released, which the copy then
  saw coming (`CacheFollows`); so a pass that writes has a resource with the finalizer, and the writer of a service has it
  too or its passes addressed several servers; a pass that is to remove the finalizer has deleted the service of the only
  server its resource ever used.
* `CentreonHandlerProofs`. The invariant says that the remaining calls are exactly the remaining differences
  (`TodoFits`, `PassDiffers`), so an update that makes all its calls leaves none; while an update that sets the template or
  the command runs, macros to be set are left out of it. Two lemmas state what one call does to
  its own field (`EffectsSettle`) and to the others (`EffectsFrame`), a third when what is inherited stays (`BroughtStays`).
  `OnlyOwnTheorem`: what the comparison would delete is direct and has a value, so it was set on the service itself, and no
  call of the update but its own deletion takes it away. `UpdateTheorem` needs one conjunct more: each call that
  is left removes a difference that is still there (`TodoDiffers`), so the one bit of `ServiceUpdate` stays down until the
  last call that counts, and the calls before it are stutters.
* `TemplatesProofs`. `DeletesOwnTheorem` has an assumption, `Apart`: parents have labels of their own, templates give them
  names of their own, and the first children respect both. The code checks neither, and finding 4 is a run without the first half. Under it, every version
  of every child, in the server, on its way and in the cache, bears a name and the label of its owner (`ChildrenMade`), so
  a pass only ever names children of its own parent (`CallsMade`). The instance of run `templates` satisfies `Apart`.
  `CurrentTheorem`, under `Apart` too, is about what events may be dropped. What the caches show is the server's state but
  for versions on their way (`Synced`, `Chained`), and no child bears the uid of a parent the operator has not seen
  (`UnseenUnused`), so that a new parent never finds children it would leave alone. A child that is missing, or differs, or
  is too many, has a reason to be looked at again: its parent is queued, the running pass has the call for it, an event that
  the filters let through is on its way, or the garbage collector is due (`WorkKnown`). When nothing is on its way no such
  child is left.
* `CentreonServiceGroupProofs`. The types as for services. `UniqueTheorem`: what the cache shows of a resource with a
  finalizer is its name, unless that name is contested (`SameName`); so the update that would give the finalizer to a second
  one is refused. `JoinedTheorem`: a service past its first call is a member or counted lost, whatever the passes over
  groups do in between, and the groups it is about to leave are others than its own (`JoinedOrLost`).
  `StatusTheorem`, `OthersTheorem`, `RestingTheorem` and `PromiseTheorem` come from one invariant (`GroupInv`): that of the
  services for the status (`TrackInv`); what cache, status, pass and Centreon show of a resource is its name or a contested
  one (`NamedInv`), so a group that a pass deletes or renames is its own or contested; and a resource that was never renamed
  has one group at most, under its name, whatever slipped (`HomeInv`). The proofs split a step by what it stores
  (`StepKind`): a version, a call's effect, a pass, or nothing.
* `MigrateAnnotationsProofs`. The variable that all objects of a kind are decoded into never holds the old reference between
  two objects (`FoundClean`), because it is replaced there; so an object without annotation is never updated, and the
  others are updated to the replacement of their own list, which is still the one listed unless somebody wrote the object
  since (`TodoCurrent`). What the run is done with names the old template no more (`DoneClean`).

Only model-checked: liveness (`Converges`, `DeletionCompletes`, `Served`, `Settles`, `FollowsPlatform`), because fairness and
ENABLED are outside the prover. Each was looked for in the safety it rests on: `RestingGroupInSync`, `EntryIsCurrent`,
`DefaultIsServed`, `ChildrenAreCurrent` and `UpdateSettles` say, for every instance, that the operator never rests in a wrong
state; TLC shows on the small ones that it comes to rest.

Not stated: that `CentreonHandler`'s `Service` is the `remote` of `CentreonService` in one module. The three abstract actions of
`ServiceUpdate` are written like those of `CentreonService` and compared by reading.

## 7. Findings

1. Under `noUpdate` a rename writes the new identity to the status without making the change
   (`centreonservice_reconciler.go:84`, against README.md:162-163). Run `service_status_doc`.
2. A platform whose `isDefault` is set back to false stays in the map as the default one (`platform_api_client.go:45`).
   Run `platforms_default_doc`.
3. A second platform that is not the default is refused (`platform_webhook.go:75`). Run `platforms_unicity_doc`.
4. Two annotated parents of different kinds with one name in one namespace delete each other's children
   (`template_reconciler.go:81`). Run `templates_shared_label`.

## 8. Assumptions about code that is not in the repository

`operator-sdk-extra` decides the order of a pass: get the resource; add the finalizer if it is missing and end the pass; on
deletion call Delete and remove the finalizer; otherwise read, diff, create or update, and write the status, with optimistic
concurrency, after OnSuccess. Its updates pass the webhook like any other, and fail while the operator (hence the webhook)
is down. One worker per controller is the default and nothing changes it. A sentinel pass lists, diffs, creates, updates and
deletes, and sets the parent as the owner of what it creates. `go-centreon-rest` makes one request per call and reports a
refusal as an error. An API server stores an update only if it was made to the latest version. The client of a pass
is asked for before the finalizer and before the deletion. Informers deliver every object again once per resync period.
Centreon keeps the members of a group that is renamed and drops them with a group that is deleted.

## 9. Not modelled

The placeholders that each kind of parent offers, the text of templates, TLS certificates, the network policy, metrics, the
command lines, the build pipeline and generated code: they are data, text or one call at start-up, without a state that
several steps share. A drift caused by somebody who edits Centreon by hand is not noticed by the operator before the next
event of the resource, and no property speaks of it. Children with a finalizer of their own, and children that two parents
give one name, are left out of `Templates`. Resources that exchange their names are left out of the liveness properties: by
several edits before a pass each can wait for the other for ever, and a deletion that follows an exchange addresses the
name the other one has by then; so are, in `Targets`, resources that share a service through the alias and the name of the
default platform.
