----------------------------- MODULE Platforms -----------------------------
(***************************************************************************)
(* The map of Centreon clients the controllers share, and the Platform     *)
(* resources and secrets it is computed from.                              *)
(*                                                                         *)
(* The operator first fills the map from a list read before its informers  *)
(* run (ComputedPlatformList); then the Platform controller, one worker,   *)
(* keeps it: a pass reads the cached resource and the cached secret, and   *)
(* creates, updates or deletes the entry of that name.  The entry of the   *)
(* default platform is also stored under the key "default" (DefaultKey).   *)
(* The other controllers take their client from the map (GetClient).       *)
(***************************************************************************)
EXTENDS Naturals, FiniteSets

CONSTANTS
  Plat,        \* names of platforms
  DefaultKey,  \* the key "default" of the map
  Secret,      \* names of secrets
  Settings,    \* the other settings of a platform: URL, certificate checks, debug
  Cred,        \* contents of a secret (all a client depends on)
  NoCred, NoObj, NoEntry, NoPass,
  MayDemote,   \* TRUE if users may edit isDefault of a platform
  MaxUid,      \* bound: how many platforms are created
  MaxEdits,    \* bound: how many edits of platforms and secrets
  MaxFaults    \* bound: how many failed logins and stops of the operator

Key == Plat \union {DefaultKey}

PlatformSpec == [isDefault : BOOLEAN, secret : Secret, settings : Settings]

Obj == [spec : PlatformSpec, uid : 1..MaxUid, fin : BOOLEAN, deleting : BOOLEAN]

ComputedPlatform == [name : Plat, spec : PlatformSpec, hash : Cred]

Pass ==
  [plat : Plat, snap : Obj, computed : ComputedPlatform \union {NoEntry},
   fresh : BOOLEAN, pc : {"put", "delete", "release"}]

ASSUME BoundAssumption ==
  MaxUid \in Nat /\ MaxEdits \in Nat /\ MaxFaults \in Nat /\ MayDemote \in BOOLEAN
ASSUME AbsentAssumption ==
  /\ NoCred \notin Cred /\ NoObj \notin Obj /\ NoPass \notin Pass
  /\ NoEntry \notin ComputedPlatform

VARIABLES
  obj,        \* obj[p]: the Platform in the API server
  cache,      \* cache[p]: the operator's copy of it
  dirty,      \* the platforms with a version the cache has not received
  secret,     \* secret[s]: the content of a secret, or NoCred
  seen,       \* seen[s]: the operator's copy of it
  phase,      \* of the operator: not running, map filled, informers running
  queue,      \* the keys waiting for the worker
  pass,       \* the pass the worker runs, or NoPass
  platforms,  \* the map: platforms[k] is an entry, or NoEntry
  born, edits, faults,
  missed      \* ghost: platforms listed at the last start without a finalizer

vars == <<obj, cache, dirty, secret, seen, phase, queue, pass, platforms,
          born, edits, faults, missed>>

TypeOK ==
  /\ obj \in [Plat -> Obj \union {NoObj}]
  /\ cache \in [Plat -> Obj \union {NoObj}]
  /\ dirty \subseteq Plat
  /\ secret \in [Secret -> Cred \union {NoCred}]
  /\ seen \in [Secret -> Cred \union {NoCred}]
  /\ phase \in {"down", "listed", "up"}
  /\ queue \subseteq Plat
  /\ pass \in Pass \union {NoPass}
  /\ platforms \in [Key -> ComputedPlatform \union {NoEntry}]
  /\ born \in 0..MaxUid /\ edits \in 0..MaxEdits /\ faults \in 0..MaxFaults
  /\ missed \subseteq Plat

Empty == [p \in Plat |-> NoObj]

Init ==
  /\ obj = Empty /\ cache = Empty /\ dirty = {}
  /\ secret \in [Secret -> Cred \union {NoCred}]
  /\ seen = [s \in Secret |-> NoCred]
  /\ phase = "down" /\ queue = {} /\ pass = NoPass
  /\ platforms = [k \in Key |-> NoEntry]
  /\ born = 0 /\ edits = 0 /\ faults = 0 /\ missed = {}

\* The client of a platform, computed from its spec and its secret's content.
getComputedCentreonPlatform(p, spec, cred) ==
  [name |-> p, spec |-> spec, hash |-> cred]

\* The entry a resource with that platformRef uses ("" is the default).
GetClient(ref) == platforms[IF ref = "" THEN DefaultKey ELSE ref]

-----------------------------------------------------------------------------
(***************************************************************************)
(* Start-up and stop.                                                      *)
(***************************************************************************)

\* The map is filled from the API server; platforms without a secret or that
\* refuse the login are skipped, and any other error skips them all.  When
\* several entries claim the key "default" the last one listed keeps it.
ComputedPlatformList ==
  /\ phase = "down"
  /\ \E skipped \in SUBSET Plat :
       LET listed == { p \in Plat \ skipped :
                         obj[p] # NoObj /\ secret[obj[p].spec.secret] # NoCred }
           entry(p) == getComputedCentreonPlatform(p, obj[p].spec,
                                                   secret[obj[p].spec.secret])
           claims == { p \in listed : obj[p].spec.isDefault \/ p = DefaultKey }
       IN /\ \E d \in claims \union {NoEntry} :
               /\ d = NoEntry <=> claims = {}
               /\ platforms' = [k \in Key |->
                    IF k = DefaultKey
                    THEN IF claims = {} THEN NoEntry ELSE entry(d)
                    ELSE IF k \in listed THEN entry(k) ELSE NoEntry]
          /\ missed' = { p \in listed : ~obj[p].fin }
  /\ phase' = "listed"
  /\ UNCHANGED <<obj, cache, dirty, secret, seen, queue, pass, born, edits, faults>>

\* The informers list everything and enqueue it; the webhooks are served.
StartInformers ==
  /\ phase = "listed"
  /\ phase' = "up"
  /\ cache' = obj /\ dirty' = {}
  /\ seen' = secret
  /\ queue' = { p \in Plat : obj[p] # NoObj }
  /\ UNCHANGED <<obj, secret, pass, platforms, born, edits, faults, missed>>

Stop ==
  /\ phase # "down" /\ faults < MaxFaults
  /\ phase' = "down" /\ faults' = faults + 1
  /\ cache' = Empty /\ dirty' = {} /\ queue' = {} /\ pass' = NoPass
  /\ seen' = [s \in Secret |-> NoCred]
  /\ platforms' = [k \in Key |-> NoEntry]
  /\ missed' = {}
  /\ UNCHANGED <<obj, secret, born, edits>>

-----------------------------------------------------------------------------
(***************************************************************************)
(* Users, the API server, the webhook (it fails closed when the operator   *)
(* does not run) and the informers.                                        *)
(***************************************************************************)

\* Mutant: the webhook looks at no other platform.
validateUnicityNever(uid, isDefault) == TRUE

\* No other cached platform has the same value of isDefault.
validateUnicityOfDefaultPlatform(uid, isDefault) ==
  \A q \in Plat :
    (cache[q] # NoObj /\ cache[q].spec.isDefault = isDefault) => cache[q].uid = uid

Store(p, o) ==
  /\ obj' = [obj EXCEPT ![p] = o]
  /\ dirty' = dirty \union {p}

\* A user's write: the running pass' own writes to p will be refused.
UserWrite(p, o) ==
  /\ Store(p, o)
  /\ pass' = IF pass # NoPass /\ pass.plat = p THEN [pass EXCEPT !.fresh = FALSE]
                                               ELSE pass
  /\ UNCHANGED <<cache, secret, seen, phase, queue, platforms, faults, missed>>

ValidateCreate(p) ==
  /\ phase = "up" /\ obj[p] = NoObj /\ born < MaxUid
  /\ born' = born + 1
  /\ \E spec \in PlatformSpec :
       /\ validateUnicityOfDefaultPlatform(born + 1, spec.isDefault)
       /\ UserWrite(p, [spec |-> spec, uid |-> born + 1,
                        fin |-> FALSE, deleting |-> FALSE])
  /\ UNCHANGED edits

ValidateUpdate(p) ==
  /\ phase = "up" /\ obj[p] # NoObj /\ edits < MaxEdits
  /\ edits' = edits + 1
  /\ \E spec \in PlatformSpec \ {obj[p].spec} :
       /\ MayDemote \/ spec.isDefault = obj[p].spec.isDefault
       /\ validateUnicityOfDefaultPlatform(obj[p].uid, spec.isDefault)
       /\ UserWrite(p, [obj[p] EXCEPT !.spec = spec])
  /\ UNCHANGED born

\* Deletion is not validated, so it needs no operator.
UserDelete(p) ==
  /\ obj[p] # NoObj /\ ~obj[p].deleting
  /\ UserWrite(p, IF obj[p].fin THEN [obj[p] EXCEPT !.deleting = TRUE] ELSE NoObj)
  /\ UNCHANGED <<born, edits>>

WriteSecret(s) ==
  /\ edits < MaxEdits
  /\ edits' = edits + 1
  /\ \E c \in (Cred \union {NoCred}) \ {secret[s]} :
       secret' = [secret EXCEPT ![s] = c]
  /\ UNCHANGED <<obj, cache, dirty, seen, phase, queue, pass, platforms, born,
                 faults, missed>>

CacheSync(p) ==
  /\ phase = "up" /\ p \in dirty
  /\ cache' = [cache EXCEPT ![p] = obj[p]]
  /\ dirty' = dirty \ {p}
  /\ queue' = queue \union {p}
  /\ UNCHANGED <<obj, secret, seen, phase, pass, platforms, born, edits, faults, missed>>

\* Mutant: a changed secret wakes nobody.
watchNothing(s) ==
  /\ phase = "up" /\ seen[s] # secret[s]
  /\ seen' = [seen EXCEPT ![s] = secret[s]]
  /\ UNCHANGED <<obj, cache, dirty, secret, phase, queue, pass, platforms, born,
                 edits, faults, missed>>

\* A changed secret enqueues the cached platforms that name it.
watchCentreonPlatformSecret(s) ==
  /\ phase = "up" /\ seen[s] # secret[s]
  /\ seen' = [seen EXCEPT ![s] = secret[s]]
  /\ queue' = queue \union
       { p \in Plat : cache[p] # NoObj /\ cache[p].spec.secret = s }
  /\ UNCHANGED <<obj, cache, dirty, secret, phase, pass, platforms, born, edits,
                 faults, missed>>

-----------------------------------------------------------------------------
(***************************************************************************)
(* A pass.  One that fails before it changed anything (secret missing,     *)
(* finalizer update refused) is put back on the queue: it is a stutter.    *)
(***************************************************************************)
Take(p) ==
  /\ phase = "up" /\ pass = NoPass /\ p \in queue
  /\ queue' = queue \ {p}

Begin(p, pc, computed) ==
  /\ pass' = [plat |-> p, snap |-> cache[p], computed |-> computed,
              fresh |-> p \notin dirty, pc |-> pc]
  /\ UNCHANGED <<obj, cache, dirty, secret, seen, phase, platforms, born, edits,
                 faults, missed>>

ReconcileAbsent(p) ==
  /\ Take(p)
  /\ cache[p] = NoObj
  /\ UNCHANGED <<obj, cache, dirty, secret, seen, phase, pass, platforms, born,
                 edits, faults, missed>>

\* The finalizer is added by an update, which the webhook validates too.
AddFinalizer(p) ==
  /\ Take(p)
  /\ cache[p] # NoObj /\ ~cache[p].fin /\ p \notin dirty
  /\ validateUnicityOfDefaultPlatform(cache[p].uid, cache[p].spec.isDefault)
  /\ Store(p, [cache[p] EXCEPT !.fin = TRUE])
  /\ UNCHANGED <<cache, secret, seen, phase, pass, platforms, born, edits, faults,
                 missed>>

ReconcileDelete(p) ==
  /\ Take(p)
  /\ cache[p] # NoObj /\ cache[p].fin /\ cache[p].deleting
  /\ Begin(p, "delete", NoEntry)

\* Mutant of Diff: only the client's configuration is compared.
DiffHash(current, expected) ==
  current # NoEntry => current.hash # expected.hash

\* There is no entry, or one with another client or another spec.
Diff(current, expected) ==
  current # NoEntry => \/ current.hash # expected.hash
                       \/ current.spec # expected.spec

\* What Read expects for p; it fails when the secret is missing.
Readable(p) ==
  /\ cache[p] # NoObj /\ cache[p].fin /\ ~cache[p].deleting
  /\ seen[cache[p].spec.secret] # NoCred

\* Mutant of Read: the object Build returned is kept, without client and hash.
ReadBuilt(p) == getComputedCentreonPlatform(p, cache[p].spec, NoCred)

Read(p) ==
  getComputedCentreonPlatform(p, cache[p].spec, seen[cache[p].spec.secret])

\* Mutant: the entry is stored before the finalizer.
ReconcilePutEarly(p) ==
  /\ Take(p)
  /\ cache[p] # NoObj /\ ~cache[p].deleting
  /\ seen[cache[p].spec.secret] # NoCred
  /\ Diff(platforms[p], Read(p))
  /\ Begin(p, "put", Read(p))

ReconcilePut(p) ==
  /\ Take(p) /\ Readable(p)
  /\ Diff(platforms[p], Read(p))
  /\ Begin(p, "put", Read(p))

ReconcileNoDiff(p) ==
  /\ Take(p) /\ Readable(p)
  /\ ~Diff(platforms[p], Read(p))
  /\ UNCHANGED <<obj, cache, dirty, secret, seen, phase, pass, platforms, born,
                 edits, faults, missed>>

Work == pass # NoPass
Retry == pass' = NoPass /\ queue' = queue \union {pass.plat}

\* The login fails: the entry stays what it was.
AuthFails ==
  /\ Work /\ pass.pc = "put"
  /\ faults < MaxFaults /\ faults' = faults + 1
  /\ Retry
  /\ UNCHANGED <<obj, cache, dirty, secret, seen, phase, platforms, born, edits, missed>>

\* Mutant of KeysOf: the alias takes the place of the name.
KeysOfAlias(p, isDefault) == IF isDefault THEN {DefaultKey} ELSE {p}

\* The keys an entry is stored under and removed from.
KeysOf(p, isDefault) == IF isDefault THEN {p, DefaultKey} ELSE {p}

\* Create, which Update calls too, after the login.
Create ==
  /\ Work /\ pass.pc = "put"
  /\ platforms' = [k \in Key |->
       IF k \in KeysOf(pass.plat, pass.snap.spec.isDefault)
       THEN pass.computed ELSE platforms[k]]
  /\ pass' = NoPass
  /\ UNCHANGED <<obj, cache, dirty, secret, seen, phase, queue, born, edits,
                 faults, missed>>

\* Mutant: the alias outlives its platform.
DeleteNameOnly ==
  /\ Work /\ pass.pc = "delete"
  /\ platforms' = [platforms EXCEPT ![pass.plat] = NoEntry]
  /\ pass' = [pass EXCEPT !.pc = "release"]
  /\ UNCHANGED <<obj, cache, dirty, secret, seen, phase, queue, born, edits,
                 faults, missed>>

Delete ==
  /\ Work /\ pass.pc = "delete"
  /\ platforms' = [k \in Key |->
       IF k \in KeysOf(pass.plat, pass.snap.spec.isDefault)
       THEN NoEntry ELSE platforms[k]]
  /\ pass' = [pass EXCEPT !.pc = "release"]
  /\ UNCHANGED <<obj, cache, dirty, secret, seen, phase, queue, born, edits,
                 faults, missed>>

\* The finalizer is removed by a validated update, on the version that was read.
RemoveFinalizer ==
  /\ Work /\ pass.pc = "release"
  /\ IF /\ pass.fresh
        /\ validateUnicityOfDefaultPlatform(pass.snap.uid, pass.snap.spec.isDefault)
     THEN Store(pass.plat, NoObj) /\ pass' = NoPass /\ UNCHANGED queue
     ELSE Retry /\ UNCHANGED <<obj, dirty>>
  /\ UNCHANGED <<cache, secret, seen, phase, platforms, born, edits, faults, missed>>

-----------------------------------------------------------------------------
Reconcile(p) ==
  \/ ReconcileAbsent(p) \/ AddFinalizer(p) \/ ReconcileDelete(p)
  \/ ReconcilePut(p) \/ ReconcileNoDiff(p)

User(p) == ValidateCreate(p) \/ ValidateUpdate(p) \/ UserDelete(p)

Calls == Create \/ Delete \/ RemoveFinalizer

Next ==
  \/ ComputedPlatformList \/ StartInformers \/ Stop
  \/ \E p \in Plat : User(p) \/ CacheSync(p) \/ Reconcile(p)
  \/ \E s \in Secret : WriteSecret(s) \/ watchCentreonPlatformSecret(s)
  \/ Calls \/ AuthFails

Spec == Init /\ [][Next]_vars

\* The operator is started again, its informers deliver, and its work queue
\* serves every key in turn.
Fairness ==
  /\ WF_vars(ComputedPlatformList) /\ WF_vars(StartInformers) /\ WF_vars(Calls)
  /\ \A p \in Plat : WF_vars(CacheSync(p)) /\ SF_vars(Reconcile(p))
  /\ \A s \in Secret : WF_vars(watchCentreonPlatformSecret(s))

FairSpec == Spec /\ Fairness

-----------------------------------------------------------------------------
(***************************************************************************)
(* Properties.                                                             *)
(***************************************************************************)

\* A platform that is gone has no entry under its name, so no resource is sent
\* to it, unless the operator listed it at its start before it had the finalizer:
\* it may then have been deleted before the informers ran.
GoneHasNoEntry ==
  \A p \in Plat \ (missed \union {DefaultKey}) :
    obj[p] = NoObj => platforms[p] = NoEntry

\* No two platforms that agree on isDefault ever both have the finalizer, hence
\* an entry, however late the cache the webhook looks at (isDefault is not edited):
\* the update that adds the finalizer is validated too.
OneFinalized ==
  \A p, q \in Plat :
    (/\ obj[p] # NoObj /\ obj[p].fin
     /\ obj[q] # NoObj /\ obj[q].fin
     /\ obj[p].spec.isDefault = obj[q].spec.isDefault) => p = q

\* Nothing is left to do: no event, no key, no pass.
Settled ==
  phase = "up" /\ dirty = {} /\ seen = secret /\ queue = {} /\ pass = NoPass

Live(p) == obj[p] # NoObj /\ obj[p].fin /\ ~obj[p].deleting

Wanted(p) ==
  getComputedCentreonPlatform(p, obj[p].spec, secret[obj[p].spec.secret])

\* Once settled, a platform's entry is the client its latest spec and its
\* latest secret describe, whatever the order in which their events came and
\* whichever passes read one without the other.
EntryIsCurrent ==
  Settled => \A p \in Plat \ {DefaultKey} : Live(p) => platforms[p] = Wanted(p)

\* Once settled, the default entry is the entry of a platform that exists, so a
\* resource without a platformRef is never sent to another one's, an old or a
\* deleted client (isDefault is not edited, no platform was missed at start-up).
DefaultIsAnEntry ==
  (Settled /\ missed = {} /\ GetClient("") # NoEntry) =>
    LET d == GetClient("").name IN
      obj[d] # NoObj /\ obj[d].spec.isDefault /\ platforms[d] = GetClient("")

\* Once settled, a resource without a platformRef gets the current client of the
\* platform that is the only default one (isDefault is not edited, no platform
\* was missed at start-up), whichever platforms claimed to be it before.
DefaultIsServed ==
  (Settled /\ missed = {}) =>
    \A p \in Plat :
      (/\ Live(p) /\ obj[p].spec.isDefault
       /\ \A q \in Plat \ {p} : obj[q] = NoObj \/ ~obj[q].spec.isDefault)
      => GetClient("") = Wanted(p)

\* The other controllers see the map as PlatformMap says: entries come, change and
\* go, each under the name of its platform, whatever passes, stops and secrets do
\* in between.
Map == INSTANCE PlatformMap WITH Entry <- ComputedPlatform

ImplementsMap == Map!Spec

\* A platform that is the only one with its value of isDefault and whose secret
\* exists is eventually served, by its current client, although logins fail and
\* the operator stops.
Served ==
  \A p \in Plat \ {DefaultKey} :
    <>[]((/\ obj[p] # NoObj /\ ~obj[p].deleting
          /\ secret[obj[p].spec.secret] # NoCred
          /\ \A q \in Plat \ {p} :
               obj[q] = NoObj \/ obj[q].spec.isDefault # obj[p].spec.isDefault)
         => platforms[p] = Wanted(p))

\* The comment on IsDefault: "use this plateform when is not specify on resource
\* to create": once settled, the default client is one of a default platform.
DefaultIsDefault ==
  (Settled /\ missed = {} /\ GetClient("") # NoEntry) =>
    \E p \in Plat : obj[p] # NoObj /\ obj[p].spec.isDefault

\* The comment on the webhook: "Check that only one platform as default": a new
\* platform that is not the default is admitted.
NonDefaultAdmitted ==
  phase = "up" => validateUnicityOfDefaultPlatform(born + 1, FALSE)
=============================================================================
