----------------------------- MODULE Templates -----------------------------
(***************************************************************************)
(* The resources (children) the operator generates from templates for the  *)
(* Ingresses, Routes, Namespaces, Nodes and TLS Secrets (parents) that     *)
(* name templates in an annotation.                                        *)
(*                                                                         *)
(* A pass for a parent renders its templates, lists the children that      *)
(* carry the parent's label, and creates, updates and deletes children     *)
(* until they are the rendered ones.  Parents, templates and children are  *)
(* read from the informer caches, which lag; their events, where the       *)
(* filter lets them through, wake the parents.  The label is the parent's  *)
(* namespace and name, without its kind.                                   *)
(***************************************************************************)
EXTENDS Naturals, FiniteSets, Sequences

CONSTANTS
  Parent,      \* objects that may be annotated (a kind, a namespace, a name)
  Label,       \* values "<namespace>.<name>" of the label of a parent
  LabelOf,     \* LabelOf[p]: the label of p's children
  Template,    \* names of templates
  Annotation,  \* the lists of templates an annotation may hold
  Name, Body,  \* names and contents of children
  Content,     \* what templates render: a function of the parent
  Nothing,     \* ... an empty text: the template asks for no child
  Failure,     \* ... an error
  Initial,     \* the objects that may exist when the operator first starts
  NoLabel, NoObj, NoPass,
  MaxUid,      \* bound: how many parents are created
  MaxEdits,    \* bound: how many edits of parents, templates and children
  MaxFaults    \* bound: how many calls fail and how often the operator stops

Rendered == [name : Name, body : Body]

ParentObj == [templates : Annotation, uid : 1..MaxUid]

Child ==
  [owner : Parent, uid : 1..MaxUid, label : Label \union {NoLabel}, body : Body]

Call == [op : {"create", "update", "delete"}, name : Name, body : Body]

Pass == [uid : 1..MaxUid, todo : SUBSET Call, stale : SUBSET Name]

ASSUME LabelAssumption == LabelOf \in [Parent -> Label]
ASSUME AnnotationAssumption == Annotation \subseteq Seq(Template) /\ <<>> \in Annotation
ASSUME ContentAssumption ==
  Content \subseteq [Parent -> Rendered \union {Nothing, Failure}]
ASSUME InitialAssumption ==
  Initial \subseteq [ parent : [Parent -> {o \in ParentObj : o.uid = 1} \union {NoObj}],
                      template : [Template -> Content \union {NoObj}],
                      child : [Name -> {o \in Child : o.uid = 1} \union {NoObj}] ]
ASSUME BoundAssumption ==
  MaxUid \in Nat \ {0} /\ MaxEdits \in Nat /\ MaxFaults \in Nat
ASSUME DisjointAssumption == Parent \intersect Template = {}
ASSUME AbsentAssumption ==
  /\ {Nothing, Failure} \intersect Rendered = {} /\ Nothing # Failure
  /\ NoObj \notin ParentObj \union Child \union Content
  /\ NoLabel \notin Label /\ NoPass \notin Pass

VARIABLES
  parent, template, child,  \* the objects in the API server, or NoObj
  seenParent, seenTemplate, seenChild,  \* the operator's copies of them
  dirty,    \* the parents and templates with a version the caches have not received
  feed,     \* feed[n]: the versions of child n that they have not, in order
  queue,    \* the parents waiting for a pass
  pass,     \* pass[p]: the pass that runs for p, or NoPass
  born, edits, faults

api == <<parent, template, child>>
caches == <<seenParent, seenTemplate, seenChild>>
vars == <<api, caches, dirty, feed, queue, pass, born, edits, faults>>

TypeOK ==
  /\ {parent, seenParent} \subseteq [Parent -> ParentObj \union {NoObj}]
  /\ {template, seenTemplate} \subseteq [Template -> Content \union {NoObj}]
  /\ {child, seenChild} \subseteq [Name -> Child \union {NoObj}]
  /\ dirty \subseteq Parent \union Template
  /\ feed \in [Name -> Seq(Child \union {NoObj})]
  /\ queue \subseteq Parent
  /\ pass \in [Parent -> Pass \union {NoPass}]
  /\ born \in 1..MaxUid /\ edits \in 0..MaxEdits /\ faults \in 0..MaxFaults

\* The names the templates may give to children of p.
NamesOf(p) == { c[p].name : c \in { d \in Content : d[p] \in Rendered } }

-----------------------------------------------------------------------------
(***************************************************************************)
(* The filter of events, and whom they wake.                               *)
(***************************************************************************)

isMonitoringTemplateAnnotation(o) == o # NoObj /\ (o # NoObj => o.templates # <<>>)

isGeneratedFromTemplate(o) == o # NoObj /\ (o # NoObj => o.label # NoLabel)

\* Mutant of ViewParent: the new version alone decides.
ViewParentNew(old, new) ==
  isMonitoringTemplateAnnotation(IF new = NoObj THEN old ELSE new)

\* A parent whose annotation was just removed is seen, too.
ViewParent(old, new) ==
  isMonitoringTemplateAnnotation(old) \/ isMonitoringTemplateAnnotation(new)

\* Of a child the new version decides, or the last one when it is deleted.
ViewChild(old, new) == isGeneratedFromTemplate(IF new = NoObj THEN old ELSE new)

\* Mutant of Owners: the parents are found by label.
OwnersByLabel(old, new) == { o.label : o \in {old, new} \ {NoObj} }

\* Owns: the owners of both versions are woken.
Owners(old, new) == { o.owner : o \in {old, new} \ {NoObj} }

\* The templates under which a parent is indexed.
templateIndexer(o) ==
  IF o = NoObj THEN {} ELSE { o.templates[i] : i \in DOMAIN o.templates }

\* Mutant of WatchTemplate: nobody is woken.
WatchNothing(t) == {}

\* The cached parents that are indexed under t.
WatchTemplate(t) == { p \in Parent : t \in templateIndexer(seenParent[p]) }

\* What the informers deliver first: every object that passes the filter.
Relisted ==
  { p \in Parent : isMonitoringTemplateAnnotation(parent[p]) }
    \union { child[n].owner : n \in {m \in Name : isGeneratedFromTemplate(child[m])} }

Init ==
  /\ \E i \in Initial : parent = i.parent /\ template = i.template /\ child = i.child
  /\ seenParent = parent /\ seenTemplate = template /\ seenChild = child
  /\ dirty = {} /\ feed = [n \in Name |-> <<>>] /\ queue = Relisted
  /\ pass = [p \in Parent |-> NoPass]
  /\ born = 1 /\ edits = 0 /\ faults = 0

-----------------------------------------------------------------------------
(***************************************************************************)
(* Users and the cluster.                                                  *)
(***************************************************************************)

\* Passes that read an older version of n will be refused their update of it.
Outdate(passes, n) ==
  [p \in Parent |-> IF passes[p] = NoPass THEN NoPass
                    ELSE [passes[p] EXCEPT !.stale = @ \union {n}]]

WriteParent(p, o) ==
  /\ o # parent[p]
  /\ parent' = [parent EXCEPT ![p] = o] /\ dirty' = dirty \union {p}
  /\ UNCHANGED <<template, child, caches, feed, queue, pass, faults>>

CreateParent(p) ==
  /\ parent[p] = NoObj /\ born < MaxUid /\ born' = born + 1
  /\ \E a \in Annotation : WriteParent(p, [templates |-> a, uid |-> born + 1])
  /\ UNCHANGED edits

Annotate(p) ==
  /\ parent[p] # NoObj /\ edits < MaxEdits /\ edits' = edits + 1
  /\ \E a \in Annotation : WriteParent(p, [parent[p] EXCEPT !.templates = a])
  /\ UNCHANGED born

DeleteParent(p) ==
  /\ parent[p] # NoObj
  /\ WriteParent(p, NoObj)
  /\ UNCHANGED <<born, edits>>

WriteTemplate(t) ==
  /\ edits < MaxEdits /\ edits' = edits + 1
  /\ \E c \in (Content \union {NoObj}) \ {template[t]} :
       template' = [template EXCEPT ![t] = c]
  /\ dirty' = dirty \union {t}
  /\ UNCHANGED <<parent, child, caches, feed, queue, pass, born, faults>>

SetChild(n, o) ==
  child' = [child EXCEPT ![n] = o] /\ feed' = [feed EXCEPT ![n] = Append(@, o)]

WriteChild(n, o) ==
  /\ SetChild(n, o) /\ pass' = Outdate(pass, n)
  /\ UNCHANGED <<parent, template, caches, dirty, queue, born, faults>>

\* A user deletes or changes a child.
EditChild(n) ==
  /\ child[n] # NoObj /\ edits < MaxEdits /\ edits' = edits + 1
  /\ \/ WriteChild(n, NoObj)
     \/ \E b \in Body \ {child[n].body} : WriteChild(n, [child[n] EXCEPT !.body = b])

Garbage(n) ==
  /\ child[n] # NoObj
  /\ child[n] # NoObj => LET o == parent[child[n].owner] IN
                         o # NoObj => o.uid # child[n].uid

\* Kubernetes deletes a child when the object that owns it is gone.
CollectGarbage(n) == Garbage(n) /\ WriteChild(n, NoObj) /\ UNCHANGED edits

\* The informers deliver the latest version of a parent or a template.
SyncParent(p) ==
  /\ p \in dirty /\ dirty' = dirty \ {p}
  /\ seenParent' = [seenParent EXCEPT ![p] = parent[p]]
  /\ queue' = queue \union IF ViewParent(seenParent[p], parent[p]) THEN {p} ELSE {}
  /\ UNCHANGED <<api, seenTemplate, seenChild, feed, pass, born, edits, faults>>

SyncTemplate(t) ==
  /\ t \in dirty /\ dirty' = dirty \ {t}
  /\ seenTemplate' = [seenTemplate EXCEPT ![t] = template[t]]
  /\ queue' = queue \union WatchTemplate(t)
  /\ UNCHANGED <<api, seenParent, seenChild, feed, pass, born, edits, faults>>

\* ... and each version of a child.
SyncChild(n) ==
  /\ feed[n] # <<>> /\ feed' = [feed EXCEPT ![n] = Tail(@)]
  /\ seenChild' = [seenChild EXCEPT ![n] = Head(feed[n])]
  /\ queue' = queue \union IF ViewChild(seenChild[n], Head(feed[n]))
                           THEN Owners(seenChild[n], Head(feed[n])) ELSE {}
  /\ UNCHANGED <<api, seenParent, seenTemplate, dirty, pass, born, edits, faults>>

-----------------------------------------------------------------------------
(***************************************************************************)
(* A pass.                                                                 *)
(***************************************************************************)

\* A template that is not found is skipped.
Process(p, t, templates) == IF templates[t] = NoObj THEN Nothing ELSE templates[t][p]

\* The children p asks for; of several with one name the first is kept.
ExpectedObjects(p, list, templates) ==
  LET r == [i \in DOMAIN list |-> Process(p, list[i], templates)]
      made == { i \in DOMAIN list : r[i] \in Rendered }
  IN { r[i] : i \in { j \in made : \A k \in made : k < j => r[k].name # r[j].name } }

getLabels(p) == LabelOf[p]

\* Mutant of Listed: every child in the namespace.
ListedAll(p) == { n \in Name : seenChild[n] # NoObj }

\* The children with the label of p.
Listed(p) ==
  { n \in Name : seenChild[n] # NoObj /\ (seenChild[n] # NoObj => seenChild[n].label = LabelOf[p]) }

\* The calls that turn the current children, the listed ones and those that have
\* the name of an expected one, into the expected ones.
Diff(p) ==
  LET expected == ExpectedObjects(p, seenParent[p].templates, seenTemplate)
      missing == { e \in expected : seenChild[e.name] = NoObj }
      changed == { e \in expected \ missing :
                     \/ seenChild[e.name].body # e.body
                     \/ seenChild[e.name].label # getLabels(p) }
  IN { [op |-> "create", name |-> e.name, body |-> e.body] : e \in missing }
       \union { [op |-> "update", name |-> e.name, body |-> e.body] : e \in changed }
       \union { [op |-> "delete", name |-> n, body |-> seenChild[n].body] :
                  n \in Listed(p) \ { e.name : e \in expected } }

Take(p) == p \in queue /\ pass[p] = NoPass /\ queue' = queue \ {p}

ReconcileAbsent(p) ==
  /\ Take(p) /\ seenParent[p] = NoObj
  /\ UNCHANGED <<api, caches, dirty, feed, pass, born, edits, faults>>

\* Read and Diff.  A template that fails puts the key back: nothing changes.
Read(p) ==
  /\ Take(p) /\ seenParent[p] # NoObj
  /\ \A i \in DOMAIN seenParent[p].templates :
       Process(p, seenParent[p].templates[i], seenTemplate) # Failure
  /\ pass' = [pass EXCEPT ![p] =
       IF Diff(p) = {} THEN NoPass
       ELSE [uid |-> seenParent[p].uid, todo |-> Diff(p),
             stale |-> {n \in Name : feed[n] # <<>>}]]
  /\ UNCHANGED <<api, caches, dirty, feed, born, edits, faults>>

Abort(p) == pass' = [pass EXCEPT ![p] = NoPass] /\ queue' = queue \union {p}

Rest(p, c) ==
  IF pass[p].todo = {c} THEN NoPass ELSE [pass[p] EXCEPT !.todo = @ \ {c}]

\* A call was applied: the pass goes on, or it never learns of it.
Apply(p, c, o) ==
  /\ SetChild(c.name, o)
  /\ \/ /\ pass' = Outdate([pass EXCEPT ![p] = Rest(p, c)], c.name)
        /\ UNCHANGED <<queue, faults>>
     \/ /\ faults < MaxFaults /\ faults' = faults + 1
        /\ pass' = Outdate([pass EXCEPT ![p] = NoPass], c.name)
        /\ queue' = queue \union {p}

Refuse(p) == Abort(p) /\ UNCHANGED <<child, feed, faults>>

Create(p, c) ==
  /\ c.op = "create"
  /\ IF child[c.name] = NoObj
     THEN Apply(p, c, [owner |-> p, uid |-> pass[p].uid, label |-> getLabels(p),
                       body |-> c.body])
     ELSE Refuse(p)

\* Refused on a stale version.  The owner reference may be kept, replaced, or
\* make the update fail when it is another object's.
Update(p, c) ==
  /\ c.op = "update"
  /\ IF c.name \in pass[p].stale \/ child[c.name] = NoObj
     THEN Refuse(p)
     ELSE LET old == child[c.name]
              new == [old EXCEPT !.label = getLabels(p), !.body = c.body] IN
          \/ Apply(p, c, new)
          \/ /\ <<old.owner, old.uid>> # <<p, pass[p].uid>>
             /\ \/ Apply(p, c, [new EXCEPT !.owner = p, !.uid = pass[p].uid])
                \/ Refuse(p)

Delete(p, c) ==
  /\ c.op = "delete"
  /\ \/ Apply(p, c, NoObj)
     \/ child[c.name] = NoObj /\ Refuse(p)

Work(p) ==
  /\ pass[p] # NoPass
  /\ \E c \in pass[p].todo : Create(p, c) \/ Update(p, c) \/ Delete(p, c)
  /\ UNCHANGED <<parent, template, caches, dirty, born, edits>>

CallFails(p) ==
  /\ pass[p] # NoPass /\ faults < MaxFaults /\ faults' = faults + 1
  /\ Abort(p)
  /\ UNCHANGED <<api, caches, dirty, feed, born, edits>>

\* The operator stops and starts again.
Restart ==
  /\ faults < MaxFaults /\ faults' = faults + 1
  /\ seenParent' = parent /\ seenTemplate' = template /\ seenChild' = child
  /\ dirty' = {} /\ feed' = [n \in Name |-> <<>>] /\ queue' = Relisted
  /\ pass' = [p \in Parent |-> NoPass]
  /\ UNCHANGED <<api, born, edits>>

-----------------------------------------------------------------------------
Next ==
  \/ \E p \in Parent : \/ CreateParent(p) \/ Annotate(p) \/ DeleteParent(p)
                       \/ SyncParent(p) \/ ReconcileAbsent(p) \/ Read(p)
                       \/ Work(p) \/ CallFails(p)
  \/ \E t \in Template : WriteTemplate(t) \/ SyncTemplate(t)
  \/ \E n \in Name : EditChild(n) \/ CollectGarbage(n) \/ SyncChild(n)
  \/ Restart

Spec == Init /\ [][Next]_vars

\* The informers deliver, the garbage collector runs, and each controller serves
\* the keys of its queue in turn.
Fairness ==
  /\ \A p \in Parent :
       /\ WF_vars(SyncParent(p)) /\ WF_vars(ReconcileAbsent(p) \/ Read(p))
       /\ WF_vars(Work(p))
  /\ \A t \in Template : WF_vars(SyncTemplate(t))
  /\ \A n \in Name : WF_vars(CollectGarbage(n)) /\ WF_vars(SyncChild(n))

FairSpec == Spec /\ Fairness

-----------------------------------------------------------------------------
(***************************************************************************)
(* Properties.                                                             *)
(***************************************************************************)

\* Nothing is left to do: no event, no key, no pass, no garbage.
Settled ==
  /\ dirty = {} /\ queue = {} /\ \A p \in Parent : pass[p] = NoPass
  /\ \A n \in Name : feed[n] = <<>> /\ ~Garbage(n)

\* The labelled children of p are the ones its annotation and templates ask for.
Current(p) ==
  LET expected == IF parent[p] = NoObj THEN {}
                  ELSE ExpectedObjects(p, parent[p].templates, template)
  IN /\ \A e \in expected :
          /\ child[e.name] # NoObj
          /\ child[e.name].owner = p /\ child[e.name].label = LabelOf[p]
          /\ child[e.name].body = e.body
     /\ \A n \in Name :
          (isGeneratedFromTemplate(child[n]) /\ child[n].owner = p)
             => \E e \in expected : e.name = n

\* Once settled every parent has the children its annotation and the templates
\* that exist ask for, and no other: no event that matters is filtered away, and
\* none came while a pass that did not know of it was the last.
ChildrenAreCurrent == Settled => \A p \in Parent : Current(p)

Fails(p) ==
  /\ parent[p] # NoObj
  /\ \E i \in DOMAIN parent[p].templates :
       Process(p, parent[p].templates[i], template) = Failure

\* Eventually every parent whose templates render has its children, and only
\* them, for good.
Converges == \A p \in Parent : <>[](Current(p) \/ Fails(p))

\* The comment on the list of current objects: "Get all existing objects created
\* from parent": a pass deletes only children that were created for its parent.
DeletesOwn ==
  [][\A p \in Parent, n \in Name :
       (/\ child[n] # NoObj /\ child'[n] = NoObj
        /\ pass[p] # NoPass
        /\ pass'[p] = NoPass \/ (pass'[p] # NoPass => pass'[p].todo # pass[p].todo))
         => child[n].owner = p]_vars
=============================================================================
