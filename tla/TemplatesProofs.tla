-------------------------- MODULE TemplatesProofs --------------------------
(***************************************************************************)
(* Proofs about Templates: its types, that a pass deletes only children of *)
(* its own parent, and that the children are what is asked for once        *)
(* nothing is left to do.                                                  *)
(*                                                                         *)
(* The last two hold when parents have labels of their own and templates   *)
(* give them names of their own, which the code does not see to: these are *)
(* assumptions of the theorems, not of the module.                         *)
(***************************************************************************)
EXTENDS Templates, SequenceTheorems, TLAPS

-----------------------------------------------------------------------------
(* Types. *)

LEMMA ExpectedType ==
  ASSUME NEW p \in Parent, NEW list \in Annotation,
         NEW templates \in [Template -> Content \union {NoObj}],
         NEW e \in ExpectedObjects(p, list, templates)
  PROVE  e \in Rendered /\ e.name \in NamesOf(p)
<1> DEFINE r == [i \in DOMAIN list |-> Process(p, list[i], templates)]
<1>1. PICK i \in DOMAIN list : e = r[i] /\ r[i] \in Rendered
  BY DEF ExpectedObjects
<1>2. list \in Seq(Template)
  BY AnnotationAssumption
<1>3. list[i] \in Template
  BY <1>2
<1>4. e = Process(p, list[i], templates)
  BY <1>1
<1>5. templates[list[i]] # NoObj /\ e = templates[list[i]][p]
  BY <1>1, <1>4, AbsentAssumption DEF Process
<1>6. templates[list[i]] \in Content
  BY <1>3, <1>5
<1> QED
  BY <1>1, <1>5, <1>6 DEF NamesOf

LEMMA DiffType ==
  ASSUME TypeOK, NEW p \in Parent, seenParent[p] # NoObj
  PROVE  Diff(p) \subseteq Call
<1> DEFINE expected == ExpectedObjects(p, seenParent[p].templates, seenTemplate)
<1>1. seenParent[p].templates \in Annotation
  BY DEF TypeOK, ParentObj
<1>2. \A e \in expected : e.name \in Name /\ e.body \in Body
  <2> TAKE e \in expected
  <2>1. e \in Rendered
    BY <1>1, ExpectedType DEF TypeOK
  <2> QED
    BY <2>1 DEF Rendered
<1>3. \A n \in Listed(p) : n \in Name /\ seenChild[n].body \in Body
  BY DEF Listed, TypeOK, Child
<1> QED
  BY <1>2, <1>3 DEF Diff, Call

LEMMA OutdateType ==
  ASSUME NEW passes \in [Parent -> Pass \union {NoPass}], NEW n \in Name
  PROVE  Outdate(passes, n) \in [Parent -> Pass \union {NoPass}]
<1> SUFFICES ASSUME NEW x \in Parent, passes[x] # NoPass
             PROVE  [passes[x] EXCEPT !.stale = @ \union {n}] \in Pass
  BY DEF Outdate
<1>1. passes[x] \in Pass
  OBVIOUS
<1> QED
  BY <1>1 DEF Pass

LEMMA RestType ==
  ASSUME TypeOK, NEW p \in Parent, pass[p] # NoPass, NEW c \in pass[p].todo
  PROVE  /\ c \in Call
         /\ [pass EXCEPT ![p] = Rest(p, c)] \in [Parent -> Pass \union {NoPass}]
<1>1. pass[p] \in Pass
  BY DEF TypeOK
<1>2. c \in Call
  BY <1>1 DEF Pass
<1>3. Rest(p, c) \in Pass \union {NoPass}
  BY <1>1 DEF Rest, Pass
<1> QED
  BY <1>2, <1>3 DEF TypeOK

LEMMA SetChildType ==
  ASSUME TypeOK, NEW n \in Name, NEW o \in Child \union {NoObj}, SetChild(n, o)
  PROVE  /\ child' \in [Name -> Child \union {NoObj}]
         /\ feed' \in [Name -> Seq(Child \union {NoObj})]
<1>1. Append(feed[n], o) \in Seq(Child \union {NoObj})
  BY AppendProperties DEF TypeOK
<1> QED
  BY <1>1 DEF SetChild, TypeOK

LEMMA TypeInit == Init => TypeOK
<1> SUFFICES ASSUME Init PROVE TypeOK
  OBVIOUS
<1>1. PICK i \in Initial : parent = i.parent /\ template = i.template /\ child = i.child
  BY DEF Init
<1>2. /\ parent \in [Parent -> {o \in ParentObj : o.uid = 1} \union {NoObj}]
      /\ template \in [Template -> Content \union {NoObj}]
      /\ child \in [Name -> Child \union {NoObj}]
  BY <1>1, InitialAssumption
<1>3. parent \in [Parent -> ParentObj \union {NoObj}]
  BY <1>2
<1>4. queue \subseteq Parent
  BY <1>2, <1>3, AbsentAssumption DEF Init, Relisted, isGeneratedFromTemplate, Child
<1>5. feed \in [Name -> Seq(Child \union {NoObj})]
  BY DEF Init
<1> QED
  BY <1>2, <1>3, <1>4, <1>5, BoundAssumption DEF Init, TypeOK

LEMMA TypeStep == TypeOK /\ [Next]_vars => TypeOK'
<1> SUFFICES ASSUME TypeOK, [Next]_vars PROVE TypeOK'
  OBVIOUS
<1> USE BoundAssumption
<1>1. ASSUME NEW p \in Parent, CreateParent(p) \/ Annotate(p) \/ DeleteParent(p)
      PROVE  TypeOK'
  <2>1. PICK o \in ParentObj \union {NoObj} : WriteParent(p, o)
    <3>1. CASE CreateParent(p)
      <4>1. PICK a \in Annotation : WriteParent(p, [templates |-> a, uid |-> born + 1])
        BY <3>1 DEF CreateParent
      <4>2. born + 1 \in 1..MaxUid
        BY <3>1 DEF CreateParent, TypeOK
      <4> QED BY <4>1, <4>2 DEF ParentObj
    <3>2. CASE Annotate(p)
      <4>1. PICK a \in Annotation : WriteParent(p, [parent[p] EXCEPT !.templates = a])
        BY <3>2 DEF Annotate
      <4>2. parent[p] \in ParentObj
        BY <3>2 DEF Annotate, TypeOK
      <4> QED BY <4>1, <4>2 DEF ParentObj
    <3> QED BY <1>1, <3>1, <3>2 DEF DeleteParent
  <2>2. born' \in 1..MaxUid /\ edits' \in 0..MaxEdits
    BY <1>1 DEF CreateParent, Annotate, DeleteParent, TypeOK
  <2> QED BY <2>1, <2>2 DEF WriteParent, TypeOK, api, caches
<1>2. ASSUME NEW t \in Template, WriteTemplate(t)
      PROVE  TypeOK'
  BY <1>2 DEF WriteTemplate, TypeOK, caches
<1>3. ASSUME NEW n \in Name, EditChild(n) \/ CollectGarbage(n)
      PROVE  TypeOK'
  <2>1. PICK o \in Child \union {NoObj} : WriteChild(n, o)
    <3>1. ASSUME NEW b \in Body, child[n] # NoObj
          PROVE  [child[n] EXCEPT !.body = b] \in Child
      <4>1. child[n] \in Child
        BY <3>1 DEF TypeOK
      <4> QED BY <4>1 DEF Child
    <3> QED BY <1>3, <3>1 DEF EditChild, CollectGarbage
  <2>2. edits' \in 0..MaxEdits
    BY <1>3 DEF EditChild, CollectGarbage, TypeOK
  <2>3. /\ child' \in [Name -> Child \union {NoObj}]
        /\ feed' \in [Name -> Seq(Child \union {NoObj})]
    BY <2>1, SetChildType DEF WriteChild
  <2>4. pass' \in [Parent -> Pass \union {NoPass}]
    BY <2>1, OutdateType DEF WriteChild, TypeOK
  <2> QED BY <2>1, <2>2, <2>3, <2>4 DEF WriteChild, TypeOK, caches
<1>4. ASSUME NEW p \in Parent, SyncParent(p)
      PROVE  TypeOK'
  BY <1>4 DEF SyncParent, TypeOK, api
<1>5. ASSUME NEW t \in Template, SyncTemplate(t)
      PROVE  TypeOK'
  BY <1>5 DEF SyncTemplate, WatchTemplate, TypeOK, api
<1>6. ASSUME NEW n \in Name, SyncChild(n)
      PROVE  TypeOK'
  <2>1. feed[n] \in Seq(Child \union {NoObj}) /\ feed[n] # <<>>
    BY <1>6 DEF SyncChild, TypeOK
  <2>2. Head(feed[n]) \in Child \union {NoObj} /\ Tail(feed[n]) \in Seq(Child \union {NoObj})
    BY <2>1, HeadTailProperties
  <2>3. Owners(seenChild[n], Head(feed[n])) \subseteq Parent
    BY <2>2 DEF Owners, TypeOK, Child
  <2> QED BY <1>6, <2>2, <2>3 DEF SyncChild, TypeOK, api
<1>7. ASSUME NEW p \in Parent, ReconcileAbsent(p)
      PROVE  TypeOK'
  BY <1>7 DEF ReconcileAbsent, Take, TypeOK, api, caches
<1>8. ASSUME NEW p \in Parent, Read(p)
      PROVE  TypeOK'
  <2>1. Diff(p) \subseteq Call
    BY <1>8, DiffType DEF Read
  <2>2. seenParent[p].uid \in 1..MaxUid
    BY <1>8 DEF Read, TypeOK, ParentObj
  <2>3. [uid |-> seenParent[p].uid, todo |-> Diff(p),
         stale |-> {n \in Name : feed[n] # <<>>}] \in Pass
    BY <2>1, <2>2 DEF Pass
  <2> QED BY <1>8, <2>3 DEF Read, Take, TypeOK, api, caches
<1>9. ASSUME NEW p \in Parent, Work(p)
      PROVE  TypeOK'
  <2>1. PICK c \in pass[p].todo : Create(p, c) \/ Update(p, c) \/ Delete(p, c)
    BY <1>9 DEF Work
  <2>2. c \in Call /\ [pass EXCEPT ![p] = Rest(p, c)] \in [Parent -> Pass \union {NoPass}]
    BY <1>9, RestType DEF Work
  <2>3. pass[p].uid \in 1..MaxUid /\ c.name \in Name /\ c.body \in Body
    BY <1>9, <2>2 DEF Work, TypeOK, Pass, Call
  <2>4. ASSUME NEW o \in Child \union {NoObj}, Apply(p, c, o)
        PROVE  TypeOK'
    <3>1. /\ child' \in [Name -> Child \union {NoObj}]
          /\ feed' \in [Name -> Seq(Child \union {NoObj})]
      BY <2>3, <2>4, SetChildType DEF Apply
    <3>2. [pass EXCEPT ![p] = NoPass] \in [Parent -> Pass \union {NoPass}]
      BY DEF TypeOK
    <3>3. pass' \in [Parent -> Pass \union {NoPass}]
      <4>1. \/ pass' = Outdate([pass EXCEPT ![p] = Rest(p, c)], c.name)
            \/ pass' = Outdate([pass EXCEPT ![p] = NoPass], c.name)
        BY <2>4 DEF Apply
      <4>2. Outdate([pass EXCEPT ![p] = Rest(p, c)], c.name) \in [Parent -> Pass \union {NoPass}]
        BY <2>2, <2>3, OutdateType
      <4>3. Outdate([pass EXCEPT ![p] = NoPass], c.name) \in [Parent -> Pass \union {NoPass}]
        BY <2>3, <3>2, OutdateType
      <4> QED BY <4>1, <4>2, <4>3
    <3>4. queue' \subseteq Parent /\ faults' \in 0..MaxFaults
      BY <2>4 DEF Apply, TypeOK
    <3> QED BY <1>9, <3>1, <3>3, <3>4 DEF Work, TypeOK, caches
  <2>5. ASSUME Refuse(p)
        PROVE  TypeOK'
    BY <1>9, <2>5 DEF Refuse, Abort, Work, TypeOK, caches
  <2>6. CASE Create(p, c)
    <3>1. [owner |-> p, uid |-> pass[p].uid, label |-> getLabels(p), body |-> c.body] \in Child
      BY <2>3, LabelAssumption DEF getLabels, Child
    <3> QED BY <2>4, <2>5, <2>6, <3>1 DEF Create
  <2>7. CASE Update(p, c)
    <3> DEFINE new == [child[c.name] EXCEPT !.label = getLabels(p), !.body = c.body]
    <3>1. CASE Refuse(p)
      BY <2>5, <3>1
    <3>2. CASE ~Refuse(p)
      <4>1. child[c.name] \in Child
        BY <2>3, <2>7, <3>2 DEF Update, TypeOK
      <4>2. new \in Child /\ [new EXCEPT !.owner = p, !.uid = pass[p].uid] \in Child
        BY <2>3, <4>1, LabelAssumption DEF getLabels, Child
      <4> QED BY <2>4, <2>7, <3>2, <4>2 DEF Update
    <3> QED BY <3>1, <3>2
  <2>8. CASE Delete(p, c)
    BY <2>4, <2>5, <2>8 DEF Delete
  <2> QED BY <2>1, <2>6, <2>7, <2>8
<1>10. ASSUME NEW p \in Parent, CallFails(p)
       PROVE  TypeOK'
  BY <1>10 DEF CallFails, Abort, TypeOK, api, caches
<1>11. CASE Restart
  <2>1. Relisted \subseteq Parent
    BY DEF Relisted, isGeneratedFromTemplate, TypeOK, Child
  <2>2. feed' \in [Name -> Seq(Child \union {NoObj})]
    BY <1>11 DEF Restart
  <2> QED BY <1>11, <2>1, <2>2 DEF Restart, TypeOK, api
<1>12. CASE UNCHANGED vars
  BY <1>12 DEF vars, api, caches, TypeOK
<1> QED
  BY <1>1, <1>2, <1>3, <1>4, <1>5, <1>6, <1>7, <1>8, <1>9, <1>10, <1>11, <1>12 DEF Next

\* Every variable keeps its type: what passes and informers write are parents,
\* children, calls and keys.
THEOREM TypeCorrect == Spec => []TypeOK
  BY TypeInit, TypeStep, PTL DEF Spec

-----------------------------------------------------------------------------
(* A pass deletes only children of its own parent. *)

\* Parents have labels of their own, templates give them names of their own, and
\* so it was when the operator first started.
Made(n, o) ==
  o # NoObj => /\ n \in NamesOf(o.owner)
               /\ o.label \in {NoLabel, LabelOf[o.owner]}

Apart ==
  /\ \A x, y \in Parent : LabelOf[x] = LabelOf[y] => x = y
  /\ \A x, y \in Parent : x # y => NamesOf(x) \intersect NamesOf(y) = {}
  /\ \A i \in Initial, n \in Name : Made(n, i.child[n])

\* Every version of a child bears a name and the label of its owner.
ChildrenMade ==
  \A n \in Name : /\ Made(n, child[n]) /\ Made(n, seenChild[n])
                  /\ \A i \in DOMAIN feed[n] : Made(n, feed[n][i])

\* A pass works on names of its parent.
CallsMade ==
  \A p \in Parent : pass[p] # NoPass => \A c \in pass[p].todo : c.name \in NamesOf(p)

OwnInv == TypeOK /\ ChildrenMade /\ CallsMade

LEMMA DiffNames ==
  ASSUME Apart, OwnInv, NEW p \in Parent, seenParent[p] # NoObj, NEW c \in Diff(p)
  PROVE  c.name \in NamesOf(p)
<1> DEFINE expected == ExpectedObjects(p, seenParent[p].templates, seenTemplate)
<1>1. seenParent[p].templates \in Annotation
  BY DEF OwnInv, TypeOK, ParentObj
<1>2. \A e \in expected : e.name \in NamesOf(p)
  BY <1>1, ExpectedType DEF OwnInv, TypeOK
<1>3. ASSUME NEW n \in Listed(p)
      PROVE  n \in NamesOf(p)
  <2>1. n \in Name /\ seenChild[n] \in Child /\ seenChild[n].label = LabelOf[p]
    BY <1>3 DEF Listed, OwnInv, TypeOK
  <2>2. seenChild[n] # NoObj /\ LabelOf[p] # NoLabel
    BY <2>1, AbsentAssumption, LabelAssumption
  <2>3. Made(n, seenChild[n])
    BY <2>1 DEF OwnInv, ChildrenMade
  <2>4. LabelOf[seenChild[n].owner] = LabelOf[p] /\ n \in NamesOf(seenChild[n].owner)
    BY <2>1, <2>2, <2>3 DEF Made
  <2>5. seenChild[n].owner \in Parent
    BY <2>1 DEF Child
  <2> QED BY <2>4, <2>5 DEF Apart
<1> QED
  BY <1>2, <1>3 DEF Diff

LEMMA DiffNamesNow ==
  (Apart /\ OwnInv) =>
    \A x \in Parent : seenParent[x] # NoObj => \A c \in Diff(x) : c.name \in NamesOf(x)
  BY DiffNames

LEMMA DiffNamesNext ==
  ((Apart /\ OwnInv) =>
    \A x \in Parent : seenParent[x] # NoObj => \A c \in Diff(x) : c.name \in NamesOf(x))'
  BY DiffNamesNow, PTL

LEMMA OutdateCalls ==
  ASSUME NEW passes \in [Parent -> Pass \union {NoPass}], NEW n \in Name, NEW x \in Parent
  PROVE  /\ passes[x] = NoPass => Outdate(passes, n)[x] = NoPass
         /\ passes[x] # NoPass => /\ Outdate(passes, n)[x] # NoPass
                                  /\ Outdate(passes, n)[x].todo = passes[x].todo
<1>1. CASE passes[x] = NoPass
  BY <1>1 DEF Outdate
<1>2. CASE passes[x] # NoPass
  <2>1. passes[x] \in Pass
    BY <1>2
  <2>2. Outdate(passes, n)[x] = [passes[x] EXCEPT !.stale = @ \union {n}]
    BY <1>2 DEF Outdate
  <2>3. /\ [passes[x] EXCEPT !.stale = @ \union {n}] \in Pass
        /\ [passes[x] EXCEPT !.stale = @ \union {n}].todo = passes[x].todo
    BY <2>1 DEF Pass
  <2> QED BY <1>2, <2>2, <2>3, AbsentAssumption
<1> QED BY <1>1, <1>2

LEMMA SetChildMade ==
  ASSUME OwnInv, NEW n \in Name, NEW o \in Child \union {NoObj}, Made(n, o),
         SetChild(n, o), UNCHANGED seenChild
  PROVE  ChildrenMade'
<1> SUFFICES ASSUME NEW m \in Name
             PROVE  /\ Made(m, child'[m]) /\ Made(m, seenChild'[m])
                    /\ \A i \in DOMAIN feed'[m] : Made(m, feed'[m][i])
  BY DEF ChildrenMade, Made
<1>1. /\ Made(m, child[m]) /\ Made(m, seenChild[m])
      /\ \A i \in DOMAIN feed[m] : Made(m, feed[m][i])
  BY DEF OwnInv, ChildrenMade
<1>2. CASE m # n
  BY <1>1, <1>2 DEF SetChild, OwnInv, TypeOK
<1>3. CASE m = n
  <2>1. child'[m] = o /\ feed'[m] = Append(feed[m], o)
    BY <1>3 DEF SetChild, OwnInv, TypeOK
  <2>2. feed[m] \in Seq(Child \union {NoObj})
    BY DEF OwnInv, TypeOK
  <2>3. \A i \in DOMAIN feed'[m] : feed'[m][i] = o \/ (i \in DOMAIN feed[m] /\ feed'[m][i] = feed[m][i])
    BY <2>1, <2>2
  <2> QED BY <1>1, <1>3, <2>1, <2>3
<1> QED BY <1>2, <1>3

\* The children a call of a pass may write, when it writes one.
LEMMA WorkWrites ==
  ASSUME Apart, OwnInv, NEW p \in Parent, Work(p)
  PROVE  \E c \in pass[p].todo :
           /\ c \in Call /\ c.name \in NamesOf(p)
           /\ \/ Refuse(p)
              \/ \E o \in Child \union {NoObj} :
                   Made(c.name, o) /\ Apply(p, c, o) /\ (o = NoObj => c.op = "delete")
<1>1. PICK c \in pass[p].todo : Create(p, c) \/ Update(p, c) \/ Delete(p, c)
  BY DEF Work
<1>2. c \in Call /\ c.name \in Name /\ c.body \in Body /\ pass[p].uid \in 1..MaxUid
  <2>1. c \in Call /\ pass[p] \in Pass
    BY RestType DEF Work, OwnInv, TypeOK
  <2> QED BY <2>1 DEF Call, Pass
<1>3. c.name \in NamesOf(p)
  BY DEF Work, OwnInv, CallsMade
<1>4. CASE Create(p, c)
  <2> DEFINE new == [owner |-> p, uid |-> pass[p].uid, label |-> getLabels(p), body |-> c.body]
  <2>1. new \in Child /\ Made(c.name, new) /\ new # NoObj
    BY <1>2, <1>3, LabelAssumption, AbsentAssumption DEF getLabels, Child, Made
  <2> QED BY <1>2, <1>3, <1>4, <2>1 DEF Create
<1>5. CASE Update(p, c) /\ ~Refuse(p)
  <2> DEFINE old == child[c.name]
             new == [old EXCEPT !.label = getLabels(p), !.body = c.body]
             owned == [new EXCEPT !.owner = p, !.uid = pass[p].uid]
  <2>1. old \in Child /\ old # NoObj
    BY <1>2, <1>5 DEF Update, OwnInv, TypeOK
  <2>2. old.owner = p
    <3>1. c.name \in NamesOf(old.owner) /\ old.owner \in Parent
      BY <1>2, <2>1 DEF OwnInv, ChildrenMade, Made, Child
    <3> QED BY <1>3, <3>1 DEF Apart
  <2>3. new \in Child /\ new.owner = p /\ new.label = LabelOf[p]
    BY <1>2, <2>1, <2>2, LabelAssumption DEF getLabels, Child
  <2>4. owned \in Child /\ owned.owner = p /\ owned.label = LabelOf[p]
    BY <1>2, <2>3 DEF Child
  <2>5. Made(c.name, new) /\ new # NoObj /\ Made(c.name, owned) /\ owned # NoObj
    BY <1>3, <2>3, <2>4, AbsentAssumption DEF Made
  <2> QED BY <1>2, <1>3, <1>5, <2>3, <2>4, <2>5 DEF Update
<1>6. CASE Delete(p, c)
  <2>1. Made(c.name, NoObj)
    BY DEF Made
  <2> QED BY <1>2, <1>3, <1>6, <2>1 DEF Delete
<1> QED BY <1>1, <1>2, <1>3, <1>4, <1>5, <1>6

LEMMA OwnInit == Apart /\ Init => OwnInv
<1> SUFFICES ASSUME Apart, Init PROVE OwnInv
  OBVIOUS
<1>1. PICK i \in Initial : child = i.child
  BY DEF Init
<1>2. \A n \in Name : Made(n, child[n])
  BY <1>1 DEF Apart
<1>3. ChildrenMade
  BY <1>2 DEF Init, ChildrenMade
<1>4. CallsMade
  BY DEF Init, CallsMade
<1> QED BY <1>3, <1>4, TypeInit DEF OwnInv

LEMMA OwnStep == Apart /\ OwnInv /\ [Next]_vars => OwnInv'
<1> SUFFICES ASSUME Apart, OwnInv, [Next]_vars PROVE ChildrenMade' /\ CallsMade'
  BY TypeStep DEF OwnInv
<1> USE DEF OwnInv
<1>1. CASE UNCHANGED <<child, seenChild, feed, pass>>
  BY <1>1 DEF ChildrenMade, Made, CallsMade
<1>2. ASSUME NEW p \in Parent, CreateParent(p) \/ Annotate(p) \/ DeleteParent(p)
      PROVE  UNCHANGED <<child, seenChild, feed, pass>>
  BY <1>2 DEF CreateParent, Annotate, DeleteParent, WriteParent, caches
<1>3. ASSUME NEW t \in Template, WriteTemplate(t) \/ SyncTemplate(t)
      PROVE  UNCHANGED <<child, seenChild, feed, pass>>
  BY <1>3 DEF WriteTemplate, SyncTemplate, api, caches
<1>4. ASSUME NEW p \in Parent, SyncParent(p) \/ ReconcileAbsent(p)
      PROVE  UNCHANGED <<child, seenChild, feed, pass>>
  BY <1>4 DEF SyncParent, ReconcileAbsent, api, caches
<1>5. ASSUME NEW n \in Name, EditChild(n) \/ CollectGarbage(n)
      PROVE  ChildrenMade' /\ CallsMade'
  <2>1. PICK o \in Child \union {NoObj} : WriteChild(n, o) /\ Made(n, o)
    <3>1. CASE WriteChild(n, NoObj)
      BY <3>1 DEF Made
    <3>2. ASSUME NEW b \in Body, child[n] # NoObj, WriteChild(n, [child[n] EXCEPT !.body = b])
          PROVE  \E o \in Child \union {NoObj} : WriteChild(n, o) /\ Made(n, o)
      <4> DEFINE o == [child[n] EXCEPT !.body = b]
      <4>1. child[n] \in Child /\ Made(n, child[n])
        BY <3>2 DEF TypeOK, ChildrenMade
      <4>2. o \in Child /\ o.owner = child[n].owner /\ o.label = child[n].label
        BY <4>1 DEF Child
      <4> QED BY <3>2, <4>1, <4>2 DEF Made
    <3> QED BY <1>5, <3>1, <3>2 DEF EditChild, CollectGarbage
  <2>2. ChildrenMade'
    BY <2>1, SetChildMade DEF WriteChild, caches
  <2>3. CallsMade'
    BY <2>1, OutdateCalls DEF WriteChild, TypeOK, CallsMade
  <2> QED BY <2>2, <2>3
<1>6. ASSUME NEW n \in Name, SyncChild(n)
      PROVE  ChildrenMade' /\ CallsMade'
  <2>1. feed[n] \in Seq(Child \union {NoObj}) /\ feed[n] # <<>>
    BY <1>6 DEF SyncChild, TypeOK
  <2>2. \A i \in DOMAIN feed[n] : Made(n, feed[n][i])
    BY DEF ChildrenMade
  <2>3. Made(n, Head(feed[n]))
    BY <2>1, <2>2
  <2>4. \A i \in DOMAIN Tail(feed[n]) : Made(n, Tail(feed[n])[i])
    BY <2>1, <2>2
  <2>5. ChildrenMade'
    <3> SUFFICES ASSUME NEW m \in Name
                 PROVE  /\ Made(m, child'[m]) /\ Made(m, seenChild'[m])
                        /\ \A i \in DOMAIN feed'[m] : Made(m, feed'[m][i])
      BY DEF ChildrenMade, Made
    <3>1. CASE m = n
      BY <1>6, <2>3, <2>4, <3>1 DEF SyncChild, ChildrenMade, TypeOK, api
    <3>2. CASE m # n
      BY <1>6, <3>2 DEF SyncChild, ChildrenMade, TypeOK, api
    <3> QED BY <3>1, <3>2
  <2>6. CallsMade'
    BY <1>6 DEF SyncChild, CallsMade
  <2> QED BY <2>5, <2>6
<1>7. ASSUME NEW p \in Parent, Read(p)
      PROVE  ChildrenMade' /\ CallsMade'
  <2>1. ChildrenMade'
    BY <1>7 DEF Read, api, caches, ChildrenMade, Made
  <2>2. \A c \in Diff(p) : c.name \in NamesOf(p)
    BY <1>7, DiffNames DEF Read
  <2>3. pass' = [pass EXCEPT ![p] =
          IF Diff(p) = {} THEN NoPass
          ELSE [uid |-> seenParent[p].uid, todo |-> Diff(p),
                stale |-> {n \in Name : feed[n] # <<>>}]]
    BY <1>7 DEF Read
  <2>4. \A x \in Parent : x # p => pass'[x] = pass[x]
    BY <2>3 DEF TypeOK
  <2>5. pass'[p] # NoPass => pass'[p].todo = Diff(p)
    BY <2>3 DEF TypeOK
  <2> QED BY <2>1, <2>2, <2>4, <2>5 DEF CallsMade
<1>8. ASSUME NEW p \in Parent, Work(p)
      PROVE  ChildrenMade' /\ CallsMade'
  <2>1. PICK c \in pass[p].todo :
           /\ c \in Call /\ c.name \in NamesOf(p)
           /\ \/ Refuse(p)
              \/ \E o \in Child \union {NoObj} : Made(c.name, o) /\ Apply(p, c, o)
    BY <1>8, WorkWrites
  <2>2. CASE Refuse(p)
    BY <1>8, <2>2 DEF Refuse, Abort, Work, caches, ChildrenMade, Made, CallsMade, TypeOK
  <2>3. ASSUME NEW o \in Child \union {NoObj}, Made(c.name, o), Apply(p, c, o)
        PROVE  ChildrenMade' /\ CallsMade'
    <3>1. c.name \in Name
      BY <2>1 DEF Call
    <3>2. ChildrenMade'
      BY <1>8, <2>3, <3>1, SetChildMade DEF Apply, Work, caches
    <3>3. ASSUME NEW left \in [Parent -> Pass \union {NoPass}], pass' = Outdate(left, c.name),
                 left = [pass EXCEPT ![p] = Rest(p, c)] \/ left = [pass EXCEPT ![p] = NoPass]
          PROVE  CallsMade'
      <4>1. pass[p] \in Pass
        BY <1>8 DEF Work, TypeOK
      <4>2. Rest(p, c) # NoPass => Rest(p, c).todo \subseteq pass[p].todo
        BY <4>1 DEF Rest, Pass
      <4>3. \A x \in Parent : left[x] # NoPass =>
              pass[x] # NoPass /\ left[x].todo \subseteq pass[x].todo
        BY <1>8, <3>3, <4>2 DEF Work, TypeOK
      <4>4. \A x \in Parent : pass'[x] # NoPass =>
              left[x] # NoPass /\ pass'[x].todo = left[x].todo
        BY <3>1, <3>3, OutdateCalls
      <4> QED BY <4>3, <4>4 DEF CallsMade
    <3>4. /\ [pass EXCEPT ![p] = Rest(p, c)] \in [Parent -> Pass \union {NoPass}]
          /\ [pass EXCEPT ![p] = NoPass] \in [Parent -> Pass \union {NoPass}]
      BY <1>8, RestType DEF Work, TypeOK
    <3> QED BY <2>3, <3>2, <3>3, <3>4 DEF Apply
  <2> QED BY <2>1, <2>2, <2>3
<1>9. ASSUME NEW p \in Parent, CallFails(p)
      PROVE  ChildrenMade' /\ CallsMade'
  BY <1>9 DEF CallFails, Abort, api, caches, ChildrenMade, Made, CallsMade, TypeOK
<1>10. CASE Restart
  <2>1. ChildrenMade'
    BY <1>10 DEF Restart, api, ChildrenMade, Made
  <2> QED BY <1>10, <2>1 DEF Restart, CallsMade
<1>11. CASE UNCHANGED vars
  BY <1>1, <1>11 DEF vars, api, caches
<1> QED
  BY <1>1, <1>2, <1>3, <1>4, <1>5, <1>6, <1>7, <1>8, <1>9, <1>10, <1>11 DEF Next

\* A step that ends a call of a pass for p by removing a child removes one of p.
LEMMA DeletesOwnStep ==
  ASSUME Apart, OwnInv, [Next]_vars, OwnInv',
         NEW p \in Parent, NEW n \in Name,
         child[n] # NoObj, child'[n] = NoObj, pass[p] # NoPass,
         pass'[p] = NoPass \/ (pass'[p] # NoPass => pass'[p].todo # pass[p].todo)
  PROVE  child[n].owner = p
<1>1. CASE UNCHANGED child
  BY <1>1
<1>2. ASSUME NEW q \in Parent, CreateParent(q) \/ Annotate(q) \/ DeleteParent(q)
                                 \/ SyncParent(q) \/ ReconcileAbsent(q) \/ Read(q) \/ CallFails(q)
      PROVE  UNCHANGED child
  BY <1>2 DEF CreateParent, Annotate, DeleteParent, WriteParent, SyncParent, ReconcileAbsent,
              Read, CallFails, api
<1>3. ASSUME NEW t \in Template, WriteTemplate(t) \/ SyncTemplate(t)
      PROVE  UNCHANGED child
  BY <1>3 DEF WriteTemplate, SyncTemplate, api
<1>4. ASSUME NEW m \in Name, EditChild(m) \/ CollectGarbage(m)
      PROVE  FALSE
  <2>1. pass' = Outdate(pass, m)
    BY <1>4 DEF EditChild, CollectGarbage, WriteChild
  <2>2. pass'[p] # NoPass /\ pass'[p].todo = pass[p].todo
    BY <2>1, OutdateCalls DEF OwnInv, TypeOK
  <2> QED BY <2>2
<1>5. ASSUME NEW m \in Name, SyncChild(m)
      PROVE  UNCHANGED child
  BY <1>5 DEF SyncChild, api
<1>6. ASSUME NEW q \in Parent, Work(q)
      PROVE  child[n].owner = p
  <2>1. PICK c \in pass[q].todo :
           /\ c \in Call /\ c.name \in NamesOf(q)
           /\ \/ Refuse(q)
              \/ \E o \in Child \union {NoObj} : Made(c.name, o) /\ Apply(q, c, o)
    BY <1>6, WorkWrites
  <2>2. ~Refuse(q)
    BY DEF Refuse
  <2>3. PICK o \in Child \union {NoObj} : Apply(q, c, o)
    BY <2>1, <2>2
  <2>4. c.name = n
    BY <2>3 DEF Apply, SetChild
  <2>5. p = q
    <3> SUFFICES ASSUME p # q PROVE FALSE
      OBVIOUS
    <3>1. PICK left \in [Parent -> Pass \union {NoPass}] :
            pass' = Outdate(left, n) /\ left[p] = pass[p]
      <4>1. /\ [pass EXCEPT ![q] = Rest(q, c)] \in [Parent -> Pass \union {NoPass}]
            /\ [pass EXCEPT ![q] = NoPass] \in [Parent -> Pass \union {NoPass}]
        BY <1>6, RestType DEF Work, OwnInv, TypeOK
      <4>2. /\ [pass EXCEPT ![q] = Rest(q, c)][p] = pass[p]
            /\ [pass EXCEPT ![q] = NoPass][p] = pass[p]
        BY DEF OwnInv, TypeOK
      <4> QED BY <2>3, <2>4, <4>1, <4>2 DEF Apply
    <3> QED BY <3>1, OutdateCalls
  <2>6. n \in NamesOf(child[n].owner) /\ child[n].owner \in Parent
    BY DEF OwnInv, ChildrenMade, Made, TypeOK, Child
  <2> QED BY <2>1, <2>4, <2>5, <2>6 DEF Apart
<1>7. CASE Restart
  BY <1>7 DEF Restart, api
<1>8. CASE UNCHANGED vars
  BY <1>8 DEF vars, api
<1> QED
  BY <1>1, <1>2, <1>3, <1>4, <1>5, <1>6, <1>7, <1>8 DEF Next

\* With labels and names apart, no pass ever deletes a child made for another
\* parent, although it decides from late caches and other passes, users and the
\* garbage collector change the children meanwhile.
THEOREM DeletesOwnTheorem ==
  ASSUME Apart
  PROVE  Spec => DeletesOwn
<1>1. Init => OwnInv
  BY OwnInit
<1>2. OwnInv /\ [Next]_vars => OwnInv'
  BY OwnStep
<1>3. OwnInv /\ OwnInv' /\ [Next]_vars =>
        [\A p \in Parent, n \in Name :
           (/\ child[n] # NoObj /\ child'[n] = NoObj
            /\ pass[p] # NoPass
            /\ pass'[p] = NoPass \/ (pass'[p] # NoPass => pass'[p].todo # pass[p].todo))
             => child[n].owner = p]_vars
  BY DeletesOwnStep
<1> QED
  BY <1>1, <1>2, <1>3, PTL DEF Spec, DeletesOwn


-----------------------------------------------------------------------------
(* What the caches know.  They follow the API server, child by child in the *)
(* order of its versions; a child never loses its label; and no child has   *)
(* the uid of a parent that the operator has not seen yet.                  *)

Bare(o) == o # NoObj /\ o.label = NoLabel

\* The versions of child n the operator may still see: the one it has, then the feed.
Version(n, i) == IF i = 0 THEN seenChild[n] ELSE feed[n][i]

Versions(n) == {seenChild[n], child[n]} \union { feed[n][i] : i \in DOMAIN feed[n] }

Synced ==
  /\ \A x \in Parent \ dirty : seenParent[x] = parent[x]
  /\ \A x \in Template \ dirty : seenTemplate[x] = template[x]

Chained ==
  \A n \in Name :
    /\ Version(n, Len(feed[n])) = child[n]
    /\ \A i \in 1..Len(feed[n]) : Bare(Version(n, i)) => Bare(Version(n, i - 1))

UidsKnown ==
  /\ \A x \in Parent : /\ parent[x] # NoObj => parent[x].uid <= born
                       /\ seenParent[x] # NoObj => seenParent[x].uid <= born
                       /\ pass[x] # NoPass => pass[x].uid <= born
  /\ \A n \in Name : \A o \in Versions(n) : o # NoObj => o.uid <= born

Unseen(x) ==
  parent[x] # NoObj /\ (seenParent[x] # NoObj => seenParent[x].uid # parent[x].uid)

UnseenUnused ==
  \A x \in Parent : Unseen(x) =>
    /\ pass[x] # NoPass => pass[x].uid # parent[x].uid
    /\ \A n \in Name : \A o \in Versions(n) :
         (o # NoObj /\ o.owner = x) => o.uid # parent[x].uid

SeenInv == Synced /\ Chained /\ UidsKnown /\ UnseenUnused

LEMMA FeedType ==
  ASSUME TypeOK, NEW n \in Name
  PROVE  /\ feed[n] \in Seq(Child \union {NoObj}) /\ Len(feed[n]) \in Nat
         /\ DOMAIN feed[n] = 1..Len(feed[n])
  BY DEF TypeOK

\* A step that leaves the children and the parents alone, and no pass gets a uid.
LEMMA SeenFrame ==
  ASSUME SeenInv, UNCHANGED <<parent, seenParent, child, seenChild, feed, born>>,
         Synced',
         \A x \in Parent : pass'[x] # NoPass => pass[x] # NoPass /\ pass'[x].uid = pass[x].uid
  PROVE  SeenInv'
<1> USE DEF SeenInv
<1>1. Chained'
  BY DEF Chained, Version, Bare
<1>2. \A n \in Name : Versions(n)' = Versions(n)
  BY DEF Versions
<1>3. UidsKnown'
  BY <1>2 DEF UidsKnown
<1>4. UnseenUnused'
  BY <1>2 DEF UnseenUnused, Unseen
<1> QED BY <1>1, <1>3, <1>4

\* A version of a child keeps its owner, or gets it from a pass.
From(n, o) == child[n] # NoObj /\ o.owner = child[n].owner /\ o.uid = child[n].uid

FromPass(p, o) == pass[p] # NoPass /\ o.owner = p /\ o.uid = pass[p].uid

LEMMA SeenChildWritten ==
  ASSUME TypeOK, SeenInv, NEW n \in Name, NEW o \in Child \union {NoObj}, SetChild(n, o),
         UNCHANGED <<parent, template, caches, dirty, born>>,
         Bare(o) => Bare(child[n]),
         o # NoObj => From(n, o) \/ \E p \in Parent : FromPass(p, o),
         \A x \in Parent : pass'[x] # NoPass => pass[x] # NoPass /\ pass'[x].uid = pass[x].uid
  PROVE  SeenInv'
<1> USE DEF SeenInv
<1>1. /\ child'[n] = o /\ feed'[n] = Append(feed[n], o)
      /\ \A m \in Name : m # n => child'[m] = child[m] /\ feed'[m] = feed[m]
      /\ UNCHANGED <<seenChild, seenParent>>
  BY DEF SetChild, TypeOK, caches
<1>2. /\ feed[n] \in Seq(Child \union {NoObj}) /\ Len(feed[n]) \in Nat
      /\ Len(feed'[n]) = Len(feed[n]) + 1 /\ DOMAIN feed'[n] = 1..(Len(feed[n]) + 1)
      /\ feed'[n][Len(feed[n]) + 1] = o
      /\ \A i \in 1..Len(feed[n]) : feed'[n][i] = feed[n][i]
  BY <1>1, FeedType, AppendProperties
<1>3. Synced'
  BY DEF Synced, caches
<1>4. Chained'
  <2> SUFFICES ASSUME NEW m \in Name
               PROVE  /\ Version(m, Len(feed[m]))' = child'[m]
                      /\ \A i \in 1..Len(feed'[m]) : Bare(Version(m, i)') => Bare(Version(m, i - 1)')
    BY DEF Chained, Bare, Version
  <2>1. CASE m # n
    BY <1>1, <2>1 DEF Chained, Bare, Version
  <2>2. CASE m = n
    <3>1. Version(n, Len(feed[n]))' = o
      BY <1>1, <1>2 DEF Version
    <3>2. ASSUME NEW i \in 1..Len(feed'[n]), Bare(Version(n, i)')
          PROVE  Bare(Version(n, i - 1)')
      <4>1. CASE i \in 1..Len(feed[n])
        <5>1. i - 1 = 0 \/ i - 1 \in 1..Len(feed[n])
          BY <1>2, <4>1
        <5>2. Version(n, i)' = Version(n, i) /\ Version(n, i - 1)' = Version(n, i - 1)
          BY <1>1, <1>2, <4>1, <5>1 DEF Version
        <5> QED BY <3>2, <4>1, <5>2 DEF Chained
      <4>2. CASE i = Len(feed[n]) + 1
        <5>1. Version(n, i)' = o
          BY <1>2, <4>2 DEF Version
        <5>2. Bare(child[n])
          BY <3>2, <5>1 DEF Bare
        <5>3. i - 1 = Len(feed[n]) /\ (i - 1 = 0 \/ i - 1 \in 1..Len(feed[n]))
          BY <1>2, <4>2
        <5>4. Version(n, i - 1)' = Version(n, i - 1)
          BY <1>1, <1>2, <5>3 DEF Version
        <5>5. Version(n, i - 1) = child[n]
          BY <5>3 DEF Chained
        <5> QED BY <5>2, <5>4, <5>5
      <4> QED BY <1>2, <4>1, <4>2
    <3> QED BY <1>1, <2>2, <3>1, <3>2
  <2> QED BY <2>1, <2>2
<1>5. \A m \in Name : \A v : v \in Versions(m)' => v \in Versions(m) \/ (m = n /\ v = o)
  <2> SUFFICES ASSUME NEW m \in Name, NEW v \in Versions(m)'
               PROVE  v \in Versions(m) \/ (m = n /\ v = o)
    OBVIOUS
  <2>1. CASE m # n
    BY <1>1, <2>1 DEF Versions
  <2>2. CASE m = n
    <3>1. \A i \in DOMAIN feed'[n] : feed'[n][i] = o \/ (i \in DOMAIN feed[n] /\ feed'[n][i] = feed[n][i])
      BY <1>2, FeedType
    <3> QED BY <1>1, <2>2, <3>1 DEF Versions
  <2> QED BY <2>1, <2>2
<1>6. child[n] \in Versions(n)
  BY DEF Versions
<1>7. UidsKnown'
  BY <1>1, <1>5, <1>6 DEF UidsKnown, From, FromPass
<1>8. UnseenUnused'
  BY <1>1, <1>5, <1>6 DEF UnseenUnused, Unseen, From, FromPass
<1> QED BY <1>3, <1>4, <1>7, <1>8

LEMMA OutdateUids ==
  ASSUME NEW passes \in [Parent -> Pass \union {NoPass}], NEW n \in Name, NEW x \in Parent,
         Outdate(passes, n)[x] # NoPass
  PROVE  passes[x] # NoPass /\ Outdate(passes, n)[x].uid = passes[x].uid
<1>1. passes[x] \in Pass /\ Outdate(passes, n)[x] = [passes[x] EXCEPT !.stale = @ \union {n}]
  BY DEF Outdate
<1> QED BY <1>1, AbsentAssumption DEF Pass


\* What a call of a pass writes, when it writes.
LEMMA WorkVersions ==
  ASSUME TypeOK, NEW p \in Parent, Work(p)
  PROVE  \E c \in pass[p].todo :
           /\ c \in Call /\ c.name \in Name
           /\ \/ Refuse(p)
              \/ \E o \in Child \union {NoObj} :
                   /\ Apply(p, c, o)
                   /\ o = NoObj => c.op = "delete"
                   /\ o # NoObj => /\ o.label # NoLabel
                                   /\ From(c.name, o) \/ FromPass(p, o)
<1>1. PICK c \in pass[p].todo : Create(p, c) \/ Update(p, c) \/ Delete(p, c)
  BY DEF Work
<1>2. /\ c \in Call /\ c.name \in Name /\ c.body \in Body /\ pass[p].uid \in 1..MaxUid
      /\ pass[p] # NoPass
  <2>1. c \in Call /\ pass[p] \in Pass /\ pass[p] # NoPass
    BY RestType DEF Work, TypeOK
  <2> QED BY <2>1 DEF Call, Pass
<1>3. CASE Create(p, c)
  <2> DEFINE new == [owner |-> p, uid |-> pass[p].uid, label |-> getLabels(p), body |-> c.body]
  <2>1. new \in Child /\ new # NoObj /\ new.label # NoLabel /\ FromPass(p, new)
    BY <1>2, LabelAssumption, AbsentAssumption DEF getLabels, Child, FromPass
  <2> HIDE DEF new
  <2>2. Refuse(p) \/ Apply(p, c, new)
    BY <1>3 DEF Create, new
  <2> QED BY <1>2, <2>1, <2>2
<1>4. CASE Update(p, c)
  <2> DEFINE old == child[c.name]
             new == [old EXCEPT !.label = getLabels(p), !.body = c.body]
             owned == [new EXCEPT !.owner = p, !.uid = pass[p].uid]
  <2>1. Refuse(p) \/ (old # NoObj /\ (Apply(p, c, new) \/ Apply(p, c, owned)))
    BY <1>4 DEF Update
  <2>2. ASSUME old # NoObj
        PROVE  /\ new \in Child /\ new # NoObj /\ new.label # NoLabel /\ From(c.name, new)
               /\ owned \in Child /\ owned # NoObj /\ owned.label # NoLabel
               /\ FromPass(p, owned)
    <3>1. old \in Child
      BY <1>2, <2>2 DEF TypeOK
    <3>2. /\ new \in Child /\ new.label # NoLabel
          /\ new.owner = old.owner /\ new.uid = old.uid
      BY <1>2, <3>1, LabelAssumption, AbsentAssumption DEF getLabels, Child
    <3>3. /\ owned \in Child /\ owned.label # NoLabel
          /\ owned.owner = p /\ owned.uid = pass[p].uid
      BY <1>2, <3>2 DEF Child
    <3> QED BY <1>2, <2>2, <3>2, <3>3, AbsentAssumption DEF From, FromPass
  <2> HIDE DEF new, owned
  <2> QED BY <1>2, <2>1, <2>2
<1>5. CASE Delete(p, c)
  BY <1>2, <1>5 DEF Delete
<1> QED BY <1>1, <1>3, <1>4, <1>5

\* The uids of the passes that are left after a call.
LEMMA ApplyUids ==
  ASSUME TypeOK, NEW p \in Parent, Work(p), NEW c \in pass[p].todo, c.name \in Name,
         NEW o, Apply(p, c, o), NEW x \in Parent, pass'[x] # NoPass
  PROVE  pass[x] # NoPass /\ pass'[x].uid = pass[x].uid
<1>1. PICK left \in [Parent -> Pass \union {NoPass}] :
        /\ pass' = Outdate(left, c.name)
        /\ left = [pass EXCEPT ![p] = Rest(p, c)] \/ left = [pass EXCEPT ![p] = NoPass]
  <2>1. /\ [pass EXCEPT ![p] = Rest(p, c)] \in [Parent -> Pass \union {NoPass}]
        /\ [pass EXCEPT ![p] = NoPass] \in [Parent -> Pass \union {NoPass}]
    BY RestType DEF Work, TypeOK
  <2> QED BY <2>1 DEF Apply
<1>2. left[x] # NoPass /\ pass'[x].uid = left[x].uid
  BY <1>1, OutdateUids
<1>3. left[x] # NoPass => pass[x] # NoPass /\ left[x].uid = pass[x].uid
  <2>1. pass[p] \in Pass /\ pass[p] # NoPass
    BY DEF Work, TypeOK
  <2>2. Rest(p, c) # NoPass => Rest(p, c).uid = pass[p].uid
    BY <2>1 DEF Rest, Pass
  <2> QED BY <1>1, <2>1, <2>2 DEF TypeOK
<1> QED BY <1>2, <1>3

LEMMA SeenStart ==
  ASSUME seenParent' = parent', seenTemplate' = template',
         seenChild' = child', feed' = [n \in Name |-> <<>>],
         UNCHANGED <<parent, child, born>>, pass' = [x \in Parent |-> NoPass],
         \A n \in Name : child[n] # NoObj => child[n].uid <= born,
         \A x \in Parent : parent[x] # NoObj => parent[x].uid <= born
  PROVE  SeenInv'
<1>1. Synced'
  BY DEF Synced
<1>2. Chained'
  BY DEF Chained, Version, Bare
<1>3. \A n \in Name : \A v : v \in Versions(n)' => v = child[n]
  BY DEF Versions
<1>4. UidsKnown'
  BY <1>3 DEF UidsKnown
<1>5. UnseenUnused'
  BY DEF UnseenUnused, Unseen
<1> QED BY <1>1, <1>2, <1>4, <1>5 DEF SeenInv

LEMMA SeenInit == Init => SeenInv
<1> SUFFICES ASSUME Init PROVE SeenInv
  OBVIOUS
<1>1. PICK i \in Initial : parent = i.parent /\ child = i.child
  BY DEF Init
<1>2. /\ parent \in [Parent -> {o \in ParentObj : o.uid = 1} \union {NoObj}]
      /\ child \in [Name -> {o \in Child : o.uid = 1} \union {NoObj}]
  BY <1>1, InitialAssumption
<1>3. /\ \A x \in Parent : parent[x] # NoObj => parent[x].uid = 1
      /\ \A n \in Name : child[n] # NoObj => child[n].uid = 1
  BY <1>2
<1>4. Synced /\ Chained
  BY DEF Init, Synced, Chained, Version, Bare
<1>5. \A n \in Name : \A v : v \in Versions(n) => v = child[n]
  BY DEF Versions, Init
<1>6. UidsKnown
  BY <1>3, <1>5 DEF UidsKnown, Init
<1>7. UnseenUnused
  BY DEF UnseenUnused, Unseen, Init
<1> QED BY <1>4, <1>6, <1>7 DEF SeenInv

\* A user's write of a parent: nothing bears the uid of one that was just created.
LEMMA SeenWriteParent ==
  ASSUME TypeOK, SeenInv, NEW p \in Parent, CreateParent(p) \/ Annotate(p) \/ DeleteParent(p)
  PROVE  SeenInv'
<1> USE DEF SeenInv
<1>1. PICK o : /\ WriteParent(p, o)
               /\ \/ o = NoObj /\ born' = born
                  \/ parent[p] # NoObj /\ o.uid = parent[p].uid /\ born' = born
                  \/ o.uid = born + 1 /\ born' = born + 1
  <2>1. CASE CreateParent(p)
    <3>1. PICK a \in Annotation : WriteParent(p, [templates |-> a, uid |-> born + 1])
      BY <2>1 DEF CreateParent
    <3> QED BY <2>1, <3>1 DEF CreateParent
  <2>2. CASE Annotate(p)
    <3>1. PICK a \in Annotation : WriteParent(p, [parent[p] EXCEPT !.templates = a])
      BY <2>2 DEF Annotate
    <3>2. parent[p] \in ParentObj /\ parent[p] # NoObj /\ born' = born
      BY <2>2 DEF Annotate, TypeOK
    <3>3. [parent[p] EXCEPT !.templates = a].uid = parent[p].uid
      BY <3>2 DEF ParentObj
    <3> QED BY <3>1, <3>2, <3>3
  <2>3. CASE DeleteParent(p)
    BY <2>3 DEF DeleteParent
  <2> QED BY <2>1, <2>2, <2>3
<1>2. /\ parent'[p] = o /\ (\A x \in Parent : x # p => parent'[x] = parent[x])
      /\ UNCHANGED <<child, seenChild, seenParent, seenTemplate, template, feed, pass>>
      /\ dirty' = dirty \union {p} /\ p \notin Template
  BY <1>1, DisjointAssumption DEF WriteParent, TypeOK, caches
<1>3. Synced'
  BY <1>2 DEF Synced
<1>4. Chained'
  BY <1>2 DEF Chained, Version, Bare
<1>5. \A n \in Name : Versions(n)' = Versions(n)
  BY <1>2 DEF Versions
<1>6. \A x \in Parent : pass[x] # NoPass => pass[x].uid \in Nat
  BY DEF TypeOK, Pass
<1>7. \A n \in Name : \A v \in Versions(n) : v # NoObj => v.uid \in Nat
  <2>1. \A n \in Name : \A v \in Versions(n) : v \in Child \union {NoObj}
    BY FeedType DEF Versions, TypeOK
  <2> QED BY <2>1 DEF Child
<1>8. \A x \in Parent : parent[x] # NoObj => parent[x].uid \in Nat
  BY DEF TypeOK, ParentObj
<1>9. born \in Nat
  BY DEF TypeOK
<1>10. UidsKnown'
  <2>1. born <= born' /\ born' \in Nat
    BY <1>1, <1>9
  <2>2. \A x \in Parent : /\ parent'[x] # NoObj => parent'[x].uid <= born'
                          /\ seenParent'[x] # NoObj => seenParent'[x].uid <= born'
    <3>1. \A x \in Parent : seenParent[x] # NoObj => seenParent[x].uid \in Nat
      BY DEF TypeOK, ParentObj
    <3> QED BY <1>1, <1>2, <1>8, <1>9, <2>1, <3>1 DEF UidsKnown
  <2>3. \A x \in Parent : pass'[x] # NoPass => pass'[x].uid <= born'
    BY <1>2, <1>6, <1>9, <2>1 DEF UidsKnown
  <2>4. \A n \in Name : \A v \in Versions(n)' : v # NoObj => v.uid <= born'
    BY <1>5, <1>7, <1>9, <2>1 DEF UidsKnown
  <2> QED BY <2>2, <2>3, <2>4 DEF UidsKnown
<1>11. UnseenUnused'
  <2> SUFFICES ASSUME NEW x \in Parent, Unseen(x)'
               PROVE  /\ pass'[x] # NoPass => pass'[x].uid # parent'[x].uid
                      /\ \A n \in Name : \A v \in Versions(n)' :
                           (v # NoObj /\ v.owner = x) => v.uid # parent'[x].uid
    BY DEF UnseenUnused
  <2>1. CASE x # p \/ (parent[p] # NoObj /\ o # NoObj /\ o.uid = parent[p].uid)
    <3>1. Unseen(x) /\ parent'[x].uid = parent[x].uid
      BY <1>2, <2>1 DEF Unseen
    <3> QED BY <1>2, <1>5, <3>1 DEF UnseenUnused
  <2>2. CASE x = p /\ o.uid = born + 1
    BY <1>2, <1>5, <1>6, <1>7, <1>9, <2>2 DEF UidsKnown
  <2>3. x = p => o # NoObj
    BY <1>2 DEF Unseen
  <2> QED BY <1>1, <2>1, <2>2, <2>3
<1> QED BY <1>3, <1>4, <1>10, <1>11

LEMMA SeenWork ==
  ASSUME TypeOK, SeenInv, NEW p \in Parent, Work(p)
  PROVE  SeenInv'
<1>1. PICK c \in pass[p].todo :
           /\ c \in Call /\ c.name \in Name
           /\ \/ Refuse(p)
              \/ \E o \in Child \union {NoObj} :
                   /\ Apply(p, c, o)
                   /\ o = NoObj => c.op = "delete"
                   /\ o # NoObj => /\ o.label # NoLabel
                                   /\ From(c.name, o) \/ FromPass(p, o)
  BY WorkVersions
<1>2. CASE Refuse(p)
  <2>1. UNCHANGED <<parent, template, caches, dirty, born, child, feed>>
        /\ pass' = [pass EXCEPT ![p] = NoPass]
    BY <1>2 DEF Work, Refuse, Abort
  <2>2. Synced'
    BY <2>1 DEF SeenInv, Synced, caches
  <2> QED BY <2>1, <2>2, SeenFrame DEF caches, TypeOK
<1>3. ASSUME NEW o \in Child \union {NoObj}, Apply(p, c, o),
             o # NoObj => /\ o.label # NoLabel
                          /\ From(c.name, o) \/ FromPass(p, o)
      PROVE  SeenInv'
  <2>1. SetChild(c.name, o) /\ UNCHANGED <<parent, template, caches, dirty, born>>
    BY <1>3 DEF Apply, Work
  <2>2. \A x \in Parent : pass'[x] # NoPass => pass[x] # NoPass /\ pass'[x].uid = pass[x].uid
    BY <1>1, <1>3, ApplyUids
  <2>3. Bare(o) => Bare(child[c.name])
    BY <1>3 DEF Bare
  <2> QED BY <1>1, <1>3, <2>1, <2>2, <2>3, SeenChildWritten
<1> QED BY <1>1, <1>2, <1>3

LEMMA SeenEdit ==
  ASSUME TypeOK, SeenInv, NEW n \in Name, EditChild(n) \/ CollectGarbage(n)
  PROVE  SeenInv'
<1>1. PICK o \in Child \union {NoObj} :
        WriteChild(n, o) /\ (o # NoObj => From(n, o) /\ o.label = child[n].label)
  <2>1. ASSUME NEW b \in Body, child[n] # NoObj, WriteChild(n, [child[n] EXCEPT !.body = b])
        PROVE  \E o \in Child \union {NoObj} :
                 WriteChild(n, o) /\ (o # NoObj => From(n, o) /\ o.label = child[n].label)
    <3> DEFINE o == [child[n] EXCEPT !.body = b]
    <3>1. child[n] \in Child
      BY <2>1 DEF TypeOK
    <3>2. o \in Child /\ o.owner = child[n].owner /\ o.uid = child[n].uid
          /\ o.label = child[n].label
      BY <3>1 DEF Child
    <3> QED BY <2>1, <3>2 DEF From
  <2> QED BY <2>1 DEF EditChild, CollectGarbage
<1>2. SetChild(n, o) /\ pass' = Outdate(pass, n)
      /\ UNCHANGED <<parent, template, caches, dirty, born>>
  BY <1>1 DEF WriteChild
<1>3. \A x \in Parent : pass'[x] # NoPass => pass[x] # NoPass /\ pass'[x].uid = pass[x].uid
  BY <1>2, OutdateUids DEF TypeOK
<1>4. Bare(o) => Bare(child[n])
  BY <1>1 DEF Bare, From
<1> QED BY <1>1, <1>2, <1>3, <1>4, SeenChildWritten

LEMMA SeenSync ==
  ASSUME TypeOK, SeenInv,
         \/ \E p \in Parent : SyncParent(p)
         \/ \E t \in Template : WriteTemplate(t) \/ SyncTemplate(t)
         \/ \E n \in Name : SyncChild(n)
  PROVE  SeenInv'
<1> USE DEF SeenInv
<1>1. ASSUME NEW p \in Parent, SyncParent(p)
      PROVE  SeenInv'
  <2>1. /\ UNCHANGED <<parent, template, child, seenTemplate, seenChild, feed, pass, born>>
        /\ seenParent' = [seenParent EXCEPT ![p] = parent[p]] /\ dirty' = dirty \ {p}
        /\ p \notin Template
    BY <1>1, DisjointAssumption DEF SyncParent, api
  <2>2. Synced'
    BY <2>1 DEF Synced, TypeOK
  <2>3. Chained'
    BY <2>1 DEF Chained, Version, Bare
  <2>4. \A n \in Name : Versions(n)' = Versions(n)
    BY <2>1 DEF Versions
  <2>5. UidsKnown'
    BY <2>1, <2>4 DEF UidsKnown, TypeOK
  <2>6. \A x \in Parent : Unseen(x)' => Unseen(x)
    BY <2>1 DEF Unseen, TypeOK
  <2>7. UnseenUnused'
    BY <2>1, <2>4, <2>6 DEF UnseenUnused
  <2> QED BY <2>2, <2>3, <2>5, <2>7
<1>2. ASSUME NEW t \in Template, WriteTemplate(t) \/ SyncTemplate(t)
      PROVE  SeenInv'
  <2>1. UNCHANGED <<parent, seenParent, child, seenChild, feed, pass, born>>
    BY <1>2 DEF WriteTemplate, SyncTemplate, api, caches
  <2>2. Synced'
    BY <1>2, <2>1, DisjointAssumption DEF WriteTemplate, SyncTemplate, api, caches, Synced, TypeOK
  <2> QED BY <2>1, <2>2, SeenFrame
<1>3. ASSUME NEW n \in Name, SyncChild(n)
      PROVE  SeenInv'
  <2>1. /\ UNCHANGED <<parent, template, child, seenTemplate, seenParent, dirty, pass, born>>
        /\ seenChild' = [seenChild EXCEPT ![n] = Head(feed[n])]
        /\ feed' = [feed EXCEPT ![n] = Tail(feed[n])] /\ feed[n] # <<>>
    BY <1>3 DEF SyncChild, api
  <2>2. /\ feed[n] \in Seq(Child \union {NoObj}) /\ Len(feed[n]) \in Nat \ {0}
        /\ seenChild'[n] = feed[n][1] /\ feed'[n] = Tail(feed[n])
        /\ Len(feed'[n]) = Len(feed[n]) - 1 /\ DOMAIN feed'[n] = 1..(Len(feed[n]) - 1)
        /\ \A i \in 1..(Len(feed[n]) - 1) : feed'[n][i] = feed[n][i + 1]
        /\ \A m \in Name : m # n => seenChild'[m] = seenChild[m] /\ feed'[m] = feed[m]
    <3>1. feed[n] \in Seq(Child \union {NoObj}) /\ feed[n] # <<>>
      BY <2>1 DEF TypeOK
    <3>2. /\ seenChild'[n] = Head(feed[n]) /\ feed'[n] = Tail(feed[n])
          /\ \A m \in Name : m # n => seenChild'[m] = seenChild[m] /\ feed'[m] = feed[m]
      BY <2>1 DEF TypeOK
    <3> QED BY <3>1, <3>2
  <2>3. \A i \in 0..(Len(feed[n]) - 1) : Version(n, i)' = Version(n, i + 1)
    BY <2>2 DEF Version
  <2>4. Synced'
    BY <2>1 DEF Synced
  <2>5. Chained'
    <3> SUFFICES ASSUME NEW m \in Name
                 PROVE  /\ Version(m, Len(feed[m]))' = child'[m]
                        /\ \A i \in 1..Len(feed'[m]) : Bare(Version(m, i)') => Bare(Version(m, i - 1)')
      BY DEF Chained, Bare, Version
    <3>1. CASE m # n
      BY <2>1, <2>2, <3>1 DEF Chained, Bare, Version
    <3>2. CASE m = n
      <4>1. Version(n, Len(feed[n]))' = child'[n]
        <5> DEFINE last == Len(feed[n])
        <5>1. last \in Nat \ {0}
          BY <2>2
        <5> HIDE DEF last
        <5>2. PICK k \in Nat : k + 1 = last
          BY <5>1
        <5>3. k + 1 = Len(feed[n])
          BY <5>2 DEF last
        <5>4. Len(feed[n])' = k /\ k \in 0..(Len(feed[n]) - 1)
          BY <2>2, <5>3
        <5>5. Version(n, k)' = Version(n, k + 1)
          BY <2>3, <5>4
        <5> QED BY <2>1, <5>3, <5>4, <5>5 DEF Chained, Version
      <4>2. ASSUME NEW i \in 1..Len(feed'[n]), Bare(Version(n, i)')
            PROVE  Bare(Version(n, i - 1)')
        <5>1. i \in 0..(Len(feed[n]) - 1) /\ i - 1 \in 0..(Len(feed[n]) - 1)
              /\ i + 1 \in 1..Len(feed[n]) /\ (i + 1) - 1 = i /\ (i - 1) + 1 = i
          BY <2>2, <4>2
        <5>2. Version(n, i)' = Version(n, i + 1) /\ Version(n, i - 1)' = Version(n, i)
          BY <2>3, <5>1
        <5> QED BY <4>2, <5>1, <5>2 DEF Chained
      <4> QED BY <3>2, <4>1, <4>2
    <3> QED BY <3>1, <3>2
  <2>6. \A m \in Name : \A v : v \in Versions(m)' => v \in Versions(m)
    <3> SUFFICES ASSUME NEW m \in Name, NEW v \in Versions(m)'
                 PROVE  v \in Versions(m)
      OBVIOUS
    <3>1. CASE m # n
      BY <2>1, <2>2, <3>1 DEF Versions
    <3>2. CASE m = n
      <4>1. \A i \in DOMAIN feed'[n] : i + 1 \in DOMAIN feed[n] /\ feed'[n][i] = feed[n][i + 1]
        BY <2>2, FeedType
      <4>2. 1 \in DOMAIN feed[n]
        BY <2>2, FeedType
      <4> QED BY <2>1, <2>2, <3>2, <4>1, <4>2 DEF Versions
    <3> QED BY <3>1, <3>2
  <2>7. UidsKnown'
    BY <2>1, <2>6 DEF UidsKnown
  <2>8. UnseenUnused'
    BY <2>1, <2>6 DEF UnseenUnused, Unseen
  <2> QED BY <2>4, <2>5, <2>7, <2>8
<1> QED BY <1>1, <1>2, <1>3

LEMMA SeenNext == TypeOK /\ SeenInv /\ [Next]_vars => SeenInv'
<1> SUFFICES ASSUME TypeOK, SeenInv, [Next]_vars PROVE SeenInv'
  OBVIOUS
<1>1. ASSUME NEW p \in Parent, ReconcileAbsent(p) \/ CallFails(p)
      PROVE  SeenInv'
  <2>1. UNCHANGED <<parent, template, caches, dirty, child, feed, born>>
        /\ (pass' = pass \/ pass' = [pass EXCEPT ![p] = NoPass])
    BY <1>1 DEF ReconcileAbsent, CallFails, Abort, api
  <2>2. Synced'
    BY <2>1 DEF SeenInv, Synced, caches
  <2> QED BY <2>1, <2>2, SeenFrame DEF caches, TypeOK
<1>2. ASSUME NEW p \in Parent, Read(p)
      PROVE  SeenInv'
  <2>1. /\ UNCHANGED <<parent, template, child, seenParent, seenTemplate, seenChild, dirty,
                       feed, born>>
        /\ (\A x \in Parent : x # p => pass'[x] = pass[x])
        /\ pass'[p] # NoPass => pass'[p].uid = seenParent[p].uid
        /\ seenParent[p] # NoObj
    BY <1>2 DEF Read, api, caches, TypeOK
  <2>2. Synced'
    BY <2>1 DEF SeenInv, Synced
  <2>3. Chained'
    BY <2>1 DEF SeenInv, Chained, Version, Bare
  <2>4. \A n \in Name : Versions(n)' = Versions(n)
    BY <2>1 DEF Versions
  <2>5. UidsKnown'
    BY <2>1, <2>4 DEF SeenInv, UidsKnown
  <2>6. UnseenUnused'
    BY <2>1, <2>4 DEF SeenInv, UnseenUnused, Unseen
  <2> QED BY <2>2, <2>3, <2>5, <2>6 DEF SeenInv
<1>3. CASE Restart
  <2>1. \A n \in Name : child[n] \in Versions(n)
    BY DEF Versions
  <2>2. /\ \A n \in Name : child[n] # NoObj => child[n].uid <= born
        /\ \A x \in Parent : parent[x] # NoObj => parent[x].uid <= born
    BY <2>1 DEF SeenInv, UidsKnown
  <2> QED BY <1>3, <2>2, SeenStart DEF Restart, api
<1>4. CASE UNCHANGED vars
  <2>1. UNCHANGED <<parent, seenParent, child, seenChild, feed, born, pass>>
    BY <1>4 DEF vars, api, caches
  <2>2. Synced'
    BY <1>4 DEF vars, api, caches, SeenInv, Synced
  <2> QED BY <2>1, <2>2, SeenFrame
<1> QED BY <1>1, <1>2, <1>3, <1>4, SeenWriteParent, SeenWork, SeenEdit, SeenSync DEF Next


-----------------------------------------------------------------------------
(* No work is lost.  A child that the caches show as it should not be has a *)
(* parent that waits for a pass, a call planned for it, an event to come    *)
(* that wakes its parent, or an owner that is gone.                         *)

Asked(x) == ExpectedObjects(x, seenParent[x].templates, seenTemplate)

Differs(x, n) == \E c \in Diff(x) : c.name = n

Labelled(n) ==
  \/ isGeneratedFromTemplate(seenChild[n])
  \/ \E i \in DOMAIN feed[n] : isGeneratedFromTemplate(feed[n][i])

Stirs(n) == feed[n] # <<>> /\ Labelled(n)

Planned(x, n) == pass[x] # NoPass /\ \E c \in pass[x].todo : c.name = n

Doomed(x, n) ==
  isGeneratedFromTemplate(seenChild[n]) /\ seenChild[n].uid # seenParent[x].uid

WorkKnown ==
  \A x \in Parent, n \in Name :
    (seenParent[x] # NoObj /\ Differs(x, n)) =>
      x \in queue \/ Planned(x, n) \/ Stirs(n) \/ Doomed(x, n)

\* A child that a pass will delete was labelled when it was listed.
DeletesLabelled ==
  \A x \in Parent : pass[x] # NoPass =>
    \A c \in pass[x].todo : c.op = "delete" => x \in queue \/ Labelled(c.name)

WorkInv == WorkKnown /\ DeletesLabelled

\* Version o of child n is not what x asks for.
Off(asked, o, x, n) ==
  \/ \E e \in asked : e.name = n /\ (o = NoObj \/ o.body # e.body \/ o.label # LabelOf[x])
  \/ o # NoObj /\ o.label = LabelOf[x] /\ \A e \in asked : e.name # n

LEMMA DiffersOff ==
  ASSUME NEW x \in Parent, NEW n \in Name
  PROVE  Differs(x, n) <=> Off(Asked(x), seenChild[n], x, n)
<1> DEFINE expected == Asked(x)
           missing == { e \in expected : seenChild[e.name] = NoObj }
           changed == { e \in expected \ missing :
                          \/ seenChild[e.name].body # e.body
                          \/ seenChild[e.name].label # getLabels(x) }
           left == Listed(x) \ { e.name : e \in expected }
<1>1. Diff(x) = { [op |-> "create", name |-> e.name, body |-> e.body] : e \in missing }
                \union { [op |-> "update", name |-> e.name, body |-> e.body] : e \in changed }
                \union { [op |-> "delete", name |-> m, body |-> seenChild[m].body] : m \in left }
  BY DEF Diff, Asked
<1> HIDE DEF expected, missing, changed, left
<1>2. Differs(x, n) <=> \/ \E e \in missing \union changed : e.name = n
                        \/ n \in left
  <2>1. ASSUME NEW c \in Diff(x)
        PROVE  (\E e \in missing \union changed : e.name = c.name) \/ c.name \in left
    BY <1>1, <2>1
  <2>2. ASSUME NEW e \in missing
        PROVE  [op |-> "create", name |-> e.name, body |-> e.body] \in Diff(x)
    BY <1>1, <2>2
  <2>3. ASSUME NEW e \in changed
        PROVE  [op |-> "update", name |-> e.name, body |-> e.body] \in Diff(x)
    BY <1>1, <2>3
  <2>4. ASSUME NEW m \in left
        PROVE  [op |-> "delete", name |-> m, body |-> seenChild[m].body] \in Diff(x)
    BY <1>1, <2>4
  <2>5. ASSUME NEW e \in missing \union changed
        PROVE  \E c \in Diff(x) : c.name = e.name
    BY <2>2, <2>3
  <2>6. ASSUME NEW m \in left
        PROVE  \E c \in Diff(x) : c.name = m
    BY <2>4
  <2> HIDE DEF missing, changed, left
  <2> QED BY <2>1, <2>5, <2>6 DEF Differs
<1>3. (\E e \in missing \union changed : e.name = n) <=>
        \E e \in Asked(x) : /\ e.name = n
                            /\ \/ seenChild[n] = NoObj
                               \/ seenChild[n].body # e.body
                               \/ seenChild[n].label # LabelOf[x]
  BY DEF missing, changed, expected, getLabels
<1>4. n \in left <=> /\ seenChild[n] # NoObj /\ seenChild[n].label = LabelOf[x]
                     /\ \A e \in Asked(x) : e.name # n
  BY DEF left, expected, Listed
<1> QED BY <1>2, <1>3, <1>4 DEF Off

LEMMA DiffersBy ==
  \A x \in Parent, n \in Name : Differs(x, n) <=> Off(Asked(x), seenChild[n], x, n)
  BY DiffersOff

LEMMA DiffersNext ==
  (\A x \in Parent, n \in Name : Differs(x, n) <=> Off(Asked(x), seenChild[n], x, n))'
  BY DiffersBy, PTL

\* A parent without annotation asks for nothing.
LEMMA AskedNothing ==
  ASSUME NEW x, seenParent[x].templates = <<>>
  PROVE  Asked(x) = {}
  BY DEF Asked, ExpectedObjects

\* The owner of a child that differs is the parent it differs for.
LEMMA DiffersOwner ==
  ASSUME Apart, OwnInv, NEW x \in Parent, NEW n \in Name, seenParent[x] # NoObj,
         Differs(x, n)
  PROVE  /\ n \in NamesOf(x)
         /\ \A o \in Child \union {NoObj} : (Made(n, o) /\ o # NoObj) => o.owner = x
<1>1. n \in NamesOf(x)
  BY DiffNames DEF Differs
<1>2. ASSUME NEW o \in Child, Made(n, o), o # NoObj
      PROVE  o.owner = x
  <2>1. o.owner \in Parent /\ n \in NamesOf(o.owner)
    BY <1>2 DEF Child, Made
  <2> QED BY <1>1, <2>1 DEF Apart
<1> QED BY <1>1, <1>2

\* The calls of a pass have names of children.
LEMMA TodoNames ==
  ASSUME TypeOK, NEW x \in Parent, pass[x] # NoPass, NEW c \in pass[x].todo
  PROVE  c.name \in Name /\ c \in Call
  BY RestType DEF Call

\* Where the caches stay and work is only moved, from calls to events to come.
LEMMA WorkFrame ==
  ASSUME TypeOK, WorkInv, UNCHANGED caches, queue \subseteq queue',
         \A n \in Name : (Labelled(n) => Labelled(n)') /\ (Stirs(n) => Stirs(n)'),
         \A x \in Parent : x \notin queue' =>
           /\ \A n \in Name : Planned(x, n) => Planned(x, n)' \/ Stirs(n)'
           /\ pass'[x] # NoPass =>
                pass[x] # NoPass /\ pass'[x].todo \subseteq pass[x].todo
  PROVE  WorkInv'
<1>1. \A x \in Parent, n \in Name : /\ Differs(x, n)' = Differs(x, n)
                                    /\ Doomed(x, n)' = Doomed(x, n)
                                    /\ seenParent'[x] = seenParent[x]
  BY DEF caches, Differs, Doomed, Diff, Listed, ExpectedObjects, Process, getLabels,
         isGeneratedFromTemplate
<1>2. WorkKnown'
  BY <1>1 DEF WorkInv, WorkKnown
<1>3. DeletesLabelled'
  BY TodoNames DEF WorkInv, DeletesLabelled
<1> QED BY <1>2, <1>3 DEF WorkInv

\* A new version at the end of a feed.
LEMMA FeedGrows ==
  ASSUME TypeOK, NEW n \in Name, NEW o \in Child \union {NoObj}, SetChild(n, o),
         UNCHANGED seenChild
  PROVE  /\ \A m \in Name : (Labelled(m) => Labelled(m)') /\ (Stirs(m) => Stirs(m)')
         /\ (isGeneratedFromTemplate(o) \/ Labelled(n)) => Stirs(n)'
<1>1. /\ feed'[n] = Append(feed[n], o)
      /\ \A m \in Name : m # n => feed'[m] = feed[m]
  BY DEF SetChild, TypeOK
<1>2. /\ feed[n] \in Seq(Child \union {NoObj}) /\ Len(feed[n]) \in Nat
      /\ DOMAIN feed[n] = 1..Len(feed[n])
      /\ feed'[n] # <<>> /\ DOMAIN feed'[n] = 1..(Len(feed[n]) + 1)
      /\ feed'[n][Len(feed[n]) + 1] = o
      /\ \A i \in 1..Len(feed[n]) : feed'[n][i] = feed[n][i]
  BY <1>1, FeedType, AppendProperties
<1>3. /\ Labelled(n) => Labelled(n)'
      /\ isGeneratedFromTemplate(o) => Labelled(n)'
  BY <1>2 DEF Labelled, isGeneratedFromTemplate
<1>4. \A m \in Name : m # n => (Labelled(m) <=> Labelled(m)') /\ (Stirs(m) <=> Stirs(m)')
  BY <1>1 DEF Labelled, Stirs, isGeneratedFromTemplate
<1> QED BY <1>2, <1>3, <1>4 DEF Stirs

\* Nothing is pending at a start but what is relisted.
LEMMA WorkStart ==
  ASSUME Apart, OwnInv, seenParent = parent, seenChild = child, queue = Relisted,
         \A x \in Parent : pass[x] = NoPass
  PROVE  WorkInv
<1>1. DeletesLabelled
  BY DEF DeletesLabelled
<1>2. ASSUME NEW x \in Parent, NEW n \in Name, seenParent[x] # NoObj, Differs(x, n)
      PROVE  x \in queue
  <2>1. CASE isMonitoringTemplateAnnotation(parent[x])
    BY <2>1 DEF Relisted
  <2>2. CASE ~isMonitoringTemplateAnnotation(parent[x])
    <3>1. seenParent[x].templates = <<>>
      BY <1>2, <2>2 DEF isMonitoringTemplateAnnotation
    <3>2. child[n] # NoObj /\ child[n].label = LabelOf[x]
      BY <1>2, <3>1, AskedNothing, DiffersBy DEF Off
    <3>3. isGeneratedFromTemplate(child[n])
      BY <3>2, AbsentAssumption, LabelAssumption DEF isGeneratedFromTemplate
    <3>4. child[n].owner = x
      BY <1>2, <3>2, DiffersOwner DEF OwnInv, ChildrenMade, TypeOK
    <3> QED BY <3>3, <3>4 DEF Relisted
  <2> QED BY <2>1, <2>2
<1> QED BY <1>1, <1>2 DEF WorkInv, WorkKnown


LEMMA WorkWork ==
  ASSUME TypeOK, WorkInv, NEW p \in Parent, Work(p)
  PROVE  WorkInv'
<1>1. PICK c \in pass[p].todo :
           /\ c \in Call /\ c.name \in Name
           /\ \/ Refuse(p)
              \/ \E o \in Child \union {NoObj} :
                   /\ Apply(p, c, o)
                   /\ o = NoObj => c.op = "delete"
                   /\ o # NoObj => /\ o.label # NoLabel
                                   /\ From(c.name, o) \/ FromPass(p, o)
  BY WorkVersions
<1>2. UNCHANGED caches /\ pass[p] # NoPass /\ pass[p] \in Pass
  BY DEF Work, TypeOK
<1>3. CASE Refuse(p)
  <2>1. /\ queue' = queue \union {p} /\ UNCHANGED feed
        /\ \A x \in Parent : x # p => pass'[x] = pass[x]
    BY <1>3 DEF Refuse, Abort, TypeOK
  <2>2. \A n \in Name : Labelled(n)' = Labelled(n) /\ Stirs(n)' = Stirs(n)
    BY <1>2, <2>1 DEF caches, Labelled, Stirs, isGeneratedFromTemplate
  <2>3. \A x \in Parent, n \in Name : x \notin queue' => (Planned(x, n) => Planned(x, n)')
    BY <2>1 DEF Planned
  <2> QED BY <1>2, <2>1, <2>2, <2>3, WorkFrame
<1>4. ASSUME NEW o \in Child \union {NoObj}, Apply(p, c, o),
             o = NoObj => c.op = "delete", o # NoObj => o.label # NoLabel
      PROVE  WorkInv'
  <2>1. SetChild(c.name, o) /\ UNCHANGED seenChild
    BY <1>2, <1>4 DEF Apply, caches
  <2>2. \A m \in Name : (Labelled(m) => Labelled(m)') /\ (Stirs(m) => Stirs(m)')
    BY <1>1, <2>1, FeedGrows
  <2>3. p \in queue \/ Stirs(c.name)'
    <3>1. o = NoObj => p \in queue \/ Labelled(c.name)
      BY <1>2, <1>4 DEF WorkInv, DeletesLabelled
    <3>2. o # NoObj => isGeneratedFromTemplate(o)
      BY <1>4 DEF isGeneratedFromTemplate
    <3> QED BY <1>1, <2>1, <3>1, <3>2, FeedGrows
  <2>4. PICK left \in [Parent -> Pass \union {NoPass}] :
          /\ pass' = Outdate(left, c.name)
          /\ \/ left = [pass EXCEPT ![p] = Rest(p, c)] /\ queue' = queue
             \/ left = [pass EXCEPT ![p] = NoPass] /\ queue' = queue \union {p}
    <3>1. /\ [pass EXCEPT ![p] = Rest(p, c)] \in [Parent -> Pass \union {NoPass}]
          /\ [pass EXCEPT ![p] = NoPass] \in [Parent -> Pass \union {NoPass}]
      BY <1>2, RestType DEF TypeOK
    <3> QED BY <1>4, <3>1 DEF Apply
  <2>5. \A x \in Parent : /\ left[x] = NoPass <=> pass'[x] = NoPass
                          /\ left[x] # NoPass => pass'[x].todo = left[x].todo
    BY <1>1, <2>4, OutdateCalls
  <2>6. \A x \in Parent : x # p => left[x] = pass[x]
    BY <2>4 DEF TypeOK
  <2>7. p \notin queue' => left[p] = Rest(p, c)
    BY <2>4 DEF TypeOK
  <2>8. \/ Rest(p, c) = NoPass /\ pass[p].todo = {c}
        \/ Rest(p, c) # NoPass /\ Rest(p, c).todo = pass[p].todo \ {c}
    <3>1. CASE pass[p].todo = {c}
      BY <3>1 DEF Rest
    <3>2. CASE pass[p].todo # {c}
      <4>1. [pass[p] EXCEPT !.todo = @ \ {c}] \in Pass
        BY <1>2 DEF Pass
      <4>2. [pass[p] EXCEPT !.todo = @ \ {c}].todo = pass[p].todo \ {c}
        BY <1>2 DEF Pass
      <4> QED BY <3>2, <4>1, <4>2, AbsentAssumption DEF Rest
    <3> QED BY <3>1, <3>2
  <2>9. ASSUME NEW x \in Parent, x \notin queue'
        PROVE  /\ \A n \in Name : Planned(x, n) => Planned(x, n)' \/ Stirs(n)'
               /\ pass'[x] # NoPass =>
                    pass[x] # NoPass /\ pass'[x].todo \subseteq pass[x].todo
    <3>1. CASE x # p
      BY <2>5, <2>6, <3>1 DEF Planned
    <3>2. CASE x = p
      <4>1. p \notin queue
        BY <2>4, <2>9, <3>2
      <4> QED BY <1>2, <2>3, <2>5, <2>7, <2>8, <2>9, <3>2, <4>1 DEF Planned
    <3> QED BY <3>1, <3>2
  <2>10. queue \subseteq queue'
    BY <2>4
  <2> QED BY <1>2, <2>2, <2>9, <2>10, WorkFrame
<1> QED BY <1>1, <1>3, <1>4

\* Users, the garbage collector and failing calls.
LEMMA WorkOthers ==
  ASSUME TypeOK, WorkInv,
         \/ \E p \in Parent : \/ CreateParent(p) \/ Annotate(p) \/ DeleteParent(p)
                              \/ CallFails(p)
         \/ \E t \in Template : WriteTemplate(t)
         \/ \E n \in Name : EditChild(n) \/ CollectGarbage(n)
         \/ UNCHANGED vars
  PROVE  WorkInv'
<1>1. ASSUME NEW n \in Name, EditChild(n) \/ CollectGarbage(n)
      PROVE  WorkInv'
  <2>1. PICK o \in Child \union {NoObj} : WriteChild(n, o)
    <3>1. ASSUME NEW b \in Body, child[n] # NoObj
          PROVE  [child[n] EXCEPT !.body = b] \in Child
      <4>1. child[n] \in Child
        BY <3>1 DEF TypeOK
      <4> QED BY <4>1 DEF Child
    <3> QED BY <1>1, <3>1 DEF EditChild, CollectGarbage
  <2>2. SetChild(n, o) /\ pass' = Outdate(pass, n) /\ UNCHANGED <<caches, queue>>
    BY <2>1 DEF WriteChild
  <2>3. \A m \in Name : (Labelled(m) => Labelled(m)') /\ (Stirs(m) => Stirs(m)')
    BY <2>2, FeedGrows DEF caches
  <2>4. \A x \in Parent : /\ pass[x] = NoPass <=> pass'[x] = NoPass
                          /\ pass[x] # NoPass => pass'[x].todo = pass[x].todo
    BY <2>2, OutdateCalls DEF TypeOK
  <2>5. \A x \in Parent, m \in Name : Planned(x, m) => Planned(x, m)'
    BY <2>4 DEF Planned
  <2> QED BY <2>2, <2>3, <2>4, <2>5, WorkFrame
<1>2. CASE \/ \E p \in Parent : \/ CreateParent(p) \/ Annotate(p) \/ DeleteParent(p)
                                \/ CallFails(p)
           \/ \E t \in Template : WriteTemplate(t)
           \/ UNCHANGED vars
  <2>1. /\ UNCHANGED <<caches, feed>> /\ queue \subseteq queue'
        /\ \A x \in Parent : x \notin queue' => pass'[x] = pass[x]
    <3>1. ASSUME NEW p \in Parent, CreateParent(p) \/ Annotate(p) \/ DeleteParent(p)
          PROVE  UNCHANGED <<caches, feed, queue, pass>>
      BY <3>1 DEF CreateParent, Annotate, DeleteParent, WriteParent
    <3>2. ASSUME NEW p \in Parent, CallFails(p)
          PROVE  /\ UNCHANGED <<caches, feed>> /\ queue \subseteq queue'
                 /\ \A x \in Parent : x \notin queue' => pass'[x] = pass[x]
      BY <3>2 DEF CallFails, Abort, TypeOK
    <3>3. ASSUME NEW t \in Template, WriteTemplate(t)
          PROVE  UNCHANGED <<caches, feed, queue, pass>>
      BY <3>3 DEF WriteTemplate
    <3>4. CASE UNCHANGED vars
      BY <3>4 DEF vars
    <3> QED BY <1>2, <3>1, <3>2, <3>3, <3>4
  <2>2. \A n \in Name : Labelled(n)' = Labelled(n) /\ Stirs(n)' = Stirs(n)
    BY <2>1 DEF caches, Labelled, Stirs, isGeneratedFromTemplate
  <2>3. \A x \in Parent, n \in Name : x \notin queue' => (Planned(x, n) => Planned(x, n)')
    BY <2>1 DEF Planned
  <2> QED BY <2>1, <2>2, <2>3, WorkFrame
<1> QED BY <1>1, <1>2

\* What a parent asks for depends on its version and its templates only.
LEMMA AskedSame ==
  ASSUME NEW x \in Parent, seenParent'[x] = seenParent[x],
         \A t \in templateIndexer(seenParent[x]) : seenTemplate'[t] = seenTemplate[t],
         seenParent[x] # NoObj
  PROVE  Asked(x)' = Asked(x)
<1>1. \A i \in DOMAIN seenParent[x].templates :
        Process(x, seenParent[x].templates[i], seenTemplate)'
          = Process(x, seenParent[x].templates[i], seenTemplate)
  BY DEF templateIndexer, Process
<1> DEFINE list == seenParent[x].templates
           r == [i \in DOMAIN list |-> Process(x, list[i], seenTemplate)]
           made == { i \in DOMAIN list : r[i] \in Rendered }
           first == { j \in made : \A k \in made : k < j => r[k].name # r[j].name }
<1>2. list' = list
  OBVIOUS
<1>3. r' = r
  BY <1>1
<1>4. Asked(x) = { r[i] : i \in first }
  BY DEF Asked, ExpectedObjects
<1>5. Asked(x)' = { r'[i] : i \in first' }
  BY DEF Asked, ExpectedObjects
<1>6. first' = first
  <2> HIDE DEF r
  <2> QED BY <1>2, <1>3
<1> HIDE DEF first, r
<1> QED BY <1>3, <1>4, <1>5, <1>6

LEMMA WorkSyncTemplate ==
  ASSUME TypeOK, WorkInv, NEW t \in Template, SyncTemplate(t)
  PROVE  WorkInv'
<1>1. /\ UNCHANGED <<seenParent, seenChild, feed, pass>>
      /\ queue' = queue \union WatchTemplate(t)
      /\ seenTemplate' = [seenTemplate EXCEPT ![t] = template[t]]
  BY DEF SyncTemplate, api
<1>2. \A n \in Name : Labelled(n)' = Labelled(n) /\ Stirs(n)' = Stirs(n)
  BY <1>1 DEF Labelled, Stirs, isGeneratedFromTemplate
<1>3. ASSUME NEW x \in Parent, NEW n \in Name, seenParent[x] # NoObj, x \notin queue',
             Differs(x, n)'
      PROVE  Differs(x, n)
  <2>1. t \notin templateIndexer(seenParent[x])
    BY <1>1, <1>3 DEF WatchTemplate
  <2>2. \A u \in templateIndexer(seenParent[x]) : seenTemplate'[u] = seenTemplate[u]
    <3>1. seenTemplate \in [Template -> Content \union {NoObj}]
      BY DEF TypeOK
    <3>2. templateIndexer(seenParent[x]) \subseteq Template
      <4>1. seenParent[x].templates \in Seq(Template)
        BY <1>3, AnnotationAssumption DEF TypeOK, ParentObj
      <4> QED BY <4>1 DEF templateIndexer
    <3> QED BY <1>1, <2>1, <3>1, <3>2
  <2>3. Asked(x)' = Asked(x)
    BY <1>1, <1>3, <2>2, AskedSame
  <2> QED BY <1>1, <1>3, <2>3, DiffersBy, DiffersNext
<1>4. WorkKnown'
  <2>1. \A x \in Parent, n \in Name : Planned(x, n)' = Planned(x, n) /\ Doomed(x, n)' = Doomed(x, n)
    BY <1>1 DEF Planned, Doomed, isGeneratedFromTemplate
  <2> QED BY <1>1, <1>2, <1>3, <2>1 DEF WorkInv, WorkKnown
<1>5. DeletesLabelled'
  BY <1>1, <1>2, TodoNames DEF WorkInv, DeletesLabelled
<1> QED BY <1>4, <1>5 DEF WorkInv


\* A parent that comes back without annotation wakes nobody: the children of the
\* one before it have another uid.
LEMMA WorkSyncParent ==
  ASSUME Apart, OwnInv, SeenInv, WorkInv, NEW p \in Parent, SyncParent(p)
  PROVE  WorkInv'
<1>1. /\ UNCHANGED <<parent, seenTemplate, seenChild, feed, pass>>
      /\ seenParent' = [seenParent EXCEPT ![p] = parent[p]]
      /\ queue' = queue \union IF ViewParent(seenParent[p], parent[p]) THEN {p} ELSE {}
  BY DEF SyncParent, api
<1>2. /\ \A n \in Name : Labelled(n)' = Labelled(n) /\ Stirs(n)' = Stirs(n)
      /\ \A x \in Parent, n \in Name : Planned(x, n)' = Planned(x, n)
  BY <1>1 DEF Labelled, Stirs, Planned, isGeneratedFromTemplate
<1>3. ASSUME NEW x \in Parent, NEW n \in Name, seenParent'[x] # NoObj, x \notin queue',
             Differs(x, n)', x # p
      PROVE  seenParent[x] # NoObj /\ Differs(x, n) /\ Doomed(x, n)' = Doomed(x, n)
  <2>1. seenParent'[x] = seenParent[x]
    BY <1>1, <1>3 DEF OwnInv, TypeOK
  <2>2. Asked(x)' = Asked(x)
    BY <1>1, <1>3, <2>1, AskedSame
  <2> QED BY <1>1, <1>3, <2>1, <2>2, DiffersBy, DiffersNext DEF Doomed, isGeneratedFromTemplate
<1>4. ASSUME NEW n \in Name, seenParent'[p] # NoObj, p \notin queue', Differs(p, n)'
      PROVE  \/ seenParent[p] # NoObj /\ Differs(p, n) /\ Doomed(p, n)' = Doomed(p, n)
             \/ Doomed(p, n)'
  <2>1. seenParent'[p] = parent[p] /\ parent[p] # NoObj
    BY <1>1, <1>4 DEF OwnInv, TypeOK
  <2>2. /\ parent[p].templates = <<>>
        /\ seenParent[p] # NoObj => seenParent[p].templates = <<>>
    BY <1>1, <1>4, <2>1 DEF ViewParent, isMonitoringTemplateAnnotation
  <2>3. Asked(p)' = {}
    <3>1. seenParent'[p].templates = <<>>
      BY <2>1, <2>2
    <3> QED BY <3>1 DEF Asked, ExpectedObjects
  <2>4. seenChild[n] # NoObj /\ seenChild[n].label = LabelOf[p]
    BY <1>1, <1>4, <2>3, DiffersNext DEF Off
  <2>5. isGeneratedFromTemplate(seenChild[n])
    BY <2>4, AbsentAssumption, LabelAssumption DEF isGeneratedFromTemplate
  <2>6. CASE Unseen(p)
    <3>1. seenChild[n].owner = p
      <4>1. seenChild[n] \in Child /\ Made(n, seenChild[n])
        BY <2>4 DEF OwnInv, TypeOK, ChildrenMade
      <4>2. LabelOf[seenChild[n].owner] = LabelOf[p] /\ seenChild[n].owner \in Parent
        BY <2>4, <4>1, AbsentAssumption, LabelAssumption DEF Made, Child
      <4> QED BY <4>2 DEF Apart
    <3>2. seenChild[n].uid # parent[p].uid
      BY <2>4, <2>6, <3>1 DEF SeenInv, UnseenUnused, Versions
    <3> QED BY <1>1, <2>1, <2>5, <3>2 DEF Doomed, isGeneratedFromTemplate
  <2>7. CASE ~Unseen(p)
    <3>1. seenParent[p] # NoObj /\ seenParent[p].uid = parent[p].uid
      BY <2>1, <2>7 DEF Unseen
    <3>2. Asked(p) = {}
      BY <2>2, <3>1, AskedNothing
    <3>3. Differs(p, n)
      BY <2>4, <3>2, DiffersBy DEF Off
    <3>4. Doomed(p, n)' = Doomed(p, n)
      BY <1>1, <2>1, <3>1 DEF Doomed, isGeneratedFromTemplate
    <3> QED BY <3>1, <3>3, <3>4
  <2> QED BY <2>6, <2>7
<1>5. WorkKnown'
  BY <1>1, <1>2, <1>3, <1>4 DEF WorkInv, WorkKnown
<1>6. DeletesLabelled'
  BY <1>1, <1>2, TodoNames DEF WorkInv, DeletesLabelled, OwnInv
<1> QED BY <1>5, <1>6 DEF WorkInv

\* The next version of a child wakes its parent, or makes no difference.
LEMMA WorkSyncChild ==
  ASSUME Apart, OwnInv, OwnInv', SeenInv, WorkInv, NEW n \in Name, SyncChild(n)
  PROVE  WorkInv'
<1> DEFINE old == seenChild[n]
           new == Head(feed[n])
<1>1. /\ UNCHANGED <<seenParent, seenTemplate, pass>> /\ feed[n] # <<>>
      /\ seenChild' = [seenChild EXCEPT ![n] = new] /\ feed' = [feed EXCEPT ![n] = Tail(@)]
      /\ queue' = queue \union IF ViewChild(old, new) THEN Owners(old, new) ELSE {}
  BY DEF SyncChild, api
<1>2. /\ seenChild'[n] = new /\ feed'[n] = Tail(feed[n])
      /\ \A m \in Name : m # n => seenChild'[m] = seenChild[m] /\ feed'[m] = feed[m]
  BY <1>1 DEF OwnInv, TypeOK
<1>3. /\ feed[n] \in Seq(Child \union {NoObj}) /\ Len(feed[n]) \in Nat \ {0}
      /\ DOMAIN feed[n] = 1..Len(feed[n]) /\ new = feed[n][1]
      /\ DOMAIN Tail(feed[n]) = 1..(Len(feed[n]) - 1)
      /\ \A i \in 1..(Len(feed[n]) - 1) : Tail(feed[n])[i] = feed[n][i + 1]
  <2>1. feed[n] \in Seq(Child \union {NoObj}) /\ feed[n] # <<>>
    BY <1>1 DEF OwnInv, TypeOK
  <2> QED BY <2>1
<1>4. /\ old \in Child \union {NoObj} /\ new \in Child \union {NoObj}
      /\ Made(n, old) /\ Made(n, new)
      /\ Bare(new) => Bare(old)
  <2>1. 1 \in 1..Len(feed[n]) /\ 1 - 1 = 0
    BY <1>3
  <2>2. Bare(Version(n, 1)) => Bare(Version(n, 0))
    BY <2>1 DEF SeenInv, Chained
  <2>3. Version(n, 1) = new /\ Version(n, 0) = old
    BY <1>3 DEF Version
  <2>4. Made(n, old) /\ Made(n, new)
    BY <1>3, <2>1 DEF OwnInv, ChildrenMade
  <2>5. old \in Child \union {NoObj} /\ new \in Child \union {NoObj}
    BY <1>3 DEF OwnInv, TypeOK
  <2> QED BY <2>2, <2>3, <2>4, <2>5
<1> HIDE DEF old, new
<1>5. CASE ViewChild(old, new)
  <2>1. \E o \in {old, new} : o # NoObj
    BY <1>5 DEF ViewChild, isGeneratedFromTemplate
  <2>2. ASSUME NEW x \in Parent, n \in NamesOf(x)
        PROVE  x \in queue'
    <3>1. PICK o \in {old, new} : o # NoObj
      BY <2>1
    <3>2. o.owner \in Parent /\ n \in NamesOf(o.owner)
      BY <1>4, <3>1 DEF Made, Child
    <3>3. o.owner = x
      BY <2>2, <3>2 DEF Apart
    <3> QED BY <1>1, <1>5, <3>1, <3>3 DEF Owners
  <2> QED
    <3>1. ASSUME NEW x \in Parent, NEW m \in Name, seenParent'[x] # NoObj, x \notin queue',
                 Differs(x, m)'
          PROVE  Planned(x, m)' \/ Stirs(m)' \/ Doomed(x, m)'
      <4>1. m # n
        <5>1. \A y \in Parent : seenParent'[y] # NoObj =>
                \A c \in Diff(y)' : c.name \in NamesOf(y)
          BY DiffNamesNext
        <5> QED BY <2>2, <3>1, <5>1 DEF Differs
      <4>2. Asked(x)' = Asked(x)
        BY <1>1, <3>1, AskedSame
      <4>3. Differs(x, m)
        BY <1>2, <3>1, <4>1, <4>2, DiffersBy, DiffersNext
      <4>4. Planned(x, m) \/ Stirs(m) \/ Doomed(x, m)
        BY <1>1, <3>1, <4>3 DEF WorkInv, WorkKnown
      <4> QED BY <1>1, <1>2, <4>1, <4>4 DEF Planned, Stirs, Labelled, Doomed,
                 isGeneratedFromTemplate
    <3>2. ASSUME NEW x \in Parent, pass'[x] # NoPass, NEW c \in pass'[x].todo,
                 c.op = "delete", x \notin queue'
          PROVE  Labelled(c.name)'
      <4>1. c.name \in NamesOf(x) /\ c.name \in Name
        BY <1>1, <3>2, TodoNames DEF OwnInv, CallsMade
      <4>2. c.name # n
        BY <2>2, <3>2, <4>1
      <4>3. Labelled(c.name)
        BY <1>1, <3>2 DEF WorkInv, DeletesLabelled
      <4> QED BY <1>2, <4>1, <4>2, <4>3 DEF Labelled, isGeneratedFromTemplate
    <3> QED BY <3>1, <3>2 DEF WorkInv, WorkKnown, DeletesLabelled
<1>6. CASE ~ViewChild(old, new)
  <2>1. /\ ~isGeneratedFromTemplate(old) /\ ~isGeneratedFromTemplate(new)
        /\ \/ new = NoObj /\ (old = NoObj \/ Bare(old))
           \/ Bare(new) /\ Bare(old)
    BY <1>4, <1>6 DEF ViewChild, isGeneratedFromTemplate, Bare
  <2>2. queue' = queue
    BY <1>1, <1>6
  <2>3. /\ \A m \in Name : Labelled(m) => Labelled(m)'
        /\ Labelled(n) => feed'[n] # <<>>
    <3>1. ASSUME Labelled(n)
          PROVE  Labelled(n)' /\ feed'[n] # <<>>
      <4>1. PICK i \in DOMAIN feed[n] : isGeneratedFromTemplate(feed[n][i])
        BY <2>1, <3>1 DEF Labelled, old
      <4>2. i # 1
        BY <1>3, <2>1, <4>1
      <4>3. PICK j \in 1..(Len(feed[n]) - 1) : i = j + 1
        <5>1. i - 1 \in 1..(Len(feed[n]) - 1) /\ i = (i - 1) + 1
          BY <1>3, <4>1, <4>2
        <5> QED BY <5>1
      <4>4. j \in DOMAIN feed'[n] /\ feed'[n][j] = feed[n][i]
        BY <1>2, <1>3, <4>3
      <4> QED BY <4>1, <4>4 DEF Labelled, isGeneratedFromTemplate
    <3> QED BY <1>2, <3>1 DEF Labelled, isGeneratedFromTemplate
  <2>4. \A m \in Name : Stirs(m) => Stirs(m)'
    BY <1>2, <2>3 DEF Stirs
  <2>5. ASSUME NEW x \in Parent, NEW m \in Name, seenParent[x] # NoObj, Differs(x, m)'
        PROVE  Differs(x, m) /\ (Doomed(x, m) => Doomed(x, m)')
    <3>1. Asked(x)' = Asked(x)
      BY <1>1, <2>5, AskedSame
    <3>2. CASE m # n
      BY <1>1, <1>2, <2>5, <3>1, <3>2, DiffersBy, DiffersNext DEF Doomed, isGeneratedFromTemplate
    <3>3. CASE m = n
      <4>1. LabelOf[x] # NoLabel
        BY LabelAssumption, AbsentAssumption
      <4>2. Off(Asked(x), new, x, n) => Off(Asked(x), old, x, n)
        BY <2>1, <4>1 DEF Off, Bare
      <4>3. Differs(x, n)
        BY <1>2, <2>5, <3>1, <3>3, <4>2, DiffersBy, DiffersNext DEF old
      <4> QED BY <2>1, <3>3, <4>3 DEF Doomed, old
    <3> QED BY <3>2, <3>3
  <2>6. \A x \in Parent, m \in Name : Planned(x, m)' = Planned(x, m)
    BY <1>1 DEF Planned
  <2>7. WorkKnown'
    BY <1>1, <2>2, <2>4, <2>5, <2>6 DEF WorkInv, WorkKnown
  <2>8. DeletesLabelled'
    BY <1>1, <2>2, <2>3, TodoNames DEF WorkInv, DeletesLabelled, OwnInv
  <2> QED BY <2>7, <2>8 DEF WorkInv
<1> QED BY <1>5, <1>6

\* A pass that starts plans every call that is needed.
LEMMA WorkRead ==
  ASSUME TypeOK, WorkInv, NEW p \in Parent, Read(p)
  PROVE  WorkInv'
<1> DEFINE started == [uid |-> seenParent[p].uid, todo |-> Diff(p),
                       stale |-> {n \in Name : feed[n] # <<>>}]
<1>1. UNCHANGED <<seenParent, seenTemplate, seenChild, feed>>
  BY DEF Read, caches
<1>2. /\ queue' = queue \ {p}
      /\ \A x \in Parent : x # p => pass'[x] = pass[x]
      /\ pass'[p] = IF Diff(p) = {} THEN NoPass ELSE started
  BY DEF Read, Take, TypeOK
<1>3. started # NoPass /\ started.todo = Diff(p)
  <2>1. seenParent[p].uid \in 1..MaxUid /\ Diff(p) \subseteq Call
    BY DiffType DEF Read, TypeOK, ParentObj
  <2>2. started \in Pass
    BY <2>1 DEF Pass
  <2> QED BY <2>2, AbsentAssumption
<1> HIDE DEF started
<1>4. /\ \A x \in Parent : x # p => pass'[x] = pass[x] /\ (x \in queue => x \in queue')
      /\ \/ Diff(p) = {} /\ pass'[p] = NoPass
         \/ pass'[p].todo = Diff(p) /\ pass'[p] # NoPass
  BY <1>2, <1>3
<1>5. \A x \in Parent, n \in Name : /\ Differs(x, n)' = Differs(x, n)
                                    /\ Doomed(x, n)' = Doomed(x, n)
                                    /\ Labelled(n)' = Labelled(n) /\ Stirs(n)' = Stirs(n)
  BY <1>1 DEF Differs, Doomed, Diff, Listed, ExpectedObjects, Process, getLabels,
     isGeneratedFromTemplate, Labelled, Stirs
<1>6. WorkKnown'
  <2> SUFFICES ASSUME NEW x \in Parent, NEW n \in Name, seenParent'[x] # NoObj,
                      Differs(x, n)', x \notin queue'
               PROVE  Planned(x, n)' \/ Stirs(n)' \/ Doomed(x, n)'
    BY DEF WorkKnown
  <2>1. CASE x # p
    BY <1>1, <1>4, <1>5, <2>1 DEF WorkInv, WorkKnown, Planned
  <2>2. CASE x = p
    BY <1>4, <1>5, <2>2 DEF Differs, Planned
  <2> QED BY <2>1, <2>2
<1>7. DeletesLabelled'
  <2> SUFFICES ASSUME NEW x \in Parent, pass'[x] # NoPass, NEW c \in pass'[x].todo,
                      c.op = "delete", x \notin queue'
               PROVE  Labelled(c.name)'
    BY DEF DeletesLabelled
  <2>1. CASE x # p
    BY <1>4, <1>5, <2>1, TodoNames DEF WorkInv, DeletesLabelled
  <2>2. CASE x = p
    <3>1. c \in Diff(p)
      BY <1>4, <2>2
    <3>2. c.name \in Listed(p)
      BY <3>1 DEF Diff
    <3>3. Labelled(c.name) /\ c.name \in Name
      BY <3>2, LabelAssumption, AbsentAssumption DEF Listed, Labelled, isGeneratedFromTemplate
    <3> QED BY <1>5, <2>2, <3>3
  <2> QED BY <2>1, <2>2
<1> QED BY <1>6, <1>7 DEF WorkInv

LEMMA WorkAbsent ==
  ASSUME TypeOK, WorkInv, NEW p \in Parent, ReconcileAbsent(p)
  PROVE  WorkInv'
<1>1. /\ UNCHANGED <<seenParent, seenTemplate, seenChild, feed, pass>>
      /\ queue' = queue \ {p} /\ pass[p] = NoPass /\ seenParent[p] = NoObj
  BY DEF ReconcileAbsent, Take, caches
<1>2. \A x \in Parent, n \in Name : /\ Differs(x, n)' = Differs(x, n)
                                    /\ Doomed(x, n)' = Doomed(x, n)
                                    /\ Planned(x, n)' = Planned(x, n)
                                    /\ Labelled(n)' = Labelled(n) /\ Stirs(n)' = Stirs(n)
  BY <1>1 DEF Differs, Doomed, Diff, Listed, ExpectedObjects, Process, getLabels,
     isGeneratedFromTemplate, Labelled, Stirs, Planned
<1>3. WorkKnown'
  BY <1>1, <1>2 DEF WorkInv, WorkKnown
<1>4. DeletesLabelled'
  BY <1>1, <1>2, TodoNames DEF WorkInv, DeletesLabelled
<1> QED BY <1>3, <1>4 DEF WorkInv

LEMMA WorkInit == Apart /\ Init => WorkInv
  BY OwnInit, WorkStart DEF Init

LEMMA WorkStartNow ==
  Apart /\ OwnInv /\ seenParent = parent /\ seenChild = child /\ queue = Relisted
  /\ (\A x \in Parent : pass[x] = NoPass) => WorkInv
  BY WorkStart

LEMMA WorkStarted ==
  (Apart /\ OwnInv /\ seenParent = parent /\ seenChild = child /\ queue = Relisted
   /\ (\A x \in Parent : pass[x] = NoPass) => WorkInv)'
  BY WorkStartNow, PTL

LEMMA WorkNext == Apart /\ OwnInv /\ SeenInv /\ WorkInv /\ [Next]_vars => WorkInv'
<1> SUFFICES ASSUME Apart, OwnInv, SeenInv, WorkInv, [Next]_vars PROVE WorkInv'
  OBVIOUS
<1>1. OwnInv' /\ TypeOK
  BY OwnStep DEF OwnInv
<1>2. CASE Restart
  <2>1. /\ seenParent' = parent' /\ seenChild' = child' /\ queue' = Relisted'
        /\ \A x \in Parent : pass'[x] = NoPass
    BY <1>2 DEF Restart, api, Relisted, isMonitoringTemplateAnnotation, isGeneratedFromTemplate
  <2> QED BY <1>1, <2>1, WorkStarted
<1> QED BY <1>1, <1>2, WorkWork, WorkOthers, WorkSyncParent, WorkSyncTemplate,
        WorkSyncChild, WorkRead, WorkAbsent DEF Next

LEMMA CurrentStep ==
  ASSUME Apart, OwnInv, SeenInv, WorkInv
  PROVE  ChildrenAreCurrent
<1> SUFFICES ASSUME Settled, NEW p \in Parent
             PROVE  Current(p)
  BY DEF ChildrenAreCurrent
<1>1. /\ seenParent[p] = parent[p]
      /\ \A t \in Template : seenTemplate[t] = template[t]
      /\ \A n \in Name : seenChild[n] = child[n]
  <2>1. \A n \in Name : feed[n] = <<>>
    BY DEF Settled
  <2> QED BY <2>1 DEF Settled, SeenInv, Synced, Chained, Version
<1>2. seenTemplate = template
  BY <1>1 DEF OwnInv, TypeOK
<1>3. ASSUME NEW n \in Name, isGeneratedFromTemplate(child[n]), child[n].owner = p
      PROVE  parent[p] # NoObj /\ child[n].uid = parent[p].uid
  BY <1>3 DEF Settled, Garbage, isGeneratedFromTemplate
<1>4. CASE parent[p] = NoObj
  BY <1>3, <1>4 DEF Current
<1>5. CASE parent[p] # NoObj
  <2>1. Asked(p) = ExpectedObjects(p, parent[p].templates, template)
    BY <1>1, <1>2 DEF Asked
  <2>2. ASSUME NEW n \in Name
        PROVE  ~Off(Asked(p), child[n], p, n)
    <3> SUFFICES ASSUME Differs(p, n)
                 PROVE  FALSE
      BY <1>1, DiffersBy
    <3>1. Doomed(p, n)
      BY <1>1, <1>5 DEF Settled, WorkInv, WorkKnown, Planned, Stirs
    <3>2. isGeneratedFromTemplate(child[n]) /\ child[n].uid # parent[p].uid
      BY <1>1, <3>1 DEF Doomed
    <3>3. child[n].owner = p
      <4>1. child[n] \in Child \union {NoObj} /\ Made(n, child[n]) /\ child[n] # NoObj
        BY <3>2 DEF OwnInv, TypeOK, ChildrenMade, isGeneratedFromTemplate
      <4>2. seenParent[p] # NoObj
        BY <1>1, <1>5
      <4> QED BY <4>1, <4>2, DiffersOwner
    <3> QED BY <1>3, <3>2, <3>3
  <2>3. ASSUME NEW e \in Asked(p)
        PROVE  /\ child[e.name] # NoObj
               /\ child[e.name].owner = p /\ child[e.name].label = LabelOf[p]
               /\ child[e.name].body = e.body
    <3>1. e \in Rendered /\ e.name \in NamesOf(p)
      <4>1. parent[p].templates \in Annotation
        BY <1>5 DEF OwnInv, TypeOK, ParentObj
      <4> QED BY <2>1, <4>1, ExpectedType DEF OwnInv, TypeOK
    <3>2. e.name \in Name
      BY <3>1 DEF Rendered
    <3>3. /\ child[e.name] # NoObj /\ child[e.name].label = LabelOf[p]
          /\ child[e.name].body = e.body
      BY <2>2, <3>2 DEF Off
    <3>4. child[e.name].owner \in Parent /\ e.name \in NamesOf(child[e.name].owner)
      BY <3>2, <3>3 DEF OwnInv, TypeOK, ChildrenMade, Made, Child
    <3> QED BY <3>1, <3>3, <3>4 DEF Apart
  <2>4. ASSUME NEW n \in Name, isGeneratedFromTemplate(child[n]), child[n].owner = p
        PROVE  \E e \in Asked(p) : e.name = n
    <3>1. child[n] # NoObj /\ child[n].label = LabelOf[p]
      BY <2>4 DEF isGeneratedFromTemplate, OwnInv, ChildrenMade, Made
    <3> QED BY <2>2, <3>1 DEF Off
  <2> QED BY <1>5, <2>1, <2>3, <2>4 DEF Current
<1> QED BY <1>4, <1>5

\* With labels and names apart, once no event, key, pass or garbage is left every
\* parent has the children its latest annotation and the latest templates ask for,
\* and no other: whatever order events came in, whichever passes read one version
\* of a parent, a template or a child without the next, whatever calls failed.
THEOREM CurrentTheorem ==
  ASSUME Apart
  PROVE  Spec => []ChildrenAreCurrent
<1>1. Init => OwnInv /\ SeenInv /\ WorkInv
  BY OwnInit, SeenInit, WorkInit
<1>2. OwnInv /\ SeenInv /\ WorkInv /\ [Next]_vars => OwnInv' /\ SeenInv' /\ WorkInv'
  BY OwnStep, SeenNext, WorkNext DEF OwnInv
<1>3. OwnInv /\ SeenInv /\ WorkInv => ChildrenAreCurrent
  BY CurrentStep
<1> QED BY <1>1, <1>2, <1>3, PTL DEF Spec

=============================================================================
