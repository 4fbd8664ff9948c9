----------------------- MODULE CentreonHandlerProofs -----------------------
(***************************************************************************)
(* Theorems about CentreonHandler, for every value of its constants.       *)
(***************************************************************************)
EXTENDS CentreonHandler, TLAPS

\* The calls that are left are of use: they concern compared fields, set macros
\* that are described and delete ones that are not and were set on the service; an
\* update that settles all has none for the template or the command.
TodoFits ==
  pc # "idle" =>
    /\ actual \in Service
    /\ settles \in (IF pc = "update" THEN {"some", "all"} ELSE {"nothing"})
    /\ \A c \in todo :
         /\ pc = "update" => FieldOf(c) \notin ignored
         /\ settles = "all" => ~Brings(c)
         /\ c.op = "setMacro" => expected.macros[c.of] # NoMacro
         /\ c.op = "deleteMacro" => /\ expected.macros[c.of] = NoMacro
                                    /\ actual.macros[c.of] # NoMacro

\* During an update no difference is left that no call of it removes, but for the
\* macros a new template or command no longer brings.
PassDiffers ==
  pc = "update" =>
    \A c \in DiffService(actual, expected, ignored) :
      c \in todo \/ (settles = "some" /\ c.op = "setMacro")

\* Between passes no call is left.
IdleRests == pc = "idle" => todo = {}

HandlerInv ==
  TypeOK /\ TodoFits /\ PassDiffers /\ IdleRests /\ UpdateSettles /\ CallsReachService

(***************************************************************************)
(* Calls and what they do.                                                 *)
(***************************************************************************)
LEMMA CallForms ==
  ASSUME NEW c \in Call
  PROVE  \/ c = [op |-> "rename", of |-> "name"]
         \/ c = [op |-> "move", of |-> "host"]
         \/ \E x \in Param : c = [op |-> "param", of |-> x]
         \/ \E l \in List : c = [op |-> "set", of |-> l]
         \/ \E l \in List : c = [op |-> "delete", of |-> l]
         \/ \E m \in MacroName : c = [op |-> "setMacro", of |-> m]
         \/ \E m \in MacroName : c = [op |-> "deleteMacro", of |-> m]
  BY DEF Call

\* A call leaves a service.
LEMMA EffectsType ==
  ASSUME NEW a \in Service, NEW e \in Service, NEW c \in Call,
         \A m \in MacroName : e.macros[m] \in Wanted \union {NoMacro},
         c.op = "setMacro" => e.macros[c.of] # NoMacro,
         NEW b \in Effects(a, e, c)
  PROVE  b \in Service
<1>1. CASE c = [op |-> "rename", of |-> "name"]
  BY <1>1 DEF Effects, Service
<1>2. CASE c = [op |-> "move", of |-> "host"]
  BY <1>2 DEF Effects, Service
<1>3. ASSUME NEW x \in Param, c = [op |-> "param", of |-> x]
      PROVE  b \in Service
  <2>1. b = [a EXCEPT !.params[x] = e.params[x]]
    BY <1>3 DEF Effects
  <2> QED BY <2>1 DEF Service
<1>4. ASSUME NEW l \in List, c.op \in {"set", "delete"}, c.of = l
      PROVE  b \in Service
  <2>1. \E s \in SUBSET Member : b = [a EXCEPT !.lists[l] = s]
    BY <1>4 DEF Effects, Service
  <2> QED BY <2>1 DEF Service
<1>5. ASSUME NEW m \in MacroName, c.op \in {"setMacro", "deleteMacro"}, c.of = m
      PROVE  b \in Service
  <2>1. \E x \in Macro \union {NoMacro} : b = [a EXCEPT !.macros[m] = x]
    BY <1>5 DEF Effects, Wanted, Macro
  <2> QED BY <2>1 DEF Service
<1> QED BY <1>1, <1>2, <1>3, <1>4, <1>5, CallForms

\* A call changes one field, and of the macros one.
LEMMA EffectsFrame ==
  ASSUME NEW a \in Service, NEW e \in Service, NEW c \in Call,
         NEW b \in Effects(a, e, c)
  PROVE  /\ c.op # "rename" => b.name = a.name
         /\ c.op # "move" => b.host = a.host
         /\ \A x \in Param : (c.op = "param" => c.of # x) => b.params[x] = a.params[x]
         /\ \A l \in List : (c.op \in {"set", "delete"} => c.of # l)
                               => b.lists[l] = a.lists[l]
         /\ \A m \in MacroName : (c.op \in {"setMacro", "deleteMacro"} => c.of # m)
                                    => b.macros[m] = a.macros[m]
         /\ c.op \notin {"setMacro", "deleteMacro"} => b.macros = a.macros
<1>1. CASE c = [op |-> "rename", of |-> "name"]
  BY <1>1 DEF Effects, Service
<1>2. CASE c = [op |-> "move", of |-> "host"]
  BY <1>2 DEF Effects, Service
<1>3. CASE \E x \in Param : c = [op |-> "param", of |-> x]
  BY <1>3 DEF Effects, Service
<1>4. CASE \E l \in List : c = [op |-> "set", of |-> l]
  BY <1>4 DEF Effects, Service
<1>5. CASE \E l \in List : c = [op |-> "delete", of |-> l]
  BY <1>5 DEF Effects, Service
<1>6. CASE \E m \in MacroName : c = [op |-> "setMacro", of |-> m]
  <2>1. PICK m \in MacroName : c = [op |-> "setMacro", of |-> m]
    BY <1>6
  <2>2. PICK flag \in NoPassword :
          b = [a EXCEPT !.macros[m] = [value |-> e.macros[m].value,
                                       isPassword |-> flag, direct |-> TRUE]]
    BY <2>1 DEF Effects
  <2> QED BY <2>1, <2>2 DEF Service
<1>7. CASE \E m \in MacroName : c = [op |-> "deleteMacro", of |-> m]
  BY <1>7 DEF Effects, Service
<1> QED BY <1>1, <1>2, <1>3, <1>4, <1>5, <1>6, <1>7, CallForms

(***************************************************************************)
(* The macros GetService reads.                                            *)
(***************************************************************************)

\* What is brought is never deleted.
LEMMA BroughtStays ==
  ASSUME NEW a \in Service, NEW m \in MacroName
  PROVE  ~Deletable(Brought(a)[m])
<1>1. [x \in Bringer |-> a.params[x]] \in [Bringer -> Value]
  BY TemplateAssumption DEF Service
<1>2. Brought(a)[m] \in Indirect \union {NoMacro}
  BY <1>1, InheritedAssumption DEF Brought
<1> QED BY <1>2 DEF Indirect, Deletable

\* A macro that may be deleted was set on the service.
LEMMA DeletableOwn ==
  ASSUME NEW a \in Service, NEW m \in MacroName, Deletable(GetMacros(a)[m])
  PROVE  a.macros[m] # NoMacro /\ GetMacros(a)[m] = a.macros[m]
  BY BroughtStays DEF GetMacros

LEMMA GetOwn ==
  ASSUME NEW a \in Service, NEW m \in MacroName, a.macros[m] # NoMacro
  PROVE  GetMacros(a)[m] = a.macros[m]
  BY DEF GetMacros

\* A call that brings nothing changes one macro at most.
LEMMA EffectsGet ==
  ASSUME NEW a \in Service, NEW e \in Service, NEW c \in Call, ~Brings(c),
         NEW b \in Effects(a, e, c), NEW m \in MacroName,
         c.op \in {"setMacro", "deleteMacro"} => c.of # m
  PROVE  GetMacros(b)[m] = GetMacros(a)[m]
<1>1. b.macros[m] = a.macros[m]
  BY EffectsFrame
<1>2. \A x \in Bringer : b.params[x] = a.params[x]
  BY EffectsFrame, TemplateAssumption DEF Brings
<1>3. [x \in Bringer |-> b.params[x]] = [x \in Bringer |-> a.params[x]]
  BY <1>2
<1> QED BY <1>1, <1>3 DEF GetMacros, Brought

\* A call removes its difference and makes no other, unless it takes brought macros
\* away.
LEMMA EffectsSettle ==
  ASSUME NEW a \in Service, NEW e \in Service, NEW c \in Call,
         \A m \in MacroName : e.macros[m] \in Wanted \union {NoMacro},
         c.op = "setMacro" => e.macros[c.of] # NoMacro,
         c.op = "deleteMacro" => e.macros[c.of] = NoMacro,
         NEW b \in Effects(a, e, c),
         NEW d \in Call, Differs(b, e, d)
  PROVE  \/ d # c /\ Differs(a, e, d)
         \/ Brings(c) /\ d.op = "setMacro"
<1>0. b \in Service
  BY EffectsType
<1>1. CASE d.op \notin {"setMacro", "deleteMacro"} /\ c.op \notin {"setMacro", "deleteMacro"}
  <2>1. CASE c = [op |-> "rename", of |-> "name"]
    BY <1>1, <2>1, CallForms DEF Effects, Service, Differs
  <2>2. CASE c = [op |-> "move", of |-> "host"]
    BY <1>1, <2>2, CallForms DEF Effects, Service, Differs
  <2>3. ASSUME NEW x \in Param, c = [op |-> "param", of |-> x]
        PROVE  d # c /\ Differs(a, e, d)
    <3>1. b = [a EXCEPT !.params[x] = e.params[x]]
      BY <2>3 DEF Effects
    <3> QED BY <1>1, <2>3, <3>1, CallForms DEF Service, Differs
  <2>4. ASSUME NEW l \in List, c = [op |-> "set", of |-> l]
        PROVE  d # c /\ Differs(a, e, d)
    <3>1. b = [a EXCEPT !.lists[l] = a.lists[l] \union e.lists[l]]
      BY <2>4 DEF Effects
    <3> QED BY <1>1, <2>4, <3>1, CallForms DEF Service, Differs
  <2>5. ASSUME NEW l \in List, c = [op |-> "delete", of |-> l]
        PROVE  d # c /\ Differs(a, e, d)
    <3>1. b = [a EXCEPT !.lists[l] = a.lists[l] \intersect e.lists[l]]
      BY <2>5 DEF Effects
    <3> QED BY <1>1, <2>5, <3>1, CallForms DEF Service, Differs
  <2> QED BY <1>1, <2>1, <2>2, <2>3, <2>4, <2>5, CallForms
<1>2. CASE d.op \notin {"setMacro", "deleteMacro"} /\ c.op \in {"setMacro", "deleteMacro"}
  BY <1>2, EffectsFrame, CallForms DEF Differs
<1>3. ASSUME NEW m \in MacroName, d.op \in {"setMacro", "deleteMacro"}, d.of = m,
             c.op \in {"setMacro", "deleteMacro"} => c.of # m
      PROVE  \/ d # c /\ Differs(a, e, d)
             \/ Brings(c) /\ d.op = "setMacro"
  <2>1. CASE ~Brings(c)
    <3>1. GetMacros(b)[m] = GetMacros(a)[m]
      BY <1>3, <2>1, EffectsGet
    <3> QED BY <1>3, <3>1 DEF Differs
  <2>2. CASE Brings(c) /\ d.op = "deleteMacro"
    <3>1. e.macros[m] = NoMacro /\ Deletable(GetMacros(b)[m])
      BY <1>3, <2>2 DEF Differs
    <3>2. b.macros[m] # NoMacro /\ GetMacros(b)[m] = b.macros[m]
      BY <1>0, <3>1, DeletableOwn
    <3>3. b.macros[m] = a.macros[m]
      BY <1>3, EffectsFrame
    <3>4. Deletable(GetMacros(a)[m])
      BY <3>1, <3>2, <3>3, GetOwn
    <3> QED BY <1>3, <2>2, <3>1, <3>4 DEF Differs, Brings
  <2> QED BY <1>3, <2>1, <2>2
<1>4. ASSUME NEW m \in MacroName, d.op \in {"setMacro", "deleteMacro"}, d.of = m,
             c = [op |-> "setMacro", of |-> m]
      PROVE  FALSE
  <2>1. PICK flag \in NoPassword :
          b = [a EXCEPT !.macros[m] = [value |-> e.macros[m].value,
                                       isPassword |-> flag, direct |-> TRUE]]
    BY <1>4 DEF Effects
  <2>2. /\ e.macros[m] # NoMacro /\ e.macros[m].isPassword = "0"
        /\ e.macros[m].value \in Value /\ flag # "1"
    BY <1>4 DEF Wanted, NoPassword
  <2>3. b.macros[m] = [value |-> e.macros[m].value, isPassword |-> flag, direct |-> TRUE]
    BY <2>1 DEF Service
  <2>4. b.macros[m] # NoMacro
    <3>1. [value |-> e.macros[m].value, isPassword |-> flag, direct |-> TRUE] \in Macro
      BY <2>2 DEF Macro
    <3> QED BY <2>3, <3>1, AbsentAssumption
  <2>5. SameMacro(b.macros[m], e.macros[m])
    BY <2>2, <2>3 DEF SameMacro
  <2>6. GetMacros(b)[m] = b.macros[m]
    BY <1>0, <2>4, GetOwn
  <2> QED BY <1>4, <2>2, <2>4, <2>5, <2>6 DEF Differs
<1>5. ASSUME NEW m \in MacroName, d.op \in {"setMacro", "deleteMacro"}, d.of = m,
             c = [op |-> "deleteMacro", of |-> m]
      PROVE  FALSE
  <2>1. b.macros[m] = NoMacro /\ e.macros[m] = NoMacro
    BY <1>5 DEF Effects, Service
  <2>2. ~Deletable(GetMacros(b)[m])
    BY <1>0, <2>1, DeletableOwn
  <2> QED BY <1>5, <2>1, <2>2 DEF Differs
<1> QED BY <1>1, <1>2, <1>3, <1>4, <1>5, CallForms

(***************************************************************************)
(* The invariant.                                                          *)
(***************************************************************************)
LEMMA ExpectedFacts ==
  ASSUME TypeOK
  PROVE  /\ expected \in Service
         /\ \A m \in MacroName : expected.macros[m] \in Wanted \union {NoMacro}
  BY ExpectedAssumption DEF TypeOK

LEMMA IdentityType == ASSUME NEW s \in Service PROVE Identity(s) \in [host : Host, name : Name]
  BY DEF Identity, Service

LEMMA InvInit == Init => HandlerInv
<1> SUFFICES ASSUME Init PROVE HandlerInv
  OBVIOUS
<1>1. at \in [host : Host, name : Name]
  BY ExpectedAssumption, IdentityType DEF Init
<1>2. faults \in 0..MaxFaults /\ todo \subseteq Call
  BY AbsentAssumption DEF Init
<1>3. TypeOK
  BY <1>1, <1>2 DEF Init, TypeOK
<1> QED BY <1>3 DEF Init, HandlerInv, TodoFits, PassDiffers, IdleRests, UpdateSettles, CallsReachService

LEMMA InvCreate == ASSUME HandlerInv, CreateService PROVE HandlerInv'
<1> USE DEF HandlerInv
<1>1. expected \in Service /\ Template \in Param
  BY ExpectedFacts, TemplateAssumption
<1>2. PICK defaults \in [Param -> Value] :
        actual' = [host |-> expected.host, name |-> expected.name,
                   params |-> [defaults EXCEPT ![Template] = expected.params[Template]],
                   lists |-> [l \in List |-> {}],
                   macros |-> [m \in MacroName |-> NoMacro]]
  BY DEF CreateService
<1>3. [defaults EXCEPT ![Template] = expected.params[Template]] \in [Param -> Value]
  BY <1>1, <1>2 DEF Service
<1>4. actual' \in Service
  BY <1>1, <1>2, <1>3 DEF Service
<1>5. at' = Identity(actual')
  BY <1>2 DEF CreateService, Identity
<1>6. \A c \in ToFill(expected) :
        /\ c \in Call /\ c.op # "deleteMacro"
        /\ c.op = "setMacro" => expected.macros[c.of] # NoMacro
  BY DEF ToFill
<1>7. TypeOK'
  BY <1>4, <1>5, <1>6, IdentityType DEF TypeOK, CreateService
<1>8. TodoFits'
  BY <1>4, <1>6 DEF TodoFits, CreateService
<1> QED
  BY <1>5, <1>7, <1>8 DEF CreateService, PassDiffers, IdleRests, UpdateSettles,
                          CallsReachService

LEMMA InvUpdate == ASSUME HandlerInv, UpdateService PROVE HandlerInv'
<1> USE DEF HandlerInv
<1>1. actual \in Service
  BY DEF TypeOK, UpdateService
<1>2. ASSUME NEW c \in DiffService(actual, expected, ignored)
      PROVE  /\ c \in Call /\ FieldOf(c) \notin ignored
             /\ c.op = "setMacro" => expected.macros[c.of] # NoMacro
             /\ c.op = "deleteMacro" => /\ expected.macros[c.of] = NoMacro
                                        /\ actual.macros[c.of] # NoMacro
  <2>1. c \in Call /\ FieldOf(c) \notin ignored /\ Differs(actual, expected, c)
    BY DEF DiffService
  <2>2. ASSUME c.op = "deleteMacro"
        PROVE  expected.macros[c.of] = NoMacro /\ actual.macros[c.of] # NoMacro
    <3>1. c.of \in MacroName
      BY <2>1, <2>2, CallForms
    <3>2. expected.macros[c.of] = NoMacro /\ Deletable(GetMacros(actual)[c.of])
      BY <2>1, <2>2 DEF Differs
    <3> QED BY <1>1, <3>1, <3>2, DeletableOwn
  <2> QED BY <2>1, <2>2 DEF Differs
<1>3. TypeOK'
  BY <1>1, <1>2, IdentityType DEF TypeOK, UpdateService
<1>4. TodoFits'
  <2>1. settles' \in {"some", "all"} /\ (settles' = "all" => \A c \in todo' : ~Brings(c))
    BY DEF UpdateService
  <2> QED BY <1>1, <1>2, <2>1 DEF TodoFits, UpdateService
<1>5. PassDiffers'
  BY DEF PassDiffers, UpdateService
<1> QED
  BY <1>3, <1>4, <1>5 DEF UpdateService, IdleRests, UpdateSettles, CallsReachService

\* What is left to do stays of use when another call is made.
LEMMA CallKeepsTodo ==
  ASSUME HandlerInv, pc # "idle", NEW c \in todo,
         NEW b \in Effects(actual, expected, c)
  PROVE  /\ b \in Service
         /\ \A d \in todo \ {c} : d.op = "deleteMacro" => b.macros[d.of] # NoMacro
<1>1. /\ c \in Call /\ actual \in Service /\ expected \in Service
      /\ c.op = "setMacro" => expected.macros[c.of] # NoMacro
      /\ \A d \in todo : d.op = "setMacro" => expected.macros[d.of] # NoMacro
      /\ \A d \in todo : d.op = "deleteMacro" => /\ expected.macros[d.of] = NoMacro
                                                 /\ actual.macros[d.of] # NoMacro
  BY ExpectedFacts DEF HandlerInv, TypeOK, TodoFits
<1>2. b \in Service
  BY <1>1, ExpectedFacts, EffectsType DEF HandlerInv
<1>3. ASSUME NEW d \in todo \ {c}, d.op = "deleteMacro"
      PROVE  b.macros[d.of] # NoMacro
  <2>1. d \in Call /\ d.of \in MacroName
    BY <1>3, CallForms DEF HandlerInv, TypeOK
  <2>2. c.op \in {"setMacro", "deleteMacro"} => c.of # d.of
    BY <1>1, <1>3, <2>1, CallForms
  <2>3. b.macros[d.of] = actual.macros[d.of]
    BY <1>1, <2>1, <2>2, EffectsFrame
  <2> QED BY <1>1, <1>3, <2>3
<1> QED BY <1>2, <1>3

LEMMA InvCall == ASSUME HandlerInv, CallAPI PROVE HandlerInv'
<1>1. PICK c \in todo :
        /\ actual' \in Effects(actual, expected, c)
        /\ at' = Follow(c) /\ todo' = todo \ {c}
  BY DEF CallAPI
<1>2. /\ pc # "idle" /\ pc' = pc /\ at = Identity(actual)
      /\ UNCHANGED <<expected, ignored, settles, faults>>
  BY DEF CallAPI
<1>3. /\ c \in Call /\ actual \in Service /\ expected \in Service
      /\ pc = "update" => settles \in {"some", "all"}
      /\ settles = "all" => ~Brings(c)
      /\ c.op = "setMacro" => expected.macros[c.of] # NoMacro
      /\ c.op = "deleteMacro" => expected.macros[c.of] = NoMacro
  BY <1>2, ExpectedFacts DEF HandlerInv, TypeOK, TodoFits
<1>4. /\ actual' \in Service
      /\ \A d \in todo' : d.op = "deleteMacro" => actual'.macros[d.of] # NoMacro
  BY <1>1, <1>2, CallKeepsTodo
<1>5. at' = Identity(actual')
  <2>1. CASE c = [op |-> "rename", of |-> "name"]
    BY <1>1, <1>2, <1>3, <2>1 DEF Follow, Effects, Identity, Service
  <2>2. CASE c = [op |-> "move", of |-> "host"]
    BY <1>1, <1>2, <1>3, <2>2 DEF Follow, Effects, Identity, Service
  <2>3. CASE c.op \notin {"rename", "move"}
    <3>1. actual'.name = actual.name /\ actual'.host = actual.host
      BY <1>1, <1>3, <2>3, EffectsFrame
    <3> QED BY <1>1, <1>2, <2>3, <3>1 DEF Follow, Identity
  <2> QED BY <1>3, <2>1, <2>2, <2>3, CallForms
<1>6. TypeOK'
  BY <1>1, <1>2, <1>4, <1>5, IdentityType DEF HandlerInv, TypeOK
<1>7. TodoFits'
  BY <1>1, <1>2, <1>3, <1>4 DEF HandlerInv, TodoFits
<1>8. PassDiffers'
  <2> SUFFICES ASSUME pc' = "update",
                      NEW d \in Call, FieldOf(d) \notin ignored',
                      Differs(actual', expected', d)
               PROVE  d \in todo' \/ (settles' = "some" /\ d.op = "setMacro")
    BY DEF PassDiffers, DiffService
  <2>1. \/ d # c /\ Differs(actual, expected, d)
        \/ Brings(c) /\ d.op = "setMacro"
    BY <1>1, <1>2, <1>3, ExpectedFacts, EffectsSettle DEF HandlerInv
  <2>2. CASE d # c /\ Differs(actual, expected, d)
    <3>1. d \in todo \/ (settles = "some" /\ d.op = "setMacro")
      BY <1>2, <2>2 DEF HandlerInv, PassDiffers, DiffService
    <3> QED BY <1>1, <1>2, <2>2, <3>1
  <2>3. CASE Brings(c) /\ d.op = "setMacro"
    BY <1>2, <1>3, <2>3
  <2> QED BY <2>1, <2>2, <2>3
<1> QED
  BY <1>2, <1>5, <1>6, <1>7, <1>8 DEF HandlerInv, IdleRests, UpdateSettles,
                                       CallsReachService

LEMMA InvReturn == ASSUME HandlerInv, Return PROVE HandlerInv'
<1>1. /\ pc \in {"create", "update"} /\ todo = {} /\ pc' = "idle"
      /\ UNCHANGED <<actual, expected, ignored, todo, at, settles, faults>>
  BY DEF Return, HandlerInv, TypeOK
<1>2. TypeOK' /\ TodoFits' /\ PassDiffers' /\ IdleRests' /\ CallsReachService'
  BY <1>1 DEF HandlerInv, TypeOK, TodoFits, PassDiffers, IdleRests, CallsReachService
<1>3. UpdateSettles'
  BY <1>1 DEF HandlerInv, TodoFits, PassDiffers, UpdateSettles
<1> QED BY <1>2, <1>3 DEF HandlerInv

LEMMA InvFails == ASSUME HandlerInv, CallFails PROVE HandlerInv'
<1>1. PICK c \in todo : actual' \in {actual} \union Effects(actual, expected, c)
  BY DEF CallFails
<1>2. pc # "idle" /\ actual \in Service
  BY DEF CallFails, HandlerInv, TodoFits
<1>3. actual' \in Service
  BY <1>1, <1>2, CallKeepsTodo
<1>4. faults' \in 0..MaxFaults
  BY AbsentAssumption DEF CallFails, HandlerInv, TypeOK
<1>5. TypeOK'
  BY <1>3, <1>4 DEF CallFails, HandlerInv, TypeOK
<1> QED
  BY <1>2, <1>5 DEF CallFails, HandlerInv, TodoFits, PassDiffers, IdleRests,
                    UpdateSettles, CallsReachService

LEMMA InvNext == HandlerInv /\ [Next]_vars => HandlerInv'
<1> SUFFICES ASSUME HandlerInv, [Next]_vars PROVE HandlerInv'
  OBVIOUS
<1>1. CASE CreateService
  BY <1>1, InvCreate
<1>2. CASE UpdateService
  BY <1>2, InvUpdate
<1>3. CASE CallAPI
  BY <1>3, InvCall
<1>4. CASE Return
  BY <1>4, InvReturn
<1>5. CASE CallFails
  BY <1>5, InvFails
<1>6. CASE UNCHANGED vars
  BY <1>6 DEF vars, HandlerInv, TypeOK, TodoFits, PassDiffers, IdleRests,
              UpdateSettles, CallsReachService
<1> QED BY <1>1, <1>2, <1>3, <1>4, <1>5, <1>6 DEF Next

LEMMA HandlerInvariant == Spec => []HandlerInv
  BY InvInit, InvNext, PTL DEF Spec

(***************************************************************************)
(* Theorems.                                                               *)
(***************************************************************************)

\* Every variable keeps its type: DiffService and Build give UpdateService and
\* CreateService only calls that make services of services.
THEOREM TypeCorrect == Spec => []TypeOK
  BY HandlerInvariant, PTL DEF HandlerInv

\* However many fields, groups and macros differ, and in whatever order the map
\* of parameters is ranged over, an update that makes all its calls leaves
\* nothing for DiffService to report, or, if it set the template or the command,
\* nothing but macros to set.
THEOREM SettlesTheorem == Spec => []UpdateSettles
  BY HandlerInvariant, PTL DEF HandlerInv

\* The calls follow the service through its rename and its move.
THEOREM ReachTheorem == Spec => []CallsReachService
  BY HandlerInvariant, PTL DEF HandlerInv

\* A call leaves every field but its own alone.
LEMMA EffectsField ==
  ASSUME NEW a \in Service, NEW e \in Service, NEW c \in Call,
         NEW b \in Effects(a, e, c), NEW f \in Field, f # FieldOf(c)
  PROVE  FieldValue(b, f) = FieldValue(a, f)
<1>1. CASE f = "name"
  BY <1>1, EffectsFrame, CallForms DEF FieldOf, FieldValue
<1>2. CASE f = "host"
  <2>1. c.op # "move"
    BY <1>2, CallForms DEF FieldOf
  <2>2. \A s : FieldValue(s, f) = s.host
    BY <1>2, ParamAssumption DEF List, FieldValue
  <2> QED BY <2>1, <2>2, EffectsFrame
<1>3. CASE f = "macros"
  <2>1. c.op \notin {"setMacro", "deleteMacro"}
    BY <1>3 DEF FieldOf
  <2>2. \A s : FieldValue(s, f) = s.macros
    BY <1>3, ParamAssumption DEF List, FieldValue
  <2> QED BY <2>1, <2>2, EffectsFrame
<1>4. CASE f \in List
  <2>1. c.op \in {"set", "delete"} => c.of # f
    BY <1>4 DEF FieldOf
  <2>2. b.lists[f] = a.lists[f]
    BY <1>4, <2>1, EffectsFrame
  <2>3. \A s : FieldValue(s, f) = s.lists[f]
    BY <1>4, ParamAssumption DEF List, FieldValue
  <2> QED BY <2>2, <2>3
<1>5. CASE f \in Param
  <2>1. c.op = "param" => c.of # f
    BY <1>5 DEF FieldOf
  <2>2. b.params[f] = a.params[f]
    BY <1>5, <2>1, EffectsFrame
  <2>3. f \notin {"name", "host", "macros"} \union List
    BY <1>5, ParamAssumption
  <2>4. \A s : FieldValue(s, f) = s.params[f]
    BY <1>5, <2>3 DEF FieldValue
  <2> QED BY <2>2, <2>4
<1> QED BY <1>1, <1>2, <1>3, <1>4, <1>5 DEF Field

\* An update changes no field its policy excludes: DiffService gives it no call
\* for such a field, and no call changes a field that is not its own.
THEOREM ExcludedTheorem == Spec => ExcludedUntouched
<1>1. ASSUME HandlerInv, [Next]_vars, pc = "update", NEW f \in ignored
      PROVE  FieldValue(actual', f) = FieldValue(actual, f)
  <2>1. actual \in Service /\ expected \in Service /\ f \in Field /\ todo \subseteq Call
    BY <1>1, ExpectedFacts, IgnoredAssumption DEF HandlerInv, TypeOK, TodoFits
  <2>2. actual' = actual \/ \E c \in todo : actual' \in Effects(actual, expected, c)
    BY <1>1 DEF Next, CreateService, UpdateService, CallAPI, Return, CallFails, vars
  <2>3. \A c \in todo : f # FieldOf(c)
    BY <1>1 DEF HandlerInv, TodoFits
  <2> QED BY <2>1, <2>2, <2>3, EffectsField
<1>2. HandlerInv /\ [Next]_vars =>
        [pc = "update" => \A f \in ignored :
           FieldValue(actual', f) = FieldValue(actual, f)]_vars
  BY <1>1
<1> QED BY <1>2, HandlerInvariant, PTL DEF Spec, ExcludedUntouched

\* Whatever a new template or command brought or took away since the comparison,
\* the calls that are left delete only macros set on the service itself.
THEOREM OnlyOwnTheorem == Spec => []OnlyOwnDeleted
<1>1. HandlerInv => OnlyOwnDeleted
  BY DEF HandlerInv, TodoFits, IdleRests, OnlyOwnDeleted
<1> QED BY <1>1, HandlerInvariant, PTL

-----------------------------------------------------------------------------
(***************************************************************************)
(* ImplementsUpdate.  At the level of CentreonService the calls for all    *)
(* fields but the host and the name are one, and it is the last of them    *)
(* that counts.  That the earlier ones are stutters needs more than the    *)
(* invariant above: every call that is left still has a difference to      *)
(* remove, so the fields are not as described before the last call.  Only  *)
(* in an update that sets the template or the command may a difference     *)
(* vanish before its call.                                                 *)
(***************************************************************************)
TodoDiffers ==
  /\ pc = "update" /\ settles = "all" =>
       todo \subseteq DiffService(actual, expected, ignored)
  /\ pc = "create" => \A c \in todo : c.op \in {"param", "set", "setMacro"}

\* A call that brings nothing leaves the differences of the others.
LEMMA EffectsOthers ==
  ASSUME NEW a \in Service, NEW e \in Service, NEW c \in Call, ~Brings(c),
         c.op = "setMacro" => e.macros[c.of] # NoMacro,
         c.op = "deleteMacro" => e.macros[c.of] = NoMacro,
         NEW b \in Effects(a, e, c),
         NEW d \in Call, d # c, Differs(a, e, d)
  PROVE  Differs(b, e, d)
<1>1. ASSUME NEW m \in MacroName, d.op \in {"setMacro", "deleteMacro"}, d.of = m
      PROVE  Differs(b, e, d)
  <2>1. c.op \in {"setMacro", "deleteMacro"} => c.of # m
    <3>1. CASE c = [op |-> "setMacro", of |-> m]
      BY <1>1, <3>1, CallForms DEF Differs
    <3>2. CASE c = [op |-> "deleteMacro", of |-> m]
      BY <1>1, <3>2, CallForms DEF Differs
    <3> QED BY <3>1, <3>2, CallForms
  <2>2. GetMacros(b)[m] = GetMacros(a)[m]
    BY <2>1, EffectsGet
  <2> QED BY <1>1, <2>2 DEF Differs
<1>2. CASE d.op \notin {"setMacro", "deleteMacro"} /\ c.op \notin {"set", "delete"}
  BY <1>2, EffectsFrame, CallForms DEF Differs
<1>3. ASSUME NEW l \in List, c = [op |-> "set", of |-> l],
             d.op \notin {"setMacro", "deleteMacro"}
      PROVE  Differs(b, e, d)
  <2>1. b = [a EXCEPT !.lists[l] = a.lists[l] \union e.lists[l]]
    BY <1>3 DEF Effects
  <2> QED BY <1>3, <2>1, CallForms DEF Service, Differs
<1>4. ASSUME NEW l \in List, c = [op |-> "delete", of |-> l],
             d.op \notin {"setMacro", "deleteMacro"}
      PROVE  Differs(b, e, d)
  <2>1. b = [a EXCEPT !.lists[l] = a.lists[l] \intersect e.lists[l]]
    BY <1>4 DEF Effects
  <2> QED BY <1>4, <2>1, CallForms DEF Service, Differs
<1> QED BY <1>1, <1>2, <1>3, <1>4, CallForms

LEMMA DiffersInit == Init => TodoDiffers
  BY DEF Init, TodoDiffers

LEMMA DiffersNext ==
  ASSUME HandlerInv, TodoDiffers, [Next]_vars
  PROVE  TodoDiffers'
<1>1. CASE CreateService
  BY <1>1 DEF CreateService, TodoDiffers, ToFill
<1>2. CASE UpdateService
  BY <1>2 DEF UpdateService, TodoDiffers
<1>3. CASE CallAPI
  <2>1. PICK c \in todo : /\ actual' \in Effects(actual, expected, c)
                          /\ todo' = todo \ {c}
    BY <1>3 DEF CallAPI
  <2>2. pc # "idle" /\ UNCHANGED <<pc, expected, ignored, settles>>
    BY <1>3 DEF CallAPI
  <2>3. /\ c \in Call /\ actual \in Service /\ expected \in Service
        /\ c.op = "setMacro" => expected.macros[c.of] # NoMacro
        /\ c.op = "deleteMacro" => expected.macros[c.of] = NoMacro
    BY <2>2, ExpectedFacts DEF HandlerInv, TypeOK, TodoFits
  <2>4. ASSUME pc = "update", settles = "all", NEW d \in todo \ {c}
        PROVE  d \in DiffService(actual', expected, ignored)
    <3>1. d \in Call /\ FieldOf(d) \notin ignored /\ Differs(actual, expected, d)
      BY <2>4 DEF TodoDiffers, DiffService
    <3>2. ~Brings(c)
      BY <2>4 DEF HandlerInv, TodoFits
    <3>3. Differs(actual', expected, d)
      BY <2>1, <2>3, <2>4, <3>1, <3>2, EffectsOthers
    <3> QED BY <3>1, <3>3 DEF DiffService
  <2> QED BY <2>1, <2>2, <2>4 DEF TodoDiffers
<1>4. CASE Return \/ CallFails
  BY <1>4 DEF Return, CallFails, TodoDiffers
<1>5. CASE UNCHANGED vars
  BY <1>5 DEF vars, TodoDiffers
<1> QED BY <1>1, <1>2, <1>3, <1>4, <1>5 DEF Next

\* The variables of ServiceUpdate, as CentreonHandler reads them.
AbstractId == IF actual = NoService THEN NoService ELSE Identity(actual)
AbstractSame ==
  \/ actual = NoService
  \/ \A c \in DiffService(actual, expected, ignored) : AbstractField(c) # "cfg"
AbstractTodo == IF pc = "update" THEN { AbstractField(c) : c \in todo } ELSE {}

LEMMA AbstractForms ==
  ASSUME NEW c \in Call
  PROVE  /\ AbstractField(c) \in {"name", "host", "cfg"}
         /\ AbstractField(c) = "name" <=> c = [op |-> "rename", of |-> "name"]
         /\ AbstractField(c) = "host" <=> c = [op |-> "move", of |-> "host"]
<1>1. CASE c = [op |-> "rename", of |-> "name"]
  BY <1>1 DEF AbstractField
<1>2. CASE c = [op |-> "move", of |-> "host"]
  BY <1>2 DEF AbstractField
<1>3. CASE c.op \notin {"rename", "move"}
  BY <1>3 DEF AbstractField
<1> QED BY <1>1, <1>2, <1>3, CallForms

\* What a call does, seen from there.
LEMMA AbstractCall ==
  ASSUME HandlerInv, TodoDiffers, pc = "update", NEW c \in todo, Turn(c),
         NEW b \in Effects(actual, expected, c)
  PROVE  /\ b \in Service /\ actual \in Service /\ actual # NoService
         /\ b # NoService /\ c \in Call
         /\ AbstractField(c) = "name" => Identity(b) = [Identity(actual) EXCEPT
                                                          !.name = expected.name]
         /\ AbstractField(c) = "host" =>
              /\ todo = {c}
              /\ Identity(b) = [Identity(actual) EXCEPT !.host = expected.host]
         /\ AbstractField(c) = "cfg" => Identity(b) = Identity(actual)
         /\ AbstractField(c) # "cfg" => ~Brings(c)
         /\ ~Brings(c) => \A d \in Call : AbstractField(d) = "cfg" /\ d # c =>
              (Differs(b, expected, d) <=> Differs(actual, expected, d))
<1>1. /\ actual \in Service /\ expected \in Service /\ c \in Call
      /\ c.op = "setMacro" => expected.macros[c.of] # NoMacro
      /\ c.op = "deleteMacro" => expected.macros[c.of] = NoMacro
      /\ \A m \in MacroName : expected.macros[m] \in Wanted \union {NoMacro}
  BY ExpectedFacts DEF HandlerInv, TypeOK, TodoFits
<1>2. b \in Service
  BY <1>1, EffectsType
<1>3. /\ ~Brings(c) => \A d \in Call : d # c =>
           (Differs(b, expected, d) <=> Differs(actual, expected, d))
      /\ AbstractField(c) # "cfg" => ~Brings(c)
  <2>1. ASSUME ~Brings(c), NEW d \in Call, d # c
        PROVE  Differs(b, expected, d) <=> Differs(actual, expected, d)
    BY <1>1, <2>1, EffectsSettle, EffectsOthers
  <2> QED BY <1>1, <2>1 DEF Brings, AbstractField
<1>4. CASE AbstractField(c) = "name"
  <2>1. c = [op |-> "rename", of |-> "name"]
    BY <1>1, <1>4, AbstractForms
  <2>2. b = [actual EXCEPT !.name = expected.name]
    BY <2>1 DEF Effects
  <2> QED BY <1>1, <1>2, <1>3, <1>4, <2>2, AbsentAssumption DEF Identity, Service
<1>5. CASE AbstractField(c) = "host"
  <2>1. c = [op |-> "move", of |-> "host"]
    BY <1>1, <1>5, AbstractForms
  <2>2. b = [actual EXCEPT !.host = expected.host]
    BY <2>1 DEF Effects
  <2>3. Identity(b) = [Identity(actual) EXCEPT !.host = expected.host]
    BY <1>1, <2>2 DEF Identity, Service
  <2>4. todo = {c}
    <3>1. Stage(c) = 8
      BY <2>1 DEF Stage
    <3>2. ASSUME NEW d \in Call, d # c
          PROVE  Stage(d) \in 1..7
      BY <2>1, <3>2, CallForms DEF Stage, List
    <3> QED BY <3>1, <3>2 DEF Turn, HandlerInv, TypeOK
  <2> QED BY <1>1, <1>2, <1>3, <1>5, <2>3, <2>4, AbsentAssumption
<1>6. CASE AbstractField(c) = "cfg"
  <2>1. c.op # "rename" /\ c.op # "move"
    BY <1>1, <1>6, AbstractForms, CallForms
  <2>2. Identity(b) = Identity(actual)
    BY <1>1, <2>1, EffectsFrame DEF Identity
  <2> QED BY <1>1, <1>2, <1>3, <1>6, <2>2, AbsentAssumption
<1> QED BY <1>1, <1>4, <1>5, <1>6, AbstractForms

\* Whether the other fields are as described shows in the calls that are left, in
\* an update that settles all.
LEMMA SameShows ==
  ASSUME HandlerInv, TodoDiffers, pc = "update", settles = "all"
  PROVE  AbstractSame <=> "cfg" \notin AbstractTodo
<1>1. actual # NoService
  BY AbsentAssumption DEF HandlerInv, TodoFits
<1>2. todo = DiffService(actual, expected, ignored)
  BY DEF HandlerInv, PassDiffers, TodoDiffers
<1> QED BY <1>1, <1>2 DEF AbstractSame, AbstractTodo

\* It does not change with the name or the host.
LEMMA SameKept ==
  ASSUME HandlerInv, TodoDiffers, pc = "update", NEW c \in todo, Turn(c),
         AbstractField(c) # "cfg",
         actual' \in Effects(actual, expected, c), UNCHANGED <<expected, ignored>>
  PROVE  AbstractSame' = AbstractSame
<1>1. /\ actual # NoService /\ actual' # NoService /\ c \in Call
      /\ \A d \in Call : AbstractField(d) = "cfg" /\ d # c =>
           (Differs(actual', expected, d) <=> Differs(actual, expected, d))
  BY AbstractCall
<1>2. ASSUME NEW d \in Call, AbstractField(d) = "cfg"
      PROVE  d \in DiffService(actual', expected, ignored)
               <=> d \in DiffService(actual, expected, ignored)
  BY <1>1, <1>2 DEF DiffService
<1>3. \A d \in DiffService(actual', expected, ignored)
                 \union DiffService(actual, expected, ignored) : d \in Call
  BY DEF DiffService
<1> QED BY <1>1, <1>2, <1>3 DEF AbstractSame

LEMMA UpdateCreate == ASSUME HandlerInv, CreateService PROVE Update!Add
<1>1. /\ actual' # NoService /\ Identity(actual') = Identity(expected)
      /\ pc = "idle" /\ actual = NoService /\ pc' = "create"
      /\ UNCHANGED <<expected, ignored>> /\ at' = Identity(expected)
      /\ settles' = "nothing"
  <2>1. HandlerInv'
    BY InvCreate
  <2>2. pc' = "create" /\ at' = Identity(expected) /\ settles' = "nothing"
    BY DEF CreateService
  <2>3. actual' \in Service /\ at' = Identity(actual')
    BY <2>1, <2>2 DEF HandlerInv, TodoFits, CallsReachService
  <2> QED BY <2>2, <2>3, AbsentAssumption DEF CreateService
<1> QED BY <1>1 DEF Update!Add

LEMMA UpdateBegin == ASSUME HandlerInv, UpdateService PROVE Update!Begin
<1>1. /\ actual \in Service /\ actual # NoService /\ expected \in Service
      /\ pc = "idle" /\ pc' = "update"
      /\ todo' = DiffService(actual, expected, ignored) /\ todo' # {}
      /\ at' = Identity(actual) /\ UNCHANGED <<actual, expected, ignored>>
  BY ExpectedFacts DEF UpdateService, HandlerInv, TypeOK
<1>2. Update!Diff = { AbstractField(c) : c \in DiffService(actual, expected, ignored) }
  <2> DEFINE Abs == { AbstractField(c) : c \in DiffService(actual, expected, ignored) }
  <2>1. Abs \subseteq {"name", "host", "cfg"}
    BY AbstractForms DEF DiffService
  <2>2. "name" \in Abs <=> "name" \notin ignored /\ actual.name # expected.name
    <3> DEFINE r == [op |-> "rename", of |-> "name"]
    <3>1. r \in Call /\ FieldOf(r) = "name" /\ AbstractField(r) = "name"
      BY DEF Call, FieldOf, AbstractField
    <3>2. Differs(actual, expected, r) <=> actual.name # expected.name
      BY DEF Differs
    <3>3. \A c \in Call : AbstractField(c) = "name" => c = r
      BY AbstractForms
    <3> HIDE DEF r
    <3> QED BY <3>1, <3>2, <3>3 DEF DiffService
  <2>3. "host" \in Abs <=> "host" \notin ignored /\ actual.host # expected.host
    <3> DEFINE r == [op |-> "move", of |-> "host"]
    <3>1. r \in Call /\ FieldOf(r) = "host" /\ AbstractField(r) = "host"
      BY DEF Call, FieldOf, AbstractField
    <3>2. Differs(actual, expected, r) <=> actual.host # expected.host
      BY DEF Differs
    <3>3. \A c \in Call : AbstractField(c) = "host" => c = r
      BY AbstractForms
    <3> HIDE DEF r
    <3> QED BY <3>1, <3>2, <3>3 DEF DiffService
  <2>4. "cfg" \in Abs <=> ~AbstractSame
    BY <1>1 DEF AbstractSame
  <2>5. \A f : f \in Update!Diff <=>
          /\ f \in {"name", "host", "cfg"} /\ f \notin ignored \intersect {"name", "host"}
          /\ \/ f = "name" /\ actual.name # expected.name
             \/ f = "host" /\ actual.host # expected.host
             \/ f = "cfg" /\ ~AbstractSame
    BY <1>1 DEF Update!Diff, AbstractSame, Identity
  <2> HIDE DEF Abs
  <2>6. Update!Diff = Abs
    BY <2>1, <2>2, <2>3, <2>4, <2>5
  <2> QED BY <2>6 DEF Abs
<1>3. AbstractTodo' = Update!Diff /\ Update!Diff # {}
  BY <1>1, <1>2 DEF AbstractTodo
<1>4. AbstractId # NoService /\ AbstractId = Identity(actual)
  BY <1>1, IdentityType, AbsentAssumption DEF AbstractId
<1>5. UNCHANGED <<AbstractId, AbstractSame>>
  BY <1>1 DEF AbstractId, AbstractSame
<1>6. settles' \in (IF "cfg" \in Update!Diff /\ settles # "some" THEN {"some", "all"}
                                                                   ELSE {"all"})
  <2>1. CASE \E c \in todo' : Brings(c)
    <3>1. PICK c \in todo' : Brings(c)
      BY <2>1
    <3>2. c \in DiffService(actual, expected, ignored) /\ AbstractField(c) = "cfg"
      BY <1>1, <3>1 DEF Brings, AbstractField
    <3>3. settles # "some"
      BY <1>1, <3>1, <3>2 DEF HandlerInv, UpdateSettles, Brings
    <3>4. "cfg" \in Update!Diff
      BY <1>2, <3>2
    <3> QED BY <2>1, <3>3, <3>4 DEF UpdateService
  <2>2. CASE ~\E c \in todo' : Brings(c)
    BY <2>2 DEF UpdateService
  <2> QED BY <2>1, <2>2
<1> QED BY <1>1, <1>3, <1>4, <1>5, <1>6
        DEF Update!Begin, AbstractTodo, AbstractId, AbstractSame

LEMMA UpdateReturn == ASSUME HandlerInv, Return PROVE Update!Return
<1>1. /\ pc # "idle" /\ todo = {} /\ pc' = "idle" /\ todo' = {}
      /\ UNCHANGED <<actual, expected, ignored, at, settles>>
  BY DEF Return
<1>2. AbstractTodo = {} /\ AbstractTodo' = {}
  BY <1>1 DEF AbstractTodo
<1> QED BY <1>1, <1>2 DEF Update!Return, AbstractTodo

\* During CreateService the identity is settled; the rest may become anything.
LEMMA UpdateFill ==
  ASSUME HandlerInv, TodoDiffers, pc = "create", NEW c \in todo,
         actual' \in Effects(actual, expected, c)
  PROVE  Identity(actual') = Identity(actual) /\ actual' \in Service
<1>1. /\ actual \in Service /\ expected \in Service /\ c \in Call
      /\ c.op \in {"param", "set", "setMacro"}
      /\ c.op = "setMacro" => expected.macros[c.of] # NoMacro
      /\ \A m \in MacroName : expected.macros[m] \in Wanted \union {NoMacro}
  BY ExpectedFacts DEF HandlerInv, TypeOK, TodoFits, TodoDiffers
<1>2. actual'.name = actual.name /\ actual'.host = actual.host
  BY <1>1, EffectsFrame
<1> QED BY <1>1, <1>2, EffectsType DEF Identity

LEMMA UpdateCall ==
  ASSUME HandlerInv, TodoDiffers, CallAPI
  PROVE  [Update!Next]_Update!vars
<1>1. PICK c \in todo :
        /\ Turn(c) /\ actual' \in Effects(actual, expected, c)
        /\ at' = Follow(c) /\ todo' = todo \ {c}
  BY DEF CallAPI
<1>2. /\ pc \in {"create", "update"} /\ at = Identity(actual) /\ c \in Call
      /\ UNCHANGED <<expected, ignored, pc, settles>> /\ actual \in Service
      /\ actual # NoService
  BY AbsentAssumption DEF CallAPI, HandlerInv, TypeOK, TodoFits
<1>3. HandlerInv' /\ TodoDiffers'
  BY InvCall, DiffersNext DEF Next
<1>4. at' = Identity(actual') /\ actual' \in Service /\ actual' # NoService
  BY <1>2, <1>3, AbsentAssumption DEF HandlerInv, TodoFits, CallsReachService
<1>5. AbstractId = Identity(actual) /\ AbstractId' = Identity(actual')
  BY <1>2, <1>4 DEF AbstractId
<1>6. CASE pc = "create"
  <2>1. Identity(actual') = Identity(actual)
    BY <1>1, <1>6, UpdateFill
  <2>2. AbstractTodo' = AbstractTodo
    BY <1>2, <1>6 DEF AbstractTodo
  <2>3. Update!Fill
    BY <1>2, <1>4, <1>5, <1>6, <2>1, <2>2 DEF Update!Fill, AbstractId, AbstractTodo
  <2> QED BY <2>3 DEF Update!Next
<1>7. CASE pc = "update"
  <2>1. /\ AbstractField(c) = "name" => Identity(actual') = [Identity(actual) EXCEPT
                                                               !.name = expected.name]
        /\ AbstractField(c) = "host" =>
             /\ todo = {c}
             /\ Identity(actual') = [Identity(actual) EXCEPT !.host = expected.host]
        /\ AbstractField(c) = "cfg" => Identity(actual') = Identity(actual)
    BY <1>1, <1>7, AbstractCall
  <2>2. AbstractTodo = { AbstractField(d) : d \in todo }
    BY <1>7 DEF AbstractTodo
  <2>3. AbstractTodo' = { AbstractField(d) : d \in todo \ {c} }
    BY <1>1, <1>2, <1>7 DEF AbstractTodo
  <2>4. settles = "all" => /\ AbstractSame <=> "cfg" \notin AbstractTodo
                           /\ AbstractSame' <=> "cfg" \notin AbstractTodo'
    <3> HAVE settles = "all"
    <3>1. todo' = DiffService(actual', expected', ignored')
      BY <1>2, <1>3, <1>7 DEF HandlerInv, PassDiffers, TodoDiffers
    <3>2. AbstractSame' <=> "cfg" \notin AbstractTodo'
      BY <1>1, <1>2, <1>4, <2>3, <3>1 DEF AbstractSame
    <3> QED BY <1>7, <3>2, SameShows
  <2>5. \A d \in todo : d # c /\ AbstractField(c) \in {"name", "host"} =>
          AbstractField(d) # AbstractField(c)
    BY <1>1, <1>2, AbstractForms DEF HandlerInv, TypeOK
  <2>6. AbstractField(c) \in AbstractTodo
    BY <1>1, <2>2
  <2>7. Identity(expected).name = expected.name
        /\ Identity(expected).host = expected.host
    BY DEF Identity
  <2>8. CASE AbstractField(c) = "name"
    <3>1. AbstractTodo' = AbstractTodo \ {"name"}
      BY <2>2, <2>3, <2>5, <2>8
    <3>2. AbstractSame' = AbstractSame
      BY <1>1, <1>2, <1>7, <2>8, SameKept
    <3>3. Update!Rename
      BY <1>2, <1>4, <1>5, <1>7, <2>1, <2>6, <2>7, <2>8, <3>1, <3>2
         DEF Update!Rename, AbstractId, AbstractSame, AbstractTodo
    <3> QED BY <3>3 DEF Update!Next
  <2>9. CASE AbstractField(c) = "host"
    <3>1. AbstractTodo = {"host"} /\ AbstractTodo' = {}
      BY <2>1, <2>2, <2>3, <2>9
    <3>2. AbstractSame' = AbstractSame
      BY <1>1, <1>2, <1>7, <2>9, SameKept
    <3>3. Update!SetHost
      BY <1>2, <1>4, <1>5, <1>7, <2>1, <2>7, <2>9, <3>1, <3>2
         DEF Update!SetHost, AbstractId, AbstractSame, AbstractTodo
    <3> QED BY <3>3 DEF Update!Next
  <2>10. CASE AbstractField(c) = "cfg" /\ "cfg" \notin AbstractTodo'
    <3>1. AbstractTodo' = AbstractTodo \ {"cfg"}
      BY <2>2, <2>3, <2>10
    <3>2. AbstractSame' \in (IF settles = "all" THEN {TRUE} ELSE BOOLEAN)
      BY <2>4, <2>10 DEF AbstractSame
    <3>3. Update!SetCfg
      BY <1>2, <1>4, <1>5, <1>7, <2>1, <2>6, <2>10, <3>1, <3>2
         DEF Update!SetCfg, AbstractId, AbstractSame, AbstractTodo
    <3> QED BY <3>3 DEF Update!Next
  <2>11. CASE AbstractField(c) = "cfg" /\ "cfg" \in AbstractTodo'
    <3>1. AbstractTodo' = AbstractTodo
      BY <2>2, <2>3, <2>11
    <3>2. CASE settles = "all"
      <4>1. AbstractSame' = AbstractSame
        BY <2>4, <3>1, <3>2 DEF AbstractSame
      <4> QED BY <1>2, <1>4, <1>5, <2>1, <2>11, <3>1, <4>1
              DEF Update!vars, AbstractId, AbstractSame, AbstractTodo
    <3>3. CASE settles = "some"
      <4>1. AbstractSame' \in BOOLEAN /\ "cfg" \in AbstractTodo
        BY <2>11, <3>1 DEF AbstractSame
      <4>2. Update!SetSome
        BY <1>2, <1>4, <1>5, <1>7, <2>1, <2>11, <3>1, <3>3, <4>1
           DEF Update!SetSome, AbstractId, AbstractSame, AbstractTodo
      <4> QED BY <4>2 DEF Update!Next
    <3> QED BY <1>7, <3>2, <3>3 DEF HandlerInv, TodoFits
  <2> QED BY <1>2, <2>8, <2>9, <2>10, <2>11, AbstractForms
<1> QED BY <1>2, <1>6, <1>7

LEMMA UpdateFails ==
  ASSUME HandlerInv, TodoDiffers, CallFails
  PROVE  Update!Fail
<1>1. PICK c \in todo :
        Turn(c) /\ actual' \in {actual} \union Effects(actual, expected, c)
  BY DEF CallFails
<1>2. /\ pc \in {"create", "update"} /\ pc' = "idle" /\ todo' = {} /\ c \in Call
      /\ settles' = "nothing"
      /\ UNCHANGED <<expected, ignored, at>> /\ actual \in Service
      /\ actual # NoService
  BY AbsentAssumption DEF CallFails, HandlerInv, TypeOK, TodoFits
<1>3. AbstractTodo' = {} /\ AbstractId = Identity(actual)
  BY <1>2 DEF AbstractTodo, AbstractId
<1>4. Update!Gives
  BY <1>2, <1>3 DEF Update!Gives, AbstractTodo
<1>5. AbstractSame \in BOOLEAN /\ AbstractSame' \in BOOLEAN
  BY DEF AbstractSame
<1>6. CASE actual' = actual
  <2>1. AbstractId' = AbstractId /\ AbstractSame' = AbstractSame
    BY <1>2, <1>6 DEF AbstractId, AbstractSame
  <2> QED BY <1>2, <1>4, <1>5, <2>1
          DEF Update!Fail, AbstractId, AbstractSame, AbstractTodo
<1>7. CASE pc = "create" /\ actual' \in Effects(actual, expected, c)
  <2>1. AbstractId' = AbstractId
    BY <1>1, <1>3, <1>7, UpdateFill, AbsentAssumption DEF AbstractId
  <2> QED BY <1>4, <1>5, <1>7, <2>1
          DEF Update!Fail, AbstractId, AbstractSame, AbstractTodo
<1>8. CASE pc = "update" /\ actual' \in Effects(actual, expected, c)
  <2>1. /\ actual' \in Service /\ actual' # NoService
        /\ AbstractField(c) = "name" => Identity(actual') = [Identity(actual) EXCEPT
                                                               !.name = expected.name]
        /\ AbstractField(c) = "host" =>
             /\ todo = {c}
             /\ Identity(actual') = [Identity(actual) EXCEPT !.host = expected.host]
        /\ AbstractField(c) = "cfg" => Identity(actual') = Identity(actual)
    BY <1>1, <1>8, AbstractCall
  <2>2. AbstractId' = Identity(actual')
    BY <2>1 DEF AbstractId
  <2>3. AbstractTodo = { AbstractField(d) : d \in todo }
    BY <1>8 DEF AbstractTodo
  <2>4. AbstractField(c) # "cfg" => AbstractSame' = AbstractSame
    BY <1>1, <1>2, <1>8, SameKept
  <2>5. AbstractField(c) \in AbstractTodo
    BY <1>1, <2>3
  <2>6. Identity(expected).name = expected.name
        /\ Identity(expected).host = expected.host
    BY DEF Identity
  <2>7. CASE AbstractField(c) = "name"
    BY <1>3, <1>4, <2>1, <2>2, <2>4, <2>5, <2>6, <2>7
       DEF Update!Fail, AbstractId, AbstractSame, AbstractTodo
  <2>8. CASE AbstractField(c) = "host"
    <3>1. AbstractTodo = {"host"}
      BY <2>1, <2>3, <2>8
    <3> QED BY <1>3, <1>4, <2>1, <2>2, <2>4, <2>6, <2>8, <3>1
            DEF Update!Fail, AbstractId, AbstractSame, AbstractTodo
  <2>9. CASE AbstractField(c) = "cfg"
    BY <1>3, <1>4, <1>5, <2>1, <2>2, <2>5, <2>9
       DEF Update!Fail, AbstractId, AbstractSame, AbstractTodo
  <2> QED BY <1>2, <2>7, <2>8, <2>9, AbstractForms
<1> QED BY <1>1, <1>2, <1>6, <1>7, <1>8

\* However many calls an update makes for the parameters, the groups and the
\* macros, and wherever it is cut, the passes of CentreonService may take them for
\* one, made before the host is moved.
THEOREM UpdateTheorem == Spec => ImplementsUpdate
<1>1. Init => Update!Init
  <2> SUFFICES ASSUME Init PROVE Update!Init
    OBVIOUS
  <2>1. Identity(expected) \in [host : Host, name : Name]
    BY ExpectedAssumption, IdentityType DEF Init
  <2>2. AbstractId \in [host : Host, name : Name] \union {NoService}
    BY IdentityType DEF Init, AbstractId
  <2>3. AbstractSame \in BOOLEAN /\ AbstractTodo = {}
    BY DEF AbstractSame, AbstractTodo, Init
  <2> QED BY <2>1, <2>2, <2>3
          DEF Init, Update!Init, Update!Id, AbstractId, AbstractSame, AbstractTodo
<1>2. HandlerInv /\ TodoDiffers /\ [Next]_vars => [Update!Next]_Update!vars
  <2> SUFFICES ASSUME HandlerInv, TodoDiffers, [Next]_vars
               PROVE  [Update!Next]_Update!vars
    OBVIOUS
  <2>1. CASE UNCHANGED vars
    BY <2>1 DEF vars, Update!vars
  <2> QED BY <2>1, UpdateCreate, UpdateBegin, UpdateReturn, UpdateCall, UpdateFails
          DEF Next, Update!Next
<1>3. Spec => [](HandlerInv /\ TodoDiffers)
  BY InvInit, InvNext, DiffersInit, DiffersNext, PTL DEF Spec
<1> QED BY <1>1, <1>2, <1>3, PTL DEF Spec, ImplementsUpdate, Update!Spec

=============================================================================
