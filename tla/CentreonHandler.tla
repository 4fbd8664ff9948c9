-------------------------- MODULE CentreonHandler --------------------------
(***************************************************************************)
(* How the handler makes one Centreon service what a resource says:        *)
(* CreateService and UpdateService as sequences of API calls, and          *)
(* DiffService, which finds the calls an update has to make.               *)
(*                                                                         *)
(* CentreonService models the passes around these sequences and takes all  *)
(* fields but the host and the name as one; here they are told apart, each *)
(* with the way it is compared and set.  A call may fail, applied or not;  *)
(* the next pass starts from the service as it then is.                    *)
(***************************************************************************)
EXTENDS Naturals, FiniteSets

CONSTANTS
  Host, Name,
  Param,      \* the parameters with one value (command, interval, comment...)
  Template,   \* the one of them that Add sets
  Bringer,    \* those whose values bring macros: the template, the command
  Value,      \* values of parameters and macros
  Empty,      \* the value ""
  Member,     \* service groups and categories
  MacroName,  \* names of macros, in upper case
  Expected,   \* the services users describe
  Ignored,    \* the sets of fields policies exclude from the comparison
  NoMacro, NoService,
  Inherited,  \* the macros that the values of the bringers bring
  MaxFaults   \* bound: how many calls fail

List == {"groups", "categories"}

Field == {"name", "host", "macros"} \union List \union Param

\* Values of IsPassword that mean the same.
NoPassword == {"", "0"}

\* What the API returns of a macro set on the service itself.
Macro == [value : Value, isPassword : NoPassword \union {"1"}, direct : {TRUE}]

\* And of one that the template or the command brings: not direct, or without value.
Indirect ==
  [value : Value, isPassword : NoPassword \union {"1"}, direct : {FALSE}]
    \union [value : {Empty}, isPassword : NoPassword \union {"1"}, direct : {TRUE}]

\* Macro names are distinct in upper case, so the slice is a partial function; of
\* the macros a service holds those that were set on it.
Service ==
  [host : Host, name : Name, params : [Param -> Value],
   lists : [List -> SUBSET Member], macros : [MacroName -> Macro \union {NoMacro}]]

\* The macros Build makes of the spec are no passwords.
Wanted == [value : Value, isPassword : {"0"}, direct : {TRUE}]

\* The API calls that change a service that exists.
Call ==
  [op : {"rename"}, of : {"name"}] \union [op : {"move"}, of : {"host"}]
    \union [op : {"param"}, of : Param]
    \union [op : {"set", "delete"}, of : List]
    \union [op : {"setMacro", "deleteMacro"}, of : MacroName]

ASSUME TemplateAssumption == Template \in Bringer /\ Bringer \subseteq Param /\ Empty \in Value
ASSUME InheritedAssumption ==
  Inherited \in [[Bringer -> Value] -> [MacroName -> Indirect \union {NoMacro}]]
ASSUME ExpectedAssumption ==
  \A e \in Expected :
    /\ e \in Service
    /\ \A m \in MacroName : e.macros[m] \in Wanted \union {NoMacro}
ASSUME ParamAssumption == Param \intersect ({"name", "host", "macros"} \union List) = {}
ASSUME IgnoredAssumption == Ignored \subseteq SUBSET Field
ASSUME AbsentAssumption ==
  /\ NoMacro \notin Macro \union Indirect /\ MaxFaults \in Nat
  /\ NoService \notin Service \union [host : Host, name : Name]

VARIABLES
  actual,    \* the service on Centreon, or NoService
  expected,  \* the service the resource describes
  ignored,   \* the fields its policy excludes
  pc,        \* between passes, in CreateService, in UpdateService
  todo,      \* the calls that are left
  at,        \* the identity the calls use
  settles,   \* what the running or last pass, an update, settles if it ends
  faults

vars == <<actual, expected, ignored, pc, todo, at, settles, faults>>

Identity(s) == [host |-> s.host, name |-> s.name]

TypeOK ==
  /\ actual \in Service \union {NoService}
  /\ expected \in Expected
  /\ ignored \in Ignored
  /\ pc \in {"idle", "create", "update"}
  /\ todo \subseteq Call
  /\ at \in [host : Host, name : Name]
  /\ settles \in {"nothing", "some", "all"}
  /\ faults \in 0..MaxFaults

-----------------------------------------------------------------------------
(***************************************************************************)
(* Comparing two services.                                                 *)
(***************************************************************************)

\* Mutant of SameMacro: "" and "0" differ.
SameMacroStrict(a, e) == a.value = e.value /\ a.isPassword = e.isPassword

SameMacro(a, e) ==
  a.value = e.value /\ (a.isPassword = "1" <=> e.isPassword = "1")

\* Mutant of Deletable: whatever is left over is deleted.
DeletableAll(a) == a # NoMacro

\* An inherited macro, or a direct one without value, is not deleted.
Deletable(a) == a # NoMacro /\ (a # NoMacro => a.direct /\ a.value # Empty)

\* What the template and the command of a service bring.
Brought(s) == Inherited[[b \in Bringer |-> s.params[b]]]

\* The macros GetService reads: of those set on the service and those brought, the
\* former come first.
GetMacros(s) ==
  [m \in MacroName |-> IF s.macros[m] # NoMacro THEN s.macros[m] ELSE Brought(s)[m]]

FieldOf(c) == IF c.op \in {"setMacro", "deleteMacro"} THEN "macros" ELSE c.of

\* Mutant of Differs: a group to delete is missed unless one is to be added.
DiffersCount(a, e, c) ==
  \/ c.op = "rename" /\ a.name # e.name
  \/ c.op = "move" /\ a.host # e.host
  \/ c.op = "param" /\ a.params[c.of] # e.params[c.of]
  \/ c.op \in {"set", "delete"} /\ ~(e.lists[c.of] \subseteq a.lists[c.of])
  \/ /\ c.op = "setMacro" /\ e.macros[c.of] # NoMacro
     /\ GetMacros(a)[c.of] # NoMacro => ~SameMacro(GetMacros(a)[c.of], e.macros[c.of])
  \/ /\ c.op = "deleteMacro" /\ e.macros[c.of] = NoMacro
     /\ Deletable(GetMacros(a)[c.of])

\* The service a needs call c to become e.
Differs(a, e, c) ==
  \/ c.op = "rename" /\ a.name # e.name
  \/ c.op = "move" /\ a.host # e.host
  \/ c.op = "param" /\ a.params[c.of] # e.params[c.of]
  \/ c.op = "set" /\ ~(e.lists[c.of] \subseteq a.lists[c.of])
  \/ c.op = "delete" /\ ~(a.lists[c.of] \subseteq e.lists[c.of])
  \/ /\ c.op = "setMacro" /\ e.macros[c.of] # NoMacro
     /\ GetMacros(a)[c.of] # NoMacro => ~SameMacro(GetMacros(a)[c.of], e.macros[c.of])
  \/ /\ c.op = "deleteMacro" /\ e.macros[c.of] = NoMacro
     /\ Deletable(GetMacros(a)[c.of])

\* Mutant of DiffService: the policy is not looked at.
DiffServiceAll(a, e, ign) == { c \in Call : Differs(a, e, c) }

DiffService(a, e, ign) == { c \in Call : FieldOf(c) \notin ign /\ Differs(a, e, c) }

-----------------------------------------------------------------------------
(***************************************************************************)
(* What the calls do on Centreon.                                          *)
(***************************************************************************)

\* Setting the groups or the categories adds to the ones that are there, and a
\* macro that was set is direct and may come back with IsPassword "" or "0".  A new
\* template or command also changes what GetMacros returns from then on.
Effects(a, e, c) ==
  CASE c.op = "rename" -> {[a EXCEPT !.name = e.name]}
    [] c.op = "move"   -> {[a EXCEPT !.host = e.host]}
    [] c.op = "param"  -> {[a EXCEPT !.params[c.of] = e.params[c.of]]}
    [] c.op = "set"    -> {[a EXCEPT !.lists[c.of] = @ \union e.lists[c.of]]}
    [] c.op = "delete" -> {[a EXCEPT !.lists[c.of] = @ \intersect e.lists[c.of]]}
    [] c.op = "setMacro" ->
         { [a EXCEPT !.macros[c.of] = [value |-> e.macros[c.of].value,
                                       isPassword |-> w, direct |-> TRUE]] :
             w \in NoPassword }
    [] c.op = "deleteMacro" -> {[a EXCEPT !.macros[c.of] = NoMacro]}

\* Mutant of Stage: the host is moved with the parameters.
StageHostFirst(c) ==
  CASE c.op \in {"rename", "param", "move"} -> 1
    [] c.op = "set" /\ c.of = "groups" -> 2
    [] c.op = "delete" /\ c.of = "groups" -> 3
    [] c.op = "set" /\ c.of = "categories" -> 4
    [] c.op = "delete" /\ c.of = "categories" -> 5
    [] c.op = "setMacro" -> 6
    [] c.op = "deleteMacro" -> 7

\* The calls follow in this order; those of one stage in any order, as the code
\* ranges over a map.
Stage(c) ==
  CASE c.op \in {"rename", "param"} -> 1
    [] c.op = "set" /\ c.of = "groups" -> 2
    [] c.op = "delete" /\ c.of = "groups" -> 3
    [] c.op = "set" /\ c.of = "categories" -> 4
    [] c.op = "delete" /\ c.of = "categories" -> 5
    [] c.op = "setMacro" -> 6
    [] c.op = "deleteMacro" -> 7
    [] c.op = "move" -> 8

\* What CreateService sets after Add: what is not empty.
ToFill(e) ==
  { c \in Call :
      \/ c.op = "param" /\ c.of # Template /\ e.params[c.of] # Empty
      \/ c.op = "set" /\ e.lists[c.of] # {}
      \/ c.op = "setMacro" /\ e.macros[c.of] # NoMacro }

-----------------------------------------------------------------------------
Init ==
  /\ actual \in Service \union {NoService}
  /\ expected \in Expected
  /\ ignored \in Ignored
  /\ pc = "idle" /\ todo = {} /\ settles = "nothing" /\ faults = 0
  /\ at = Identity(expected)

\* Add: Centreon gives the other parameters defaults.
CreateService ==
  /\ pc = "idle" /\ actual = NoService
  /\ \E defaults \in [Param -> Value] :
       actual' = [host |-> expected.host, name |-> expected.name,
                  params |-> [defaults EXCEPT ![Template] = expected.params[Template]],
                  lists |-> [l \in List |-> {}],
                  macros |-> [m \in MacroName |-> NoMacro]]
  /\ pc' = "create" /\ todo' = ToFill(expected) /\ at' = Identity(expected)
  /\ settles' = "nothing"
  /\ UNCHANGED <<expected, ignored, faults>>

\* The call may change the macros the service inherits, while the calls for the
\* macros follow the comparison made before.
Brings(c) == c.op = "param" /\ c.of \in Bringer

\* A pass finds a difference; without one it ends here.
UpdateService ==
  /\ pc = "idle" /\ actual # NoService
  /\ DiffService(actual, expected, ignored) # {}
  /\ pc' = "update" /\ todo' = DiffService(actual, expected, ignored)
  /\ at' = Identity(actual)
  /\ settles' = IF \E c \in todo' : Brings(c) THEN "some" ELSE "all"
  /\ UNCHANGED <<actual, expected, ignored, faults>>

\* Mutant of Follow: the new name is not used by the calls after it.
FollowNot(c) == at

\* Mutant of Follow: the new host is kept as the name.
FollowSwapped(c) ==
  CASE c.op = "rename" -> [at EXCEPT !.name = expected.name]
    [] c.op = "move"   -> [at EXCEPT !.name = expected.host]
    [] OTHER -> at

\* The identity the calls after c use.
Follow(c) ==
  CASE c.op = "rename" -> [at EXCEPT !.name = expected.name]
    [] c.op = "move"   -> [at EXCEPT !.host = expected.host]
    [] OTHER -> at

\* It is the turn of c: no call of an earlier stage is left.
Turn(c) == \A d \in todo : Stage(c) <= Stage(d)

\* One call; Centreon refuses it when no service has that identity.
CallAPI ==
  /\ pc # "idle" /\ at = Identity(actual)
  /\ \E c \in todo :
       /\ Turn(c)
       /\ actual' \in Effects(actual, expected, c)
       /\ at' = Follow(c)
       /\ todo' = todo \ {c}
  /\ UNCHANGED <<expected, ignored, pc, settles, faults>>

Return ==
  /\ pc # "idle" /\ todo = {}
  /\ pc' = "idle"
  /\ UNCHANGED <<actual, expected, ignored, todo, at, settles, faults>>

\* A call fails, after or before it was applied: the rest is not made.
CallFails ==
  /\ pc # "idle" /\ todo # {} /\ faults < MaxFaults
  /\ faults' = faults + 1
  /\ \E c \in todo : Turn(c) /\ actual' \in {actual} \union Effects(actual, expected, c)
  /\ pc' = "idle" /\ todo' = {} /\ settles' = "nothing"
  /\ UNCHANGED <<expected, ignored, at>>

Next == CreateService \/ UpdateService \/ CallAPI \/ Return \/ CallFails

Spec == Init /\ [][Next]_vars

\* Passes are made again until one finds nothing to do.
FairSpec == Spec /\ WF_vars(CreateService \/ UpdateService \/ CallAPI \/ Return)

-----------------------------------------------------------------------------
(***************************************************************************)
(* Properties.                                                             *)
(***************************************************************************)

\* After an update that made all its calls, in whatever order the map gave them
\* and whatever an interrupted pass had left behind, the next pass finds nothing
\* to do.  If the update set the template or the command, macros may be left that
\* were as described only because the old one brought them: nothing but these, and
\* the next update, which sets no template or command any more, settles them.
UpdateSettles ==
  pc = "idle" =>
    /\ settles = "all" => DiffService(actual, expected, ignored) = {}
    /\ settles = "some" =>
         \A c \in DiffService(actual, expected, ignored) : c.op = "setMacro"

\* Each call uses the identity the service has at that point, although a rename
\* may come before any other call.
CallsReachService == pc # "idle" => at = Identity(actual)

FieldValue(s, f) ==
  CASE f = "name" -> s.name
    [] f = "host" -> s.host
    [] f = "macros" -> s.macros
    [] f \in List -> s.lists[f]
    [] f \in Param -> s.params[f]

\* The policy's promise: an update never changes a field excluded from the
\* comparison, not even on the way.  Excluded macros are those set on the service;
\* what it inherits changes with its template and its command all the same.
ExcludedUntouched ==
  [][pc = "update" =>
       \A f \in ignored : FieldValue(actual', f) = FieldValue(actual, f)]_vars

\* A macro the service only inherits is never asked to be deleted (there is nothing
\* to delete, so the call would be made by every pass), although what it inherits
\* may have changed since the pass compared.
OnlyOwnDeleted ==
  \A c \in todo : c.op = "deleteMacro" => actual.macros[c.of] # NoMacro

\* At the level of CentreonService, one call for the name, one for the host and
\* one for all the rest: however many calls the rest takes and wherever they are
\* cut, none undoes another one's work, the host is moved when nothing else is
\* left, and only the last one makes the service what is described, or leaves that
\* to one more update after one that set the template or the command.
AbstractField(c) ==
  CASE c.op = "rename" -> "name" [] c.op = "move" -> "host" [] OTHER -> "cfg"

Update == INSTANCE ServiceUpdate WITH
  NoId <- NoService,
  id <- IF actual = NoService THEN NoService ELSE Identity(actual),
  same <- \/ actual = NoService
          \/ \A c \in DiffService(actual, expected, ignored) :
               AbstractField(c) # "cfg",
  expected <- Identity(expected),
  ignored <- ignored \intersect {"name", "host"},
  todo <- IF pc = "update" THEN { AbstractField(c) : c \in todo } ELSE {}

ImplementsUpdate == Update!Spec

\* Passes come to an end: eventually the service is and stays as described,
\* whatever the updates on the way brought and took away.
Settles ==
  <>[](actual # NoService /\ DiffService(actual, expected, ignored) = {})
=============================================================================
