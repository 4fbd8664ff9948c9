---------------------------- MODULE ServiceUpdate ----------------------------
(***************************************************************************)
(* What the passes may expect of the sequences of calls that create and    *)
(* update a service, when all its fields but the host and the name count   *)
(* as one, which is as described or not.  This is the level at which       *)
(* CentreonService models an update; CentreonHandler implements it.        *)
(***************************************************************************)
CONSTANTS
  Host, Name,
  NoId  \* there is no service

VARIABLES
  id,        \* the identity of the service, or NoId
  same,      \* its other fields are as described
  expected,  \* the identity the resource describes
  ignored,   \* the fields among "name" and "host" that the policy excludes
  pc,        \* between passes, in CreateService, in UpdateService
  todo,      \* the fields an update still has to set
  at,        \* the identity the calls use
  settles    \* what the running or last pass, an update, settles if it ends

vars == <<id, same, expected, ignored, pc, todo, at, settles>>

Id == [host : Host, name : Name]

\* The fields an update has to set.
Diff ==
  { f \in {"name", "host", "cfg"} \ ignored :
      \/ f = "name" /\ id.name # expected.name
      \/ f = "host" /\ id.host # expected.host
      \/ f = "cfg" /\ ~same }

Init ==
  /\ id \in Id \union {NoId} /\ same \in BOOLEAN
  /\ expected \in Id /\ ignored \in SUBSET {"name", "host"}
  /\ pc = "idle" /\ todo = {} /\ at = expected /\ settles = "nothing"

\* Add; the service may be as described at once.
Add ==
  /\ pc = "idle" /\ id = NoId
  /\ id' = expected /\ at' = expected
  /\ same' \in BOOLEAN
  /\ pc' = "create" /\ todo' = {} /\ settles' = "nothing"
  /\ UNCHANGED <<expected, ignored>>

\* The calls that set the rest; the fields described as empty may need an update.
Fill ==
  /\ pc = "create" /\ same' \in BOOLEAN
  /\ UNCHANGED <<id, expected, ignored, pc, todo, at, settles>>

\* Setting the other fields may take away some that were as described; not twice in
\* a row, unless an update is cut.
Begin ==
  /\ pc = "idle" /\ id # NoId /\ Diff # {}
  /\ settles' \in (IF "cfg" \in Diff /\ settles # "some" THEN {"some", "all"} ELSE {"all"})
  /\ pc' = "update" /\ todo' = Diff /\ at' = id
  /\ UNCHANGED <<id, same, expected, ignored>>

\* A call for the other fields, with more of them to come.
SetSome ==
  /\ pc = "update" /\ "cfg" \in todo /\ settles = "some"
  /\ same' \in BOOLEAN
  /\ UNCHANGED <<id, expected, ignored, pc, todo, at, settles>>

\* The last of the calls for the other fields.
SetCfg ==
  /\ pc = "update" /\ "cfg" \in todo
  /\ same' \in (IF settles = "all" THEN {TRUE} ELSE BOOLEAN)
  /\ todo' = todo \ {"cfg"}
  /\ UNCHANGED <<id, expected, ignored, pc, at, settles>>

\* The service moves, and the calls that follow know.
Rename ==
  /\ pc = "update" /\ "name" \in todo
  /\ id' = [id EXCEPT !.name = expected.name] /\ at' = id'
  /\ todo' = todo \ {"name"}
  /\ UNCHANGED <<same, expected, ignored, pc, settles>>

\* The host is moved last.
SetHost ==
  /\ pc = "update" /\ todo = {"host"}
  /\ id' = [id EXCEPT !.host = expected.host] /\ at' = id'
  /\ todo' = {}
  /\ UNCHANGED <<same, expected, ignored, pc, settles>>

Return ==
  /\ pc # "idle" /\ todo = {}
  /\ pc' = "idle"
  /\ UNCHANGED <<id, same, expected, ignored, todo, at, settles>>

Gives ==
  /\ pc' = "idle" /\ todo' = {} /\ settles' = "nothing"
  /\ UNCHANGED <<expected, ignored, at>>

\* The pass ends early; its last call may have been applied.
Fail ==
  /\ pc # "idle" /\ Gives
  /\ \/ UNCHANGED id /\ same' \in (IF pc = "create" \/ "cfg" \in todo THEN BOOLEAN
                                                                     ELSE {same})
     \/ /\ "name" \in todo /\ UNCHANGED same
        /\ id' = [id EXCEPT !.name = expected.name]
     \/ /\ todo = {"host"} /\ UNCHANGED same
        /\ id' = [id EXCEPT !.host = expected.host]

Next ==
  \/ Add \/ Fill \/ Begin \/ SetSome \/ SetCfg \/ Rename \/ SetHost \/ Return \/ Fail

Spec == Init /\ [][Next]_vars
=============================================================================
