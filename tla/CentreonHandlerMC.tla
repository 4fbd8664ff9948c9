------------------------- MODULE CentreonHandlerMC -------------------------
(* Small instances of CentreonHandler for TLC. *)
EXTENDS CentreonHandler, TLC

CONSTANTS h, n, tpl, cmd, v, none

\* The described services have one host and one name: the others are symmetric.
AllExpected ==
  { [host |-> h, name |-> n, params |-> ps, lists |-> ls, macros |-> ms] :
      ps \in [Param -> Value], ls \in [List -> SUBSET Member],
      ms \in [MacroName -> Wanted \union {NoMacro}] }

\* The template brings a macro with a value; without one the command brings macros
\* that come back direct and without value.
TemplateOrCommand ==
  [bs \in [{tpl, cmd} -> Value] |->
     [m \in MacroName |->
        CASE bs[tpl] = v -> [value |-> v, isPassword |-> "", direct |-> FALSE]
          [] bs[tpl] # v /\ bs[cmd] = v ->
               [value |-> none, isPassword |-> "0", direct |-> TRUE]
          [] OTHER -> NoMacro]]

FewIgnored == {{}, {"name"}, {"host", "groups"}, {"macros", cmd}}
=============================================================================
