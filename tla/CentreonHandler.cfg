SPECIFICATION FairSpec
CONSTANTS
  h = h
  n = n
  tpl = tpl
  cmd = cmd
  v = v
  none = none
  Host = {h, h2}
  Name = {n, n2}
  Param = {tpl, cmd}
  Template = tpl
  Bringer = {tpl, cmd}
  Inherited <- TemplateOrCommand
  Value = {v, none}
  Empty = none
  Member = {g}
  MacroName = {m}
  Expected <- AllExpected
  Ignored <- FewIgnored
  NoMacro = NoMacro
  NoService = NoService
  MaxFaults = 1
INVARIANTS TypeOK UpdateSettles CallsReachService OnlyOwnDeleted
PROPERTIES ImplementsUpdate ExcludedUntouched Settles
CHECK_DEADLOCK FALSE
