SPECIFICATION Spec
CONSTANTS
  a = a
  b = b
  c = c
  Other = Other
  Object = {a, b, c}
  KindOf <- TwoKinds
  LastKind = 2
  Old = Old
  New = New
  Ref <- References
  Lists <- OneOrTwo
  NoAnnotation = NoAnnotation
  Malformed = Malformed
  Absent = Absent
  MaxEdits = 2
  MaxFaults = 1
INVARIANTS CompletedIsClean
PROPERTIES OnlyReplaces
CHECK_DEADLOCK FALSE
