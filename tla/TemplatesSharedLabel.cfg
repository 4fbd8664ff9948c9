SPECIFICATION Spec
CONSTANTS
  p = p
  q = q
  t = t
  u = u
  np = np
  nq = nq
  b1 = b1
  b2 = b2
  Parent = {p, q}
  Label = {p, q}
  LabelOf <- SameLabel
  Template = {t, u}
  Annotation <- SomeAnnotations
  Name = {np, nq}
  Body = {b1, b2}
  Content <- SomeContent
  Nothing = Nothing
  Failure = Failure
  Initial <- SomeStart
  NoLabel = NoLabel
  NoObj = NoObj
  NoPass = NoPass
  MaxUid = 2
  MaxEdits = 1
  MaxFaults = 1
PROPERTIES DeletesOwn
CHECK_DEADLOCK FALSE
