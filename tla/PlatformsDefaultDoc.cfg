SPECIFICATION Spec
CONSTANTS
  Plat = {p, q}
  DefaultKey = default
  Secret = {s}
  Settings = {u}
  Cred = {k}
  NoCred = NoCred
  NoObj = NoObj
  NoEntry = NoEntry
  NoPass = NoPass
  MayDemote = TRUE
  MaxUid = 2
  MaxEdits = 1
  MaxFaults = 0
INVARIANTS DefaultIsDefault
CHECK_DEADLOCK FALSE
