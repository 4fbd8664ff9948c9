SPECIFICATION Spec
CONSTANTS
  Plat = {p, q}
  DefaultKey = default
  Secret = {s}
  Settings = {u}
  Cred = {k}
  NoCred = NoCred
  NoObj = NoObj
  NoEntry = NoEntry
  NoPass = NoPass
  MayDemote = FALSE
  MaxUid = 2
  MaxEdits = 1
  MaxFaults = 0
INVARIANTS NonDefaultAdmitted
CHECK_DEADLOCK FALSE
