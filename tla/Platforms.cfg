SPECIFICATION FairSpec
CONSTANTS
  Plat = {p, q}
  DefaultKey = default
  Secret = {s}
  Settings = {u, v}
  Cred = {k, l}
  NoCred = NoCred
  NoObj = NoObj
  NoEntry = NoEntry
  NoPass = NoPass
  MayDemote = FALSE
  MaxUid = 2
  MaxEdits = 1
  MaxFaults = 1
INVARIANTS TypeOK GoneHasNoEntry EntryIsCurrent DefaultIsAnEntry DefaultIsServed OneFinalized
PROPERTIES ImplementsMap Served
CHECK_DEADLOCK FALSE
