SPECIFICATION FairSpec
CONSTANTS
  CR = {c, d}
  Plat = {p}
  DefaultKey = default
  Server = {s, t}
  NoRef = NoRef
  Refs = {p, NoRef}
  NoEntry = NoEntry
  NoSvc = NoSvc
  NoPass = NoPass
  Unborn = Unborn
  Gone = Gone
  MaxChanges = 1
  MaxFaults = 1
INVARIANTS TypeOK
PROPERTIES ImplementsPromise DeletionCompletes FollowsPlatform
CHECK_DEADLOCK FALSE
