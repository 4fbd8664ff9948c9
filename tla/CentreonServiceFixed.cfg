SPECIFICATION FairSpec
CONSTANTS
  CR = {a, b}
  Host = {h1}
  Name = {x}
  Cfg = {v1, v2}
  Policy <- NoDelete
  Found <- AnyFound
  Bare = Bare
  Manual = Manual
  NoId = NoId
  NoSvc = NoSvc
  NoReq = NoReq
  NoPass = NoPass
  Unborn = Unborn
  Gone = Gone
  MayRename = FALSE
  MaxEdits = 1
  MaxFaults = 1
INVARIANTS TypeOK FinalizedUnique
PROPERTIES ImplementsPromise Converges DeletionCompletes
CHECK_DEADLOCK FALSE
