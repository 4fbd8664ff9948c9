SPECIFICATION Spec
CONSTANTS
  CR = {a}
  Host = {h1}
  Name = {x, y}
  Cfg = {v1}
  Policy <- OnlyNoUpdate
  Found <- NothingFound
  Bare = Bare
  Manual = Manual
  NoId = NoId
  NoSvc = NoSvc
  NoReq = NoReq
  NoPass = NoPass
  Unborn = Unborn
  Gone = Gone
  MayRename = TRUE
  MaxEdits = 1
  MaxFaults = 0
INVARIANTS StatusIsWhereServiceIs
CHECK_DEADLOCK FALSE
