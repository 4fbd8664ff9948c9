SPECIFICATION Spec
CONSTANTS
  CR = {a, b}
  Host = {h1, h2}
  Name = {x, y}
  Cfg = {v1}
  Policy <- NoWriteOrName
  Found <- NothingFound
  Bare = Bare
  Manual = Manual
  NoId = NoId
  NoSvc = NoSvc
  NoReq = NoReq
  NoPass = NoPass
  Unborn = Unborn
  Gone = Gone
  MayRename = TRUE
  MaxEdits = 1
  MaxFaults = 1
INVARIANTS FinalizerFirst StatusTracksService OneServicePerResource
CHECK_DEADLOCK FALSE
SYMMETRY Symmetry
