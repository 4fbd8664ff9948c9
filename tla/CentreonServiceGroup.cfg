SPECIFICATION Spec
CONSTANTS
  CSG = {a, b}
  x = x
  Name = {x, y}
  Cfg = {v, Blank}
  Blank = Blank
  Bare = Bare
  Policy <- PlainOrFrozen
  Service = {sv}
  Groups <- OneGroup
  NoName = NoName
  NoGroup = NoGroup
  NoPass = NoPass
  Unborn = Unborn
  Gone = Gone
  MaxEdits = 1
  MaxFaults = 1
INVARIANTS TypeOK UniqueUnlessRenamed StatusTracksGroup
  RestingServiceJoined RestingGroupInSync
PROPERTIES OthersKept ImplementsPromise
CHECK_DEADLOCK FALSE
SYMMETRY Symmetry
