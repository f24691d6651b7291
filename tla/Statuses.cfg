SPECIFICATION FairSpec
CONSTANTS
  Status = {w1, w2, Joined, ShutDown}
  Waiting = {w1, w2}
  ShutDown = ShutDown
  Error = {Rejected}
  None = None
  Reader = {r1}
  Capacity = 2
  MaxSent = 5
INVARIANTS TypeOK UpToDate OnlyChanges
PROPERTIES ReadersCatchUp EndIsNoticed
CHECK_DEADLOCK FALSE
