SPECIFICATION Spec
CONSTANTS
  Key = {k1}
  Ref = {r1, r2}
  PushCap = 1
  BroadcastCap = 2
  EventCap = 2
SYMMETRY Alike
INVARIANTS TypeOK CaughtUp ListedAsTold NobodyListedEmpty
PROPERTY LeavesTold
