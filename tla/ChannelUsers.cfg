SPECIFICATION Spec
CONSTANTS
  Channel = {c1}
  NoChannel = NoChannel
  NoRequest = NoRequest
  Slot = {s1}
  Request <- UserRequests
  QueueCap = 1
  PushKind = {"message", "phx_close"}
  PushCap = 1
  MaxAttempts = 2
INVARIANTS TypeOK WaitsForLiveAnswer OneUnderWay
PROPERTIES JoinersTold LeaversTold RejoinBacksOff
CHECK_DEADLOCK FALSE
