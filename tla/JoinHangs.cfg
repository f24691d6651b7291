SPECIFICATION Spec
CONSTANTS
  Channel = {c1}
  NoChannel = NoChannel
  NoRequest = NoRequest
  Slot = {s1}
  Request <- CallRequests
  QueueCap = 1
  PushKind = {"message", "phx_close"}
  PushCap = 1
  MaxAttempts = 1
PROPERTY JoinersToldWhileRunning
CHECK_DEADLOCK FALSE
