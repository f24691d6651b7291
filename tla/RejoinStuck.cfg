SPECIFICATION Spec
CONSTANTS
  Channel = {c1}
  NoChannel = NoChannel
  NoRequest = NoRequest
  Slot = {s1}
  Request <- JoinRequests
  QueueCap = 1
  PushKind = {"message", "phx_close"}
  PushCap = 1
  MaxAttempts = 1
  HasStrategy = FALSE
  Strategy <- NoStrategy
INVARIANT RejoinsWhenConnected
CHECK_DEADLOCK FALSE
