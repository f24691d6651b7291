SPECIFICATION Spec
CONSTANTS
  Channel = {c1}
  NoChannel = NoChannel
  NoRequest = NoRequest
  One = One
  Twins = {}
  Slot <- Slots
  Request <- LifecycleRequests
  QueueCap = 1
  PushKind = {"message"}
  PushCap = 1
  MaxAttempts = 5
  HasStrategy = FALSE
  Strategy <- NoStrategy
INVARIANTS TypeOK RegistrationsScoped DroppedOnlyAtExit StatusFollowsState
PROPERTY BackoffGrows
CHECK_DEADLOCK FALSE
