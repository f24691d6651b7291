SPECIFICATION FairSpec
CONSTANTS
  Channel = {c1}
  NoChannel = NoChannel
  NoRequest = NoRequest
  One = One
  Twins = {}
  Slot <- Slots
  Request <- LivenessRequests
  QueueCap = 1
  PushKind = {"message"}
  PushCap = 1
  MaxAttempts = 1
  HasStrategy = TRUE
  Strategy <- NoStrategy
PROPERTIES StateCommandsAnswered SentJoinsEnd LostConnectionRetried ShutdownEnds
CHECK_DEADLOCK FALSE
