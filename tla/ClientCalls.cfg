SPECIFICATION JoinedSpec
CONSTANTS
  Channel = {c1}
  NoChannel = NoChannel
  NoRequest = NoRequest
  Slot = {s1}
  Request <- SendRequests
  QueueCap = 1
  PushKind = {"message"}
  PushCap = 1
  MaxAttempts = 1
  HasStrategy = TRUE
  Strategy <- NoStrategy
PROPERTIES CallersTold PushesGoOn ChannelShutdownEnds
CHECK_DEADLOCK FALSE
