SPECIFICATION Spec
CONSTANTS
  Channel = {c1}
  NoChannel = NoChannel
  NoRequest = NoRequest
  One = One
  Twins = {t1, t2}
  Slot <- Slots
  Request <- LeaveRequests
  QueueCap = 1
  PushKind = {"message"}
  PushCap = 1
  MaxAttempts = 1
  HasStrategy = FALSE
  Strategy <- NoStrategy
SYMMETRY Alike
PROPERTY JoinAnsweredByJoinReply
CHECK_DEADLOCK FALSE
