SPECIFICATION Spec
CONSTANTS
  Channel = {c1}
  NoChannel = NoChannel
  NoRequest = NoRequest
  One = One
  Twins = {t1, t2}
  Slot <- Slots
  Request <- CallRequests
  QueueCap = 1
  PushKind = {"message"}
  PushCap = 1
  MaxAttempts = 1
  HasStrategy = FALSE
  Strategy <- NoStrategy
SYMMETRY Alike
INVARIANT JoinsHaveDeadlines
PROPERTIES CallAnsweredByOwnReply SentAreTold
CHECK_DEADLOCK FALSE
