SPECIFICATION Spec
CONSTANTS
  MaxByte = 3
  PhoenixEvent <- Names
  PhxReply <- Reply1
  Phoenix <- Topic0
  OkStatus <- Ok1
  Json = {v1}
  None = None
  ClientMessage <- ToServer
  ServerMessage <- ToClient
  ForeignFrame <- Foreign
INVARIANTS TypeOK ServerReadsAsSent RefusedOnlyTooLong ClientReadsAsSent NothingReadIntoFrame
