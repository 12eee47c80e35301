SPECIFICATION Spec
CONSTANTS
  N = 3
  Channels = 2
  MaxWords = 1
  Client = {c1, c2}
  NoClient = none
  Request <- PlainRequests
  Longest = 2
  RingSize = 2
  Batch = 2
  RecvMayFail = FALSE
PROPERTIES
  ReplyMatchesRequest
