SPECIFICATION FairSpec
CONSTANTS
  N = 3
  Channels = 2
  MaxWords = 4
  Client = {c1}
  NoClient = none
  Request <- MixedRequests
  Longest = 2
  RingSize = 2
  Batch = 2
  RecvMayFail = TRUE
INVARIANTS
  CmdServerInv
PROPERTIES
  ReplyMatchesRequest
  WordsLeave
CHECK_DEADLOCK FALSE
