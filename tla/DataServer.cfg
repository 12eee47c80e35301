SPECIFICATION FairSpec
CONSTANTS
  N = 5
  MaxWords = 6
  MaxBatch = 3
  MinBatch = 2
  WordBytes = 2
  NBytesRange = 16
  Subscriber = {s1, s2}
  InitMayFail = TRUE
INVARIANTS
  DataServerInv
PROPERTIES
  HeldBufferNotWritten
  EachWordOnceInOrder
  FlushedUnlessInitFailed
