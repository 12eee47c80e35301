SPECIFICATION FairSpec
CONSTANTS
  Depth = 3
  NumChan = 2
  Timeout = 12
  MaxSent = 2
  MinGap = 22
  MaxWords = 2
INVARIANTS
  RxStreamInv
  NothingLostUnstalled
PROPERTIES
  EveryPacketEnds
  EveryWordLeavesUnlessHeldOver
