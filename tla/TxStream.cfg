SPECIFICATION FairSpec
CONSTANTS
  NumUart = 2
  Modes = {0, 1, 2}
  Delays = {0, 2}
  Phase = 1
  WordEdges = 4
  MaxPackets = 2
PROPERTIES
  WordsSentAsConfigured
  EveryWordLeavesUnlessBlocked
