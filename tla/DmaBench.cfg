SPECIFICATION Spec
CONSTANTS
  N = 4
  Batch = 2
  Packets = 3
  Uart <- MCUart
  Registers = 2
  Reads = 1
  Tests = 2
  Sessions <- MCSessions
  Timeout = 2
  Values <- MCValues
  MaxWire = 2
  MaxInput = 1
INVARIANTS
  ProgramMeetsEngine
  LoopbackCountsTrue
CHECK_DEADLOCK FALSE
PROPERTIES
  DataTaken
  ItemEnds
