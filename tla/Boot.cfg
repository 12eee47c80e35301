SPECIFICATION FairSpec
CONSTANTS
  Slots = 3
  Straps <- SomeStraps
  Flashes <- ThreeSlots
  MaxFaults = 3
INVARIANTS
  LeavesCleanBoard
  FailedImageNotRerun
PROPERTIES
  FuseForbidsReset
  BootSettles
CHECK_DEADLOCK FALSE
