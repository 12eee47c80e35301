SPECIFICATION Spec
CONSTANTS
  NumTiles = 2
  Level = {0, 1}
  Ramp <- MCRamp
  Sessions <- MCSessions
  MaxFaults = 1
  MaxCount = 1
  Blinks = 1
INVARIANTS
  RampPowersOneTile
PROPERTIES
  MeasuresWhatItSays
  PolesAgree
  OtherTilesKept
  FullResetIsLong
  CountIsOfItsChannel
