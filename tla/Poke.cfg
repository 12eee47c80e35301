SPECIFICATION FairSpec
CONSTANTS
  Mask = {m1, m2}
  NoMask = m0
  WriteGap = 3
INVARIANTS
  IInv
  PokeCarriesItsMask
  PollingNeverDropped
PROPERTIES
  StableThenAcknowledge
  ImplementsChannel
