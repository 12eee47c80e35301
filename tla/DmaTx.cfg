SPECIFICATION TxFairSpec
CONSTANTS
  N = 4
  Batch = 2
  Prefetch = 2
  Packet = {p1, p2}
  Zero = p0
INVARIANTS
  TxInv
PROPERTIES
  TxImplementsFifo
  NoStaleFetch
