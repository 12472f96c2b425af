SPECIFICATION FairSpec
CONSTANTS
  Root = root
  Children = {k1, k2}
  Batches <- TeamBatches
  MaxUpdates = 1
  MaxRounds = 1
  ObserverRaises = TRUE
INVARIANTS CallsClosed
PROPERTIES Terminates
