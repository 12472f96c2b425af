SPECIFICATION Spec
CONSTANTS
  Root = root
  Children = {k1}
  Batches <- MCBatches
  MaxUpdates = 2
  MaxRounds = 2
  ObserverRaises = FALSE
INVARIANTS TypeOK ResultsFaithful SteeringHeeded
PROPERTIES StopIsFinal
