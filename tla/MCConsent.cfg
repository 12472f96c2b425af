SPECIFICATION FairSpec
CONSTANTS
  MaxAsks = 4
  MaxTurns = 3
  MaxPosted = 1
INVARIANTS TypeOK
PROPERTIES OnlyOnYes StopUnblocksShown
