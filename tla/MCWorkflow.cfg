SPECIFICATION FairSpec
CONSTANTS
  StepCount = 3
  Plans <- MCAllPlans
INVARIANTS TypeOK MutationExclusive QuiescentRetention HonestReport StopHeeded
PROPERTIES ImplementsDag Terminates
