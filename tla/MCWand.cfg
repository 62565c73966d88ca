CONSTANTS
  NumTokens = 3
  NumDocs = 3
  MaxNorm = 3
  BlockSize = 2
  TopK = 2
  MayBeStale = FALSE
SPECIFICATION FairSpec
INVARIANTS TypeOK ScoresExact NoDuplicates AllTermsFound
PROPERTY EveryStepAdvances Terminates
