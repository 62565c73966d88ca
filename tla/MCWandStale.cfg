CONSTANTS
  NumTokens = 1
  NumDocs = 3
  MaxNorm = 3
  BlockSize = 2
  TopK = 1
  MayBeStale = TRUE
SPECIFICATION Spec
INVARIANT AllTermsFound
