CONSTANTS
  NumTokens = 2
  NumDocs = 3
  MaxNorm = 3
  BlockSize = 2
  TopK = 2
  MayBeStale = FALSE
SPECIFICATION Spec
INVARIANT SkipsOnlyBeaten
