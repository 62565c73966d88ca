CONSTANTS
  f0 = f0  f1 = f1  d1 = d1  d2 = d2
  NumShards = 2
  Files = {f0, f1}
  Docs = {d1, d2}
  Hash <- MCHash
  FileOf <- MCFileOf
  Score <- MCScore
  Sure = {d2}
  AskSize = 10
  MaxPageSize = 2
  MaxInt = 7
  Paging <- MCFirst
  Disk <- MCDisk
  Loaded <- MCLoaded
  Searchers = {s1}
  Notifiers = {n1}
  Reindexers = {r1}
  NoFile = noFile
  MayStop = {1}
  Asked = {1}
SPECIFICATION Spec
INVARIANT GlobalTop
