CONSTANTS
  s1 = s1  s2 = s2  n1 = n1  n2 = n2  r1 = r1  r2 = r2
  kafka = kafka  error = error  host = host  f1 = f1  f2 = f2
  Main = main  NoThread = noThread  NoFile = noFile
  Terms = {kafka, error}
  Attrs = {host}
  Files = {f1, f2}
  Content <- MCContent
  Unreadable = {}
  InitialFiles = {f1}
  CacheMax = 1
  Queries <- MCText
  Searchers = {}
  Notifiers = {}
  Reindexers = {r1, r2}
SPECIFICATION Spec
INVARIANTS ReadyMeansLoaded
