CONSTANTS
  u1 = u1  u2 = u2  u3 = u3  w1 = w1  w2 = w2
  Uploads = {u1, u2, u3}
  FileName <- MCFileName
  Corrupt = {u2}
  Workers = {w1, w2}
  QueueCap = 1
  MaxAttempts = 2
  MaxRestarts = 0
  NoUpload = noUpload
SPECIFICATION Spec
INVARIANT DoneMeansIndexed
CHECK_DEADLOCK FALSE
