SPECIFICATION Spec
CONSTANTS
  Clients = {c1}
  m0 = m0
  m1 = m1
  m2 = m2
  b0 = b0
  b1 = b1
  Manifests = {m0, m1, m2}
  First = m0
  Blobs = {b0, b1}
  BlobsOf <- MCBlobsOf
  NoParent = NoParent
  MaxAttempts = 2
  MaxCommands = 1
INVARIANT ConflictIsForeign
CHECK_DEADLOCK FALSE
