SPECIFICATION FairSpec
CONSTANTS
  Slugs = {s1}
  Keys = {k1}
  b1 = b1
  b2 = b2
  Blobs = {b1, b2}
  Manifests <- WholeManifest
  Tokens = {t1}
  Requests = {r1}
  NoSlug = NoSlug
  AbandonGrace = 1
  BlobDeleteGrace = 1
  PresignTTL = 1
  Lifetime = 0
  BatchSize = 1
  PageSize = 1
  MaxTime = 2
PROPERTY PendingSettles TerminalIsSwept
CHECK_DEADLOCK FALSE
