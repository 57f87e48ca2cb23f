SPECIFICATION Spec
CONSTANTS
  Slugs = {s1}
  Keys = {k1}
  b1 = b1
  b2 = b2
  Blobs = {b1, b2}
  Manifests <- DisjointManifests
  Tokens = {t1, t2}
  Requests = {r1, r2}
  NoSlug = NoSlug
  AbandonGrace = 1
  BlobDeleteGrace = 1
  PresignTTL = 1
  Lifetime = 1
  BatchSize = 1
  PageSize = 2
  MaxTime = 2
SYMMETRY Interchangeable
INVARIANT SweptStaysEmptyButForLateInit
PROPERTY ImplementsLifecycle VisibleChangeIsQueued
CHECK_DEADLOCK FALSE
