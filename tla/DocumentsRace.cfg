SPECIFICATION Spec
CONSTANTS
  Slugs = {s1}
  Keys = {k1}
  b1 = b1
  b2 = b2
  Blobs = {b1, b2}
  Manifests <- EveryManifest
  Tokens = {t1}
  Requests = {r1, r2}
  NoSlug = NoSlug
  AbandonGrace = 1
  BlobDeleteGrace = 1
  PresignTTL = 1
  Lifetime = 1
  BatchSize = 1
  PageSize = 1
  MaxTime = 2
SYMMETRY Symmetry
INVARIANT TypeOK PublishedBlobsPresent HeadsStayGood SweepsOnlyTerminal AnswersAreLive
PROPERTY NoLostUpdate ServedMovesForward LifetimeHonoured
CHECK_DEADLOCK FALSE
