SPECIFICATION FairSpec
CONSTANTS
  Slugs = {s1, s2}
  Inlines = {i1}
  BatchSize = 1
  BaseBackoff = 1
  MaxBackoff = 2
  MaxAttempts = 2
  MaxWrites = 2
  Accepted = {s1}
INVARIANT TypeOK StaleIsQueuedButForGap
PROPERTY RetriedClaimSparesWrite AcceptedAreDrained
CHECK_DEADLOCK FALSE
