SPECIFICATION Spec
CONSTANTS
  Slugs = {s1}
  Inlines = {i1, i2}
  BatchSize = 2
  BaseBackoff = 1
  MaxBackoff = 2
  MaxAttempts = 2
  MaxWrites = 3
  Accepted = {s1}
INVARIANT StaleHasPendingPurge
SYMMETRY Interchangeable
CHECK_DEADLOCK FALSE
