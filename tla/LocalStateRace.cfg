SPECIFICATION Spec
CONSTANTS
  Slugs = {s1, s2}
  Manifests = {m1, m2}
  Commands = {c1, c2}
  Unminted = Unminted
  Gone = Gone
  Absent = Absent
  Token = Token
  NoParent = NoParent
  NoOne = NoOne
SYMMETRY Interchangeable
INVARIANT TypeOK RecordHasTokenButIfLoose LocksHeldWhileWriting
PROPERTY TokenOutlivesDocument WritesSpareOthers
CHECK_DEADLOCK FALSE
