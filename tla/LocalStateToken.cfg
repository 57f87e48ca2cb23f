SPECIFICATION Spec
CONSTANTS
  Slugs = {s1}
  Manifests = {m1}
  Commands = {c1, c2}
  Unminted = Unminted
  Gone = Gone
  Absent = Absent
  Token = Token
  NoParent = NoParent
  NoOne = NoOne
INVARIANT RecordHasToken
CHECK_DEADLOCK FALSE
