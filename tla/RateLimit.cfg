SPECIFICATION Spec
CONSTANTS
  Callers <- MCCallers
  NoToken = NoToken
  NoHeader = NoHeader
  Caddy = Caddy
  r1 = r1
  r2 = r2
  r3 = r3
  Requests = {r1, r2, r3}
  t1 = t1
  ip1 = ip1
  minute = minute
  hour = hour
  WindowIds = {minute, hour}
  Size <- MCSize
  Limit <- MCLimit
  PerSecond = 2
  MaxLag = 2
  MaxSends = 2
  MaxClock = 4
  MaxLost = 1
INVARIANT TypeOK CountersRemember WithinLimit RefusalsDeserved WaitingHelps
SYMMETRY RequestsAlike
CHECK_DEADLOCK FALSE
