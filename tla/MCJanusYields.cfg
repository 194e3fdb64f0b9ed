SPECIFICATION FairSpec
CONSTANTS
  r1 = r1  r2 = r2  o1 = o1  o2 = o2  k1 = k1  k2 = k2
  c1 = c1  c2 = c2  c3 = c3  e1 = e1
  Request = {r1}
  Owner = {o1}
  Content = {k1, k2}
  Timeout = {1, 2}
  Caller = {c1, c2}
  Endpoint = {e1}
  Second = 1
  MaxTime = 3
  CryptoYields = TRUE
  NoRequest = NoRequest
  NoFingerprint = NoFingerprint
  NoAlarm = NoAlarm
PROPERTIES
  FirstOutcomeStands
  PendingResolved
