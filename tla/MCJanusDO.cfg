SPECIFICATION Spec
CONSTANTS
  r1 = r1  r2 = r2  o1 = o1  o2 = o2  k1 = k1  k2 = k2
  c1 = c1  c2 = c2  c3 = c3  e1 = e1
  Request = {r1, r2}
  Owner = {o1}
  Content = {k1, k2}
  Timeout = {2, 3}
  Caller = {c1, c2}
  Endpoint = {e1}
  Second = 2
  MaxTime = 4
  CryptoYields = FALSE
  NoRequest = NoRequest
  NoFingerprint = NoFingerprint
  NoAlarm = NoAlarm
SYMMETRY Symmetry
INVARIANTS
  TypeOK
  SingleGrant
  GrantStandsOnApproval
  DecisionPageTruthful
  AlarmCoversPending
PROPERTIES
  ImplementsLedger
