SPECIFICATION FairSpec
CONSTANTS
  t1 = t1  t2 = t2  r1 = r1  r2 = r2  r3 = r3
  body = body
  Task = {t1, t2}
  Body <- SameBody
  Request = {r1, r2}
  LastVersion = 2
  Gated = {1}
  UpstreamAnswer = {"ok", "blocked"}
  StaleReads = TRUE
  NoRequest = NoRequest
  NoVersion = NoVersion
  NoFingerprint = NoFingerprint
CHECK_DEADLOCK FALSE
INVARIANTS
  TypeOK
  PaidDispatch
  AtMostOnce
  RefusedIsNotExecuted
PROPERTIES
  EveryCallAnswered
