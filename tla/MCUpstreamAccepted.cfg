SPECIFICATION Spec
CONSTANTS
  t1 = t1  t2 = t2  r1 = r1  r2 = r2  r3 = r3
  body = body
  Task = {t1}
  Body <- SameBody
  Request = {r1, r2}
  LastVersion = 3
  Gated = {1}
  UpstreamAnswer = {"ok", "accepted"}
  StaleReads = TRUE
  NoRequest = NoRequest
  NoVersion = NoVersion
  NoFingerprint = NoFingerprint
CHECK_DEADLOCK FALSE
INVARIANTS
  RefusedIsNotExecuted
