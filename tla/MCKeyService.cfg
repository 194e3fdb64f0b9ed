SPECIFICATION Spec
CONSTANTS
  r1 = r1  r2 = r2  s1 = s1  s2 = s2  t1 = t1  t2 = t2
  unlimited = unlimited
  Request = {r1, r2}
  Thread = {t1, t2}
  Session = {s1, s2}
  Covers <- Scopes
  MaxQueries <- Limits
  Unlimited = unlimited
  Ttl <- Durations
  Tolerance = 1
  PruneSlack = 1
  Skew = 0
  MaxTime = 3
CHECK_DEADLOCK FALSE
SYMMETRY Symmetry
INVARIANTS
  TypeOK
  QuotaKept
  EndedServesNothing
PROPERTIES
  RepeatsWaited
  CountedWhileActive
