SPECIFICATION Spec
CONSTANTS
  o1 = o1  o2 = o2  s1 = s1  s2 = s2  c1 = c1  c2 = c2  k1 = k1  k2 = k2
  r1 = r1  r2 = r2  none = none
  Operator = {o1, o2}
  Session = {s1, s2}
  NoSession = none
  Consumer = {c1, c2}
  Key = {k1, k2}
  ConsumerScope <- Consumers
  KeyScope <- Keys
  SignLimit <- Limits
  Ttl <- Durations
  Latency = 0
  FirstKeys = {k1}
  MaxTime = 0
  Request = {r1}
  Permitted <- Lists
CHECK_DEADLOCK FALSE
INVARIANTS
  NoOverlap
