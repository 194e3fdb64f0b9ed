SPECIFICATION FairSpec
CONSTANTS
  k1 = k1  k2 = k2  a1 = a1  a2 = a2  c1 = c1  c2 = c2  c3 = c3
  Key = {k1}
  Consumer = {a1}
  Caller = {c1}
  KeyRpm = 3
  ConsumerRpm = 3
  BreakerFailures = 2
  Cooldown = 1
  Window = 2
  Refusals = TRUE
  MaxRestarts = 1
  MaxTime = 3
CHECK_DEADLOCK FALSE
PROPERTIES
  ProbeConcludes
