SPECIFICATION Spec
CONSTANTS
  k1 = k1  k2 = k2  a1 = a1  a2 = a2  c1 = c1  c2 = c2  c3 = c3
  Key = {k1, k2}
  Consumer = {a1}
  Caller = {c1, c2, c3}
  KeyRpm = 2
  ConsumerRpm = 3
  BreakerFailures = 2
  Cooldown = 1
  Window = 1
  Refusals = TRUE
  MaxRestarts = 1
  MaxTime = 1
CHECK_DEADLOCK FALSE
SYMMETRY Symmetry
INVARIANTS
  TypeOK
  WithinRate
  OneProbePerOpening
PROPERTIES
  TripsOnStreak
  OpenUntilProbed
