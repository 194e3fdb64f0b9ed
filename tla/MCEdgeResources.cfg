SPECIFICATION Spec
CONSTANTS
  MaxMade = 2
  MaxFaults = 2
INVARIANTS
  TypeOK
  Accounted
  ProvisionedIsComplete
