SPECIFICATION Spec
CONSTANTS
  a1 = a1  a2 = a2  a3 = a3  a4 = a4  w1 = w1  w2 = w2
  external = external  internal = internal
  Attempt = {a1, a2, a3, a4}
  Remote = {external, internal}
  From <- Addresses
  Limit <- Limits
  Worker = {w1, w2}
  Window = 2
  PruneSlack = 0
  MaxTime = 4
SYMMETRY Symmetry
INVARIANTS
  TypeOK
PROPERTIES
  WithinLimit
