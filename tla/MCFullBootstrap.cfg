SPECIFICATION Spec
CONSTANTS
  k1 = k1  k2 = k2  v1 = v1  none = none  i1 = i1  i2 = i2
  Key = {k1, k2}
  NoKey = none
  Kind <- Kinds
  Vault = {v1}
  VaultOf <- Places
  Manifest = {k1, k2}
  Version = {1, 2, 3}
  Name = {i1, i2}
  PolicyId <- Ids12
  Policies <- Contents
  Baseline <- Hashes
  Keypair = {1, 2, 3}
  MaxCommands = 4  MaxRequests = 1
  Pausable = {k1}
INVARIANTS
  TypeOK
  PublishedAgrees
  RevokedStaysOut
  ListedIsRecorded
  PauseKept
  CustodyKept
  SetupTokenGone
