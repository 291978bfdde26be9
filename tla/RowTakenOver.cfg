\* Two users on two networks are given the same account id.
CONSTANTS
  ann = ann
  bob = bob
  main = main
  test = test
  x = x
  y = y
  long = long
  None = None
  Users = {ann, bob}
  Networks = {main, test}
  Aliases = {x, y}
  LongAliases = {}
  Creations = {c1, c2}
  Updates = {}
  network <- TwoNets
  hasEncryptionKey <- Encrypted
  Bodies <- NetworkBodies
  Renames <- NoRenames
  MaxAccountId = 2
  Concurrency = 2
  Faults = FALSE
SPECIFICATION Spec
INVARIANTS
  AcknowledgedAccountUsable
