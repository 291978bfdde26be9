\* Two handlers in flight at a time, with every fault, on one network.
CONSTANTS
  ann = ann
  bob = bob
  main = main
  test = test
  x = x
  y = y
  long = long
  None = None
  Users = {ann, bob}
  Networks = {main}
  Aliases = {x, y}
  LongAliases = {}
  Creations = {c1, c2, c3}
  Updates = {u1}
  network <- OneNet
  hasEncryptionKey <- Encrypted
  Bodies <- FaultBodies
  Renames <- NamedX
  MaxAccountId = 3
  Concurrency = 2
  Faults = TRUE
SPECIFICATION Spec
SYMMETRY Interchangeable
INVARIANTS
  Bookkeeping
  KeyBeforeAccount
  PayerIsOwn
  AcknowledgedAccountUsable
PROPERTIES
  CustodySpec
  RegistrySpec
  RowsChangeByTheirUser
