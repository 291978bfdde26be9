\* Two first accounts requested at once.
CONSTANTS
  ann = ann
  bob = bob
  main = main
  test = test
  x = x
  y = y
  long = long
  None = None
  Users = {ann, bob}
  Networks = {main}
  Aliases = {x, y}
  LongAliases = {}
  Creations = {c1, c2}
  Updates = {}
  network <- OneNet
  hasEncryptionKey <- Encrypted
  Bodies <- TwoFree
  Renames <- NoRenames
  MaxAccountId = 2
  Concurrency = 2
  Faults = FALSE
SPECIFICATION Spec
INVARIANTS
  FreeAccountOnce
