\* Concurrent calls of users of both networks, whose account ids repeat; no faults,
\* and the fairness of the event loop.
CONSTANTS
  ann = ann
  bob = bob
  main = main
  test = test
  x = x
  y = y
  long = long
  None = None
  Users = {ann, bob}
  Networks = {main, test}
  Aliases = {x, y, long}
  LongAliases = {long}
  Creations = {c1, c2}
  Updates = {u1}
  network <- TwoNets
  hasEncryptionKey <- Encrypted
  Bodies <- LiveBodies
  Renames <- LiveRenames
  MaxAccountId = 2
  Concurrency = 2
  Faults = FALSE
SPECIFICATION FairSpec
INVARIANTS
  LinkSound
  RowHasKey
  ErrorMeansNoAccount
PROPERTIES
  Answered
  LedgerAccountRegistered
