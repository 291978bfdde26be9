\* Eleven calls, one at a guard and one in a handler at a time; every fault.
CONSTANTS
  ann = ann
  bob = bob
  secret = secret
  other = other
  main = main
  x = x
  y = y
  u1 = u1
  u2 = u2
  s1 = s1
  s2 = s2
  g1 = g1
  g2 = g2
  d1 = d1
  r1 = r1
  r2 = r2
  r3 = r3
  n1 = n1
  Forged = Forged
  None = None
  Usernames = {ann, bob}
  Emails = {}
  Passwords = {secret, other}
  Users = {u1, u2}
  Networks = {main}
  Aliases = {x, y}
  LongAliases = {}
  Calls = {u1, u2, s1, s2, g1, g2, d1, r1, r2, r3, n1}
  Creations = {r1, r2, r3}
  Updates = {n1}
  AuthBodies <- MCBodies
  network <- OneNet
  hasEncryptionKey <- Encrypted
  Bodies <- MCAccountBodies
  Renames <- MCRenames
  MaxAccountId = 2
  Concurrency = 1
  Faults = TRUE
SPECIFICATION ApiSpec
CONSTRAINT SetUpFirst
INVARIANTS
  TransactionsTraced
  RowsTraced
PROPERTIES
  RowChangesTraced
