\* Aliases that are unambiguous and do not change; liveness.
CONSTANTS
  ann = ann
  bob = bob
  a1 = a1
  a2 = a2
  a3 = a3
  a4 = a4
  x = x
  y = y
  hbar = hbar
  gold = gold
  art = art
  None = None
  Accounts = {a1, a2, a3, a4}
  Aliases = {x, y}
  Tokens = {hbar, gold, art}
  Serials = {1, 2}
  Users = {ann, bob}
  hasEncryptionKey <- Encrypted
  Rows <- ThreeRows
  Renames <- NoRenames
  Publications = {p1}
  Proposals <- Bazaar
  Fetches = {f1}
  Queries <- Visitors
  MaxLegs = 6
  Faults = FALSE
SPECIFICATION FairSpec
INVARIANT SameAliasSameAccount
PROPERTY Answered
