\* Two calls while accounts are registered and renamed, every fault.
CONSTANTS
  ann = ann
  bob = bob
  a1 = a1
  a2 = a2
  a3 = a3
  x = x
  y = y
  text = text
  picture = picture
  brochure = brochure
  plain = plain
  fixed = fixed
  c1 = c1
  c2 = c2
  None = None
  Users = {ann, bob}
  hasEncryptionKey <- Encrypted
  Accounts = {a1, a2, a3}
  Aliases = {x, y}
  Rows <- ThreeRows
  Renames <- MoveX
  Texts = {text}
  Hip412 = {picture}
  Hip766 = {brochure}
  Tokens = {plain, fixed}
  supplyKeyOf <- Holders
  Calls = {c1, c2}
  Bodies <- Everything
  Faults = TRUE
SPECIFICATION Spec
INVARIANTS
  Bookkeeping
  OwnAccountsOnly
  CollectorsResolved
  UploadsHaveSpace
  SupplyCapped
  MintedWithNamedKey
PROPERTY RightsSpec
