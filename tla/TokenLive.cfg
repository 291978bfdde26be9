\* No faults: what answers tell, and that every call gets one.
CONSTANTS
  ann = ann
  bob = bob
  a1 = a1
  a2 = a2
  a3 = a3
  x = x
  y = y
  text = text
  picture = picture
  brochure = brochure
  plain = plain
  fixed = fixed
  c1 = c1
  c2 = c2
  None = None
  Users = {ann, bob}
  hasEncryptionKey <- Encrypted
  Accounts = {a1, a2, a3}
  Aliases = {x, y}
  Rows <- ThreeRows
  Renames <- MoveX
  Texts = {text}
  Hip412 = {picture}
  Hip766 = {brochure}
  Tokens = {plain, fixed}
  supplyKeyOf <- Holders
  Calls = {c1, c2}
  Bodies <- Sample
  Faults = FALSE
SPECIFICATION FairSpec
INVARIANT AnswerMatchesLedger
PROPERTY Answered
