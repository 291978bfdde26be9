\* Two users, two keys and two calls that use or delete them; every fault.
CONSTANTS
  ann = ann
  bob = bob
  mail = mail
  secret = secret
  other = other
  u1 = u1
  u2 = u2
  s1 = s1
  s2 = s2
  g1 = g1
  g2 = g2
  d1 = d1
  d2 = d2
  Forged = Forged
  None = None
  Usernames = {ann, bob}
  Emails = {mail}
  Passwords = {secret, other}
  Calls = {u1, u2, s1, s2, g1, g2, d1, d2}
  AuthBodies <- Everything
  Concurrency = 2
  Faults = TRUE
SPECIFICATION AuthSpec
INVARIANTS
  AuthBookkeeping
  UsersDistinct
  TracedToPassword
  OneDeletionAcknowledged
PROPERTIES
  KeysDeletedByOwner
  DeletedKeyRefused
  CredentialsSpec
