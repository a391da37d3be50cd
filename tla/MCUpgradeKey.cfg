SPECIFICATION Spec
CONSTANTS
  k1 = k1
  k2 = k2
  k3 = k3
  Addresses <- Keys
  AdminLists <- Lists
  SignerLists <- ThreeSigners
  Hashes = {new, newer}
  None = none
  THRESHOLD = 2
  QUORUM = 2
  VALIDITY = 1
  MAX_PROPOSALS = 2
  MAX_LEDGER = 2
PROPERTY InstalledByTwoAdmins
