SPECIFICATION Spec
CONSTANTS
  Importers = {i1}
  Surety = surety
  Contract = contract
  Endowment = 1
  Amounts = {1}
  Requirements = {1, 2, 5}
  Rates = {2, 4}
  EmergencyFlags = {TRUE, FALSE}
  SandboxFlags = {FALSE}
  PAR = 2
  CAP = 2
  COOLDOWN = 2
  DISPUTE_WINDOW = 3
  STALE_AFTER = 3
  HISTORY_LEN = 2
  I128_MAX = 10
  MAX_YIELD = 1
  MAX_TIME = 5
INVARIANTS
  AuditTrail
PROPERTIES
  DisputedOnce
  DisputeStands

