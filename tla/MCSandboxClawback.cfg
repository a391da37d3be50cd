SPECIFICATION Spec
CONSTANTS
  Importers = {i1, i2}
  Surety = surety
  Contract = contract
  Endowment = 1
  Amounts = {1}
  Requirements = {0, 2}
  Rates = {1}
  EmergencyFlags = {FALSE}
  SandboxFlags = {TRUE, FALSE}
  PAR = 1
  CAP = 2
  COOLDOWN = 1
  DISPUTE_WINDOW = 1
  STALE_AFTER = 1
  HISTORY_LEN = 1
  I128_MAX = 2
  MAX_YIELD = 0
  MAX_TIME = 1
INVARIANT Solvency
