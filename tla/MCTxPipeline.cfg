SPECIFICATION LedgerSpec
CONSTANTS
  j1 = j1
  j2 = j2
  keypair = keypair
  x1 = x1
  x2 = x2
  y1 = y1
  y2 = y2
  q1 = q1
  o1 = o1
  o2 = o2
  v1 = v1
  r1 = r1
  r2 = r2
  e1 = e1
  Jobs <- TwoJobs
  Keys <- OneKey
  KeyOf <- SameKey
  ATTEMPTS = 2
  MAX_STALLED = 1
  CONCURRENCY = 2
  VALIDITY = 1
  DEADLINE = 2
  Lines <- SetOfLines
  Monitors <- SetOfMonitors
  Checks <- SetOfChecks
  Amounts = {2}
  Durations = {1, 2}
  Accounts <- CoveredAndNot
  LEAD = 1
  MAX_NOW = 1
  MAX_CUTS = 1
  Uploads <- SetOfUploads
  Verifiers <- SetOfVerifiers
  Resolvers <- SetOfResolvers
  Disputes <- SetOfDisputes
  Values = {51, 300}
  Initial = {51}
  CENT = 4
  Rates = {100, 125}
  COOLDOWN = 1
  WINDOW = 3
  CAP = 5
  MAX_DAY = 2
  MAX_ALERTS = 1
  MAX_OVERRIDES = 1
SYMMETRY Alike
INVARIANTS
  LedgerTypeOK
  EffectsExplained
  MirrorOfLedger
  EveryLineIsTold
  CoverIsInForce
  AlarmHasCause
CHECK_DEADLOCK FALSE
