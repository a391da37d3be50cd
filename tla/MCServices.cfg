SPECIFICATION ServicesSpec
CONSTANTS
  weekly = weekly
  monthly = monthly
  s1 = s1
  e1 = e1
  w1 = w1
  w2 = w2
  o1 = o1
  o2 = o2
  p1 = p1
  p2 = p2
  j1 = j1
  j2 = j2
  k = k
  q1 = q1
  x1 = x1
  x2 = x2
  Schedules <- SetOfSchedules
  Cadences <- SetOfCadences
  PERIOD <- Periods
  Edits <- SetOfEdits
  Sweeps <- SetOfSweeps
  MAX_CLOCK = 2
  MAX_EVENTS = 2
  Events <- SetOfEvents
  Unreadable <- SetOfUnreadable
  Polls <- SetOfPolls
  PAGE = 1
  WINDOW = 1
  LOOKBACK = 1
  MAX_LEDGER = 3
  MAX_ERRORS = 1
  Puts <- SetOfPuts
  Passes <- SetOfPasses
  RECIPIENTS = 1
  MAX_DELIVERY_ATTEMPTS = 2
  LEASE = 2
  RETRY <- Delays
  MAX_SLOTS = 2
  MAX_REPORTS = 2
  MAX_MISHAPS = 1
  Jobs <- SetOfJobs
  Keys <- SetOfKeys
  KeyOf <- SameKey
  ATTEMPTS = 2
  MAX_STALLED = 0
  CONCURRENCY = 1
  VALIDITY = 2
  DEADLINE = 3
INVARIANTS
  ServicesTypeOK
  ExecutionsTellQueue
  FeedHasNoGap
  RowTellsMail
  SleptSlotsStay
PROPERTIES
  DepositsSpaced
  DueIsServed
  UpdatesArrive
  DeliveriesEnd
  EveryJobEnds
CHECK_DEADLOCK FALSE
