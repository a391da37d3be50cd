SPECIFICATION OfficeSpec
CONSTANTS
  alice = alice
  bob = bob
  d1 = d1
  d2 = d2
  i1 = i1
  i2 = i2
  k1 = k1
  k2 = k2
  n1 = n1
  n2 = n2
  m1 = m1
  c1 = c1
  c2 = c2
  carol = carol
  p1 = p1
  p2 = p2
  w1 = w1
  w2 = w2
  f1 = f1
  l1 = l1
  l2 = l2
  z1 = z1
  z2 = z2
  u1 = u1
  h1 = h1
  h2 = h2
  g1 = g1
  g2 = g2
  t1 = t1
  t2 = t2
  a1 = a1
  a2 = a2
  Officers <- People
  Desks <- SetOfDesks
  Documents <- SetOfDocuments
  Reviews <- SetOfReviews
  MAX_STEPS = 2
  MAX_BREAKS = 1
  Envelopes <- SetOfEnvelopes
  Senders <- SetOfSenders
  Calls <- SetOfCalls
  MAX_UNTRUE = 1
  Proposers <- MorePeople
  Rotations <- SetOfRotations
  Windows <- SetOfWindows
  THRESHOLD = 2
  Flags <- SetOfFlags
  Rules <- SetOfRules
  Staff <- People
  Thresholds = {1, 2}
  FirstRules <- TwoRules
  Checkers <- SetOfCheckers
  CRITICAL = 4
  MAX_AGE = 2
  MAX_ACTS = 1
  Subs <- SetOfSubs
  Hooks <- SetOfHooks
  SubOf <- OneSubscription
  BACKOFFS = 5
  MAX_MISHAPS = 1
  Readers <- SetOfReaders
  TxJobs <- SetOfTxJobs
  Methods = {"deposit", "auto_top_up"}
  Invalidating = {"deposit"}
  AtRoute = {"deposit"}
  TTL = 2
  MAX_READS = 2
  MAX_OUTAGES = 1
  STEPS = 2
  Delays = {0, 1}
  Walkers <- SetOfWalkers
  MAX_HOURS = 1
  MAX_EDITS = 1
  MAX_SLIPS = 1
INVARIANTS
  OfficeTypeOK
  ReviewTellsDecisions
  KycTellsDocuments
  BondTellsReports
  ApprovalsKept
  HistoryOfEscalations
  LogIsTrue
  OneLatePost
  FreshAfterJob
  DripTellsRows
SYMMETRY Alike
CHECK_DEADLOCK FALSE
