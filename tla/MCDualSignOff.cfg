SPECIFICATION LaterSpec
CONSTANTS
  owner = owner
  member = member
  admin = admin
  q1 = q1
  s1 = s1
  s2 = s2
  c1 = c1
  c2 = c2
  r1 = r1
  r2 = r2
  Users <- MCUsers
  Admins <- MCAdmins
  Requests <- MCRequests
  Staged <- MCStaged
  Callers <- MCCallers
  Runs <- MCRuns
  Amounts = {1, 2}
  Required = {0, 1}
  Thresholds = {2}
  COLLATERAL = 2
  MAX_TIME = 1
  MAX_DIRECT = 1
  MAX_DISTURBANCES = 0
PROPERTY DualSignOff
CHECK_DEADLOCK FALSE
