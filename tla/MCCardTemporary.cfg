SPECIFICATION FairSpec
CONSTANTS
  u1 = u1  r1 = r1  r2 = r2  i1 = i1
  Account <- OneAccount
  Request <- TwoRequests
  Ip <- OneIp
  MaxTx = 2
  MaxDay = 0
  DailyLimit = 3
  YearlyLimit = 3
  Invoicing = TRUE
PROPERTIES TemporaryEnds
CHECK_DEADLOCK FALSE
