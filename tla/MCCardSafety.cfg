SPECIFICATION FairSpec
CONSTANTS
  u1 = u1  r1 = r1  r2 = r2  i1 = i1
  Account <- OneAccount
  Request <- TwoRequests
  Ip <- OneIp
  MaxTx = 3
  MaxDay = 1
  DailyLimit = 1
  YearlyLimit = 1
  Invoicing = TRUE
INVARIANTS VerifiedHavePaid InvoicesArePaid LimitOverrun
CHECK_DEADLOCK FALSE
