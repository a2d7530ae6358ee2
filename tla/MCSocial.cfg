SPECIFICATION Spec
CONSTANTS
  u = u  v = v  r1 = r1  r2 = r2  name = name
  Identity = {u, v}
  Request = {r1, r2}
  NameOf <- SameName
  EmailOf <- OwnEmail
  MaxAccounts = 2
  MaxCrashes = 1
INVARIANTS OwnAccount OneAccountEach
PROPERTIES RetryWorks
CHECK_DEADLOCK FALSE
