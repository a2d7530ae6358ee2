SPECIFICATION AccountingSpec
CONSTANTS
  keeper = keeper  rake = rake  s1 = s1  s2 = s2
  Session = {s1, s2}
  Process = {keeper, rake}
  Worker = keeper
  Untimed = {s2}
  NoValue = NoValue
  LocalOffset = 0
  StaleAfter = 1
  AwareWithin = 0
  KeepFor = 1
  MaxTime = 2
INVARIANTS NeverOverstated
PROPERTIES ImplementsSessions StaleClosed
CHECK_DEADLOCK FALSE
