SPECIFICATION FairSpec
CONSTANTS
  c1 = c1  c2 = c2  p1 = p1
  MaxId = 2
  MaxBusy = 1
  MaxTime = 1
  Method <- AllMethods
  VerificationTimeout = 1
  DisabledTimeout = 1
  Caller <- TwoCallers
  Payer <- OnePayer
INVARIANTS RecoveredWasVerified
PROPERTIES ImplementsAccountStates KeeperRemovals ExpiredCleaned
