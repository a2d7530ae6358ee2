SPECIFICATION Spec
CONSTANTS
  c1 = c1  c2 = c2  p1 = p1
  MaxId = 1
  MaxBusy = 1
  MaxTime = 1
  Method <- Mobile
  VerificationTimeout = 1
  DisabledTimeout = 1
  Caller <- OneCaller
  Payer <- None
PROPERTY VerifiedSpared
