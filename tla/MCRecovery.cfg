SPECIFICATION FairSpec
CONSTANTS
  w1 = w1  w2 = w2  c1 = c1  c2 = c2
  Client <- TwoClients
  Caller <- TwoCallers
  MaxToken = 6
INVARIANTS TokenOnce CalledSinceAsked RecoveredWhileGood
PROPERTIES WaitingEnds
CHECK_DEADLOCK FALSE
