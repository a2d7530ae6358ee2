SPECIFICATION VisitorFairSpec
CONSTANTS
  MaxPosts = 2
  MaxPayments = 2
  MaxEffects = 3
  Fields = 2
  Width = 2
  Digit = {7, 8, 9}
  Settings <- MCSettings
INVARIANTS VisitorTypeOK SettledFits AcceptedIsShown DigitsKept LockWhilePaying MessageGone BankOffered
PROPERTY LeavesWhenSettled
CHECK_DEADLOCK FALSE
