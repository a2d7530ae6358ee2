SPECIFICATION FairSpec
CONSTANTS
  t1 = t1  t2 = t2
  sip = sip  far = far  other = other
  alice = alice  bob = bob
  verify = verify  wrong = wrong
  Nobody = Nobody
  NoKey = NoKey
  Thread <- MCThread
  Server <- MCServer
  TrustedServer <- MCTrusted
  Unreachable <- MCUnreachable
  Caller <- MCCaller
  Callee <- MCCallee
  VerificationNumber <- MCVerification
  Datagram <- MCDatagram
  Key <- MCKey
  KeyOf <- MCKeyOf
  LOCK_RETRIES = 1
INVARIANTS RegisterExact OneCallbackPerCall
PROPERTIES ImplementsRegister ThreadsEnd
