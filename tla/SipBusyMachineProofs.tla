------------------------ MODULE SipBusyMachineProofs ------------------------
(***************************************************************************)
(* What holds of the SIP daemon for any number of threads, servers, callers *)
(* and retries.                                                            *)
(***************************************************************************)
EXTENDS SipBusyMachine, TLAPS

USE DEF Goto, Cleanup, Location

LEMMA CallKeyType ==
  ASSUME TypeOK, NEW t \in Thread
  PROVE  CallKey(t) \in Key
<1>1. request[t] \in [method : {"INVITE", "CANCEL", "unparsable"},
                      server : Server, from : Caller, to : Callee]
  BY DatagramAssumption DEF TypeOK
<1>2. <<request[t].server, request[t].from>> \in Server \X Caller
  BY <1>1
<1>3. QED
  BY <1>2, KeyAssumption DEF CallKey

\* Type correctness: every reachable state is well formed, lock_retry_count
\* included, whatever the traffic.
THEOREM TypeCorrect == Spec => []TypeOK
<1>1. Init => TypeOK
  BY DatagramAssumption, RetriesAssumption DEF Init, TypeOK
<1>2. TypeOK /\ [Next]_vars => TypeOK'
  <2> SUFFICES ASSUME TypeOK, [Next]_vars PROVE TypeOK'
    OBVIOUS
  <2>1. ASSUME NEW t \in Thread, NEW d \in Datagram, Receive(t, d) PROVE TypeOK'
    BY <2>1 DEF Receive, TypeOK
  <2>2. ASSUME NEW t \in Thread, ThreadStep(t) PROVE TypeOK'
    <3>1. CASE Dispatch(t)
      BY <3>1, RetriesAssumption DEF Dispatch, TypeOK
    <3>2. CASE SendCancelOk(t) \/ GiveUpBefore(t)
      BY <3>2 DEF SendCancelOk, GiveUpBefore, TypeOK
    <3>3. CASE Acquire(t) \/ Unlock(t)
      BY <3>3 DEF Acquire, Unlock, TypeOK
    <3>4. CASE Retry(t)
      BY <3>4, RetriesAssumption DEF Retry, TypeOK
    <3>5. CASE GiveUpAfter(t)
      BY <3>5, CallKeyType DEF GiveUpAfter, TypeOK
    <3>6. CASE CheckNew(t) \/ CheckSeen(t) \/ Delete(t)
      BY <3>6, CallKeyType DEF CheckNew, CheckSeen, Delete, TypeOK
    <3>7. CASE Validate(t) \/ SendTryingAndRinging(t)
      BY <3>7 DEF Validate, SendTryingAndRinging, TypeOK
    <3>8. CASE ValidateRaises(t) \/ SendBusy(t) \/ SendFails(t) \/ Join(t)
      BY <3>8, RetriesAssumption DEF ValidateRaises, SendBusy, SendFails, Join, TypeOK
    <3> QED
      BY <2>2, <3>1, <3>2, <3>3, <3>4, <3>5, <3>6, <3>7, <3>8 DEF ThreadStep
  <2>3. ASSUME NEW t \in Thread, CallbackEnds(t) PROVE TypeOK'
    BY <2>3 DEF CallbackEnds, TypeOK
  <2>4. CASE Restart
    BY <2>4, RetriesAssumption DEF Restart, TypeOK
  <2>5. CASE UNCHANGED vars
    BY <2>5 DEF vars, TypeOK
  <2> QED
    BY <2>1, <2>2, <2>3, <2>4, <2>5 DEF Next
<1> QED
  BY <1>1, <1>2, PTL DEF Spec

HoldsMutex(t) == pc[t] \in {"check", "unlockNew", "unlockSeen", "delete", "release"}

\* @serving_m is held by exactly the thread between try_lock and unlock, on
\* every path through serve_sip_request.
MutexExact == \A t \in Thread : HoldsMutex(t) <=> mutex = t

\* No path through serve_sip_request keeps the mutex or releases another
\* thread's.
THEOREM MutexHeld == Spec => []MutexExact
<1> USE DEF HoldsMutex
<1>1. Init => MutexExact
  BY NobodyAssumption DEF Init, MutexExact
<1>2. TypeOK /\ MutexExact /\ [Next]_vars => MutexExact'
  <2> SUFFICES ASSUME TypeOK, MutexExact, [Next]_vars PROVE MutexExact'
    OBVIOUS
  <2> USE NobodyAssumption DEF TypeOK, MutexExact
  <2>1. ASSUME NEW t \in Thread, NEW d \in Datagram, Receive(t, d) PROVE MutexExact'
    BY <2>1 DEF Receive
  <2>2. ASSUME NEW t \in Thread, ThreadStep(t) PROVE MutexExact'
    <3>1. CASE Dispatch(t) \/ SendCancelOk(t) \/ GiveUpBefore(t) \/ GiveUpAfter(t)
      BY <3>1 DEF Dispatch, SendCancelOk, GiveUpBefore, GiveUpAfter
    <3>2. CASE Acquire(t)
      BY <3>2 DEF Acquire
    <3>3. CASE Unlock(t)
      BY <3>3 DEF Unlock
    <3>4. CASE Retry(t)
      BY <3>4 DEF Retry
    <3>5. CASE CheckNew(t) \/ CheckSeen(t) \/ Delete(t)
      BY <3>5 DEF CheckNew, CheckSeen, Delete
    <3>6. CASE Validate(t) \/ SendTryingAndRinging(t)
      BY <3>6 DEF Validate, SendTryingAndRinging
    <3>7. CASE ValidateRaises(t) \/ SendBusy(t) \/ SendFails(t) \/ Join(t)
      BY <3>7 DEF ValidateRaises, SendBusy, SendFails, Join
    <3> QED
      BY <2>2, <3>1, <3>2, <3>3, <3>4, <3>5, <3>6, <3>7 DEF ThreadStep
  <2>3. ASSUME NEW t \in Thread, CallbackEnds(t) PROVE MutexExact'
    BY <2>3 DEF CallbackEnds
  <2>4. CASE Restart
    BY <2>4 DEF Restart
  <2>5. CASE UNCHANGED vars
    BY <2>5 DEF vars
  <2> QED
    BY <2>1, <2>2, <2>3, <2>4, <2>5 DEF Next
<1> QED
  BY <1>1, <1>2, TypeCorrect, PTL DEF Spec

-----------------------------------------------------------------------------
(* The register: @serving_h changes only in CheckNew, GiveUpAfter, Delete   *)
(* and Restart, and the first three happen one thread at a time.           *)

\* However INVITEs are retransmitted and threads scheduled, two threads never
\* serve the same call.
OneThreadPerCall ==
  \A t, u \in Thread : Registered(t) /\ Registered(u) /\ CallKey(t) = CallKey(u) => t = u

RegisterInv == TypeOK /\ OneThreadPerCall /\ RegisterExact

\* A step that leaves the register alone and keeps a thread registered or
\* unregistered, with the same call, preserves the invariants.
LEMMA RegisterUntouched ==
  ASSUME RegisterInv, TypeOK',
         serving' = serving, leaked' = leaked,
         \A t \in Thread : Registered(t)' <=> Registered(t),
         \A t \in Thread : Registered(t) => CallKey(t)' = CallKey(t)
  PROVE  RegisterInv'
<1>1. OneThreadPerCall'
  BY DEF RegisterInv, OneThreadPerCall
<1>2. {CallKey(t)' : t \in {u \in Thread : Registered(u)'}}
        = {CallKey(t) : t \in {u \in Thread : Registered(u)}}
  OBVIOUS
<1>3. RegisterExact'
  BY <1>2 DEF RegisterInv, RegisterExact
<1> QED
  BY <1>1, <1>3 DEF RegisterInv

LEMMA CheckNewRegister ==
  ASSUME RegisterInv, TypeOK', NEW t \in Thread, CheckNew(t)
  PROVE  RegisterInv'
<1> USE DEF RegisterInv, TypeOK
<1>1. /\ ~Registered(t) /\ Registered(t)'
      /\ \A u \in Thread \ {t} : Registered(u)' <=> Registered(u)
      /\ \A u \in Thread : CallKey(u)' = CallKey(u)
  BY DEF CheckNew, Registered, CallKey
<1>2. CallKey(t) \notin serving /\ serving' = serving \cup {CallKey(t)} /\ leaked' = leaked
  BY DEF CheckNew
<1>3. \A u \in Thread : Registered(u) => CallKey(u) # CallKey(t)
  BY <1>2 DEF RegisterExact
<1>4. CallKey(t) \notin leaked
  BY <1>2 DEF RegisterExact
<1>5. OneThreadPerCall'
  BY <1>1, <1>3 DEF OneThreadPerCall
<1>6. RegisterExact'
  BY <1>1, <1>2, <1>4 DEF RegisterExact
<1> QED
  BY <1>5, <1>6

LEMMA DeleteRegister ==
  ASSUME RegisterInv, TypeOK', NEW t \in Thread, Delete(t)
  PROVE  RegisterInv'
<1> USE DEF RegisterInv, TypeOK
<1>1. /\ Registered(t) /\ ~Registered(t)'
      /\ \A u \in Thread \ {t} : Registered(u)' <=> Registered(u)
      /\ \A u \in Thread : CallKey(u)' = CallKey(u)
  BY DEF Delete, Registered, CallKey
<1>2. serving' = serving \ {CallKey(t)} /\ leaked' = leaked
  BY DEF Delete
<1>3. \A u \in Thread \ {t} : Registered(u) => CallKey(u) # CallKey(t)
  BY <1>1 DEF OneThreadPerCall
<1>4. CallKey(t) \notin leaked
  BY <1>1 DEF RegisterExact
<1>5. OneThreadPerCall'
  BY <1>1 DEF OneThreadPerCall
<1>6. RegisterExact'
  BY <1>1, <1>2, <1>3, <1>4 DEF RegisterExact
<1> QED
  BY <1>5, <1>6

LEMMA GiveUpAfterRegister ==
  ASSUME RegisterInv, TypeOK', NEW t \in Thread, GiveUpAfter(t)
  PROVE  RegisterInv'
<1> USE DEF RegisterInv, TypeOK
<1>1. /\ Registered(t) /\ ~Registered(t)'
      /\ \A u \in Thread \ {t} : Registered(u)' <=> Registered(u)
      /\ \A u \in Thread : CallKey(u)' = CallKey(u)
  BY DEF GiveUpAfter, Registered, CallKey
<1>2. serving' = serving /\ leaked' = leaked \cup {CallKey(t)}
  BY DEF GiveUpAfter
<1>3. \A u \in Thread \ {t} : Registered(u) => CallKey(u) # CallKey(t)
  BY <1>1 DEF OneThreadPerCall
<1>4. OneThreadPerCall'
  BY <1>1 DEF OneThreadPerCall
<1>5. RegisterExact'
  BY <1>1, <1>2, <1>3 DEF RegisterExact
<1> QED
  BY <1>4, <1>5

LEMMA RegisterStep == RegisterInv /\ TypeOK' /\ [Next]_vars => RegisterInv'
<1> SUFFICES ASSUME RegisterInv, TypeOK', [Next]_vars PROVE RegisterInv'
  OBVIOUS
<1> USE DEF Registered, CallKey
<1>0. TypeOK
  BY DEF RegisterInv
<1>1. ASSUME NEW t \in Thread, NEW d \in Datagram, Receive(t, d) PROVE RegisterInv'
  BY <1>0, <1>1, RegisterUntouched DEF Receive, TypeOK
<1>2. ASSUME NEW t \in Thread, ThreadStep(t) PROVE RegisterInv'
  <2>1. CASE Dispatch(t) \/ SendCancelOk(t) \/ GiveUpBefore(t)
    BY <1>0, <2>1, RegisterUntouched DEF Dispatch, SendCancelOk, GiveUpBefore, TypeOK
  <2>2. CASE Acquire(t) \/ Unlock(t) \/ Retry(t) \/ CheckSeen(t)
    BY <1>0, <2>2, RegisterUntouched DEF Acquire, Unlock, Retry, CheckSeen, TypeOK
  <2>3. CASE Validate(t) \/ SendTryingAndRinging(t)
    BY <1>0, <2>3, RegisterUntouched DEF Validate, SendTryingAndRinging, TypeOK
  <2>4. CASE ValidateRaises(t) \/ SendBusy(t) \/ SendFails(t) \/ Join(t)
    BY <1>0, <2>4, RegisterUntouched DEF ValidateRaises, SendBusy, SendFails, Join, TypeOK
  <2> QED
    BY <1>2, <2>1, <2>2, <2>3, <2>4, CheckNewRegister, DeleteRegister, GiveUpAfterRegister
       DEF ThreadStep
<1>3. ASSUME NEW t \in Thread, CallbackEnds(t) PROVE RegisterInv'
  BY <1>3, RegisterUntouched DEF CallbackEnds
<1>4. CASE Restart
  BY <1>4 DEF Restart, RegisterInv, OneThreadPerCall, RegisterExact
<1>5. CASE UNCHANGED vars
  BY <1>5, RegisterUntouched DEF vars
<1> QED
  BY <1>1, <1>2, <1>3, <1>4, <1>5 DEF Next

LEMMA RegisterHolds == Spec => []RegisterInv
<1>1. Init /\ TypeOK => RegisterInv
  BY DEF Init, RegisterInv, OneThreadPerCall, RegisterExact, Registered
<1> QED
  BY <1>1, RegisterStep, TypeCorrect, PTL DEF Spec

\* Two threads never serve the same call, however INVITEs are retransmitted.
THEOREM CallsServedOnce == Spec => []OneThreadPerCall
BY RegisterHolds, PTL DEF RegisterInv

\* @serving_h is exactly the calls being served and the abandoned ones.
THEOREM RegisterIsExact == Spec => []RegisterExact
BY RegisterHolds, PTL DEF RegisterInv

-----------------------------------------------------------------------------
(* Refinement.                                                             *)

LEMMA RegisterRefinementStep ==
  ASSUME RegisterInv, TypeOK', [Next]_vars
  PROVE  [Register!Next]_Register!vars
<1> DEFINE holds == [t \in Thread |-> IF Registered(t) THEN CallKey(t) ELSE NoKey]
<1> USE DEF Registered, CallKey
<1>0. TypeOK
  BY DEF RegisterInv
<1>1. ASSUME NEW t \in Thread, NEW d \in Datagram, Receive(t, d)
      PROVE  UNCHANGED Register!vars
  BY <1>0, <1>1 DEF Receive, TypeOK, Register!vars
<1>2. ASSUME NEW t \in Thread, CheckNew(t)
      PROVE  Register!Register(t, CallKey(t))
  <2>1. holds[t] = NoKey /\ CallKey(t) \notin serving
    BY <1>2 DEF CheckNew
  <2>2. CallKey(t) \notin leaked /\ \A u \in Thread : holds[u] # CallKey(t)
    <3>1. CallKey(t) # NoKey
      BY <1>0, CallKeyType, KeyAssumption
    <3> QED
      BY <2>1, <3>1 DEF RegisterInv, RegisterExact
  <2>3. holds' = [holds EXCEPT ![t] = CallKey(t)] /\ leaked' = leaked
    BY <1>0, <1>2 DEF CheckNew, TypeOK
  <2> QED
    BY <2>1, <2>2, <2>3 DEF Register!Register, Register!Free
<1>3. ASSUME NEW t \in Thread, Delete(t)
      PROVE  Register!Release(t)
  <2>1. holds[t] # NoKey
    BY <1>0, <1>3, CallKeyType, KeyAssumption DEF Delete
  <2>2. holds' = [holds EXCEPT ![t] = NoKey] /\ leaked' = leaked
    BY <1>0, <1>3 DEF Delete, TypeOK
  <2> QED
    BY <2>1, <2>2 DEF Register!Release
<1>4. ASSUME NEW t \in Thread, GiveUpAfter(t)
      PROVE  Register!Abandon(t)
  <2>1. holds[t] # NoKey /\ holds[t] = CallKey(t)
    BY <1>0, <1>4, CallKeyType, KeyAssumption DEF GiveUpAfter
  <2>2. holds' = [holds EXCEPT ![t] = NoKey] /\ leaked' = leaked \cup {holds[t]}
    BY <1>0, <1>4, <2>1 DEF GiveUpAfter, TypeOK
  <2> QED
    BY <2>1, <2>2 DEF Register!Abandon
<1>5. ASSUME NEW t \in Thread,
             \/ Dispatch(t) \/ SendCancelOk(t) \/ Acquire(t) \/ Retry(t)
             \/ GiveUpBefore(t) \/ CheckSeen(t) \/ Unlock(t)
      PROVE  UNCHANGED Register!vars
  BY <1>0, <1>5 DEF Dispatch, SendCancelOk, Acquire, Retry, GiveUpBefore, CheckSeen, Unlock,
     TypeOK, Register!vars
<1>6. ASSUME NEW t \in Thread,
             \/ Validate(t) \/ ValidateRaises(t) \/ SendTryingAndRinging(t)
             \/ SendBusy(t) \/ SendFails(t) \/ Join(t) \/ CallbackEnds(t)
      PROVE  UNCHANGED Register!vars
  BY <1>0, <1>6 DEF Validate, ValidateRaises, SendTryingAndRinging, SendBusy, SendFails,
     Join, CallbackEnds, TypeOK, Register!vars
<1>7. CASE Restart
  BY <1>7 DEF Restart, Register!Restart, Register!Next
<1>8. CASE UNCHANGED vars
  BY <1>8 DEF vars, Register!vars
<1> HIDE DEF Registered, CallKey
<1>9. ASSUME NEW t \in Thread, ThreadStep(t)
      PROVE  [Register!Next]_Register!vars
  <2>1. CASE CheckNew(t)
    <3>1. CallKey(t) \in Key
      BY <1>0, CallKeyType
    <3> QED
      BY <1>2, <2>1, <3>1 DEF Register!Next
  <2>2. CASE Delete(t) \/ GiveUpAfter(t)
    BY <1>3, <1>4, <2>2 DEF Register!Next
  <2> QED
    BY <1>5, <1>6, <1>9, <2>1, <2>2 DEF ThreadStep
<1> QED
  BY <1>1, <1>6, <1>7, <1>8, <1>9 DEF Next

\* The daemon implements CallRegister: lock, retries, giving up, replies,
\* failing sends and callbacks show only as calls registered, released and
\* abandoned one at a time.
THEOREM DaemonImplementsRegister == Spec => ImplementsRegister
<1>1. Init => Register!Init
  BY DEF Init, Register!Init, Registered
<1>2. RegisterInv /\ TypeOK' /\ [Next]_vars => [Register!Next]_Register!vars
  BY RegisterRefinementStep
<1> QED
  BY <1>1, <1>2, RegisterHolds, TypeCorrect, PTL DEF Spec, Register!Spec, ImplementsRegister

-----------------------------------------------------------------------------
(* Callbacks.                                                              *)

\* A thread waits for the callback it started, unless a reply of its raised.
CallbackJoined ==
  \A t \in Thread :
    callback[t] = "running" => pc[t] \in {"trying", "ringing", "join"} \/ LeftBehind(t)

LEMMA CallbackStep == TypeOK /\ CallbackJoined /\ [Next]_vars => CallbackJoined'
<1> SUFFICES ASSUME TypeOK, CallbackJoined, [Next]_vars PROVE CallbackJoined'
  OBVIOUS
<1> USE DEF CallbackJoined, LeftBehind, TypeOK
<1>1. ASSUME NEW t \in Thread, NEW d \in Datagram, Receive(t, d) PROVE CallbackJoined'
  BY <1>1 DEF Receive
<1>2. ASSUME NEW t \in Thread, ThreadStep(t) PROVE CallbackJoined'
  <2>1. CASE Dispatch(t) \/ SendCancelOk(t) \/ Acquire(t) \/ Retry(t)
    BY <2>1 DEF Dispatch, SendCancelOk, Acquire, Retry
  <2>2. CASE GiveUpBefore(t) \/ GiveUpAfter(t) \/ CheckNew(t) \/ CheckSeen(t)
    BY <2>2 DEF GiveUpBefore, GiveUpAfter, CheckNew, CheckSeen
  <2>3. CASE Delete(t) \/ Unlock(t) \/ Validate(t) \/ SendTryingAndRinging(t)
    BY <2>3 DEF Delete, Unlock, Validate, SendTryingAndRinging
  <2>4. CASE ValidateRaises(t) \/ SendBusy(t) \/ SendFails(t) \/ Join(t)
    BY <2>4 DEF ValidateRaises, SendBusy, SendFails, Join
  <2> QED
    BY <1>2, <2>1, <2>2, <2>3, <2>4 DEF ThreadStep
<1>3. ASSUME NEW t \in Thread, CallbackEnds(t) PROVE CallbackJoined'
  BY <1>3 DEF CallbackEnds
<1>4. CASE Restart
  BY <1>4 DEF Restart
<1>5. CASE UNCHANGED vars
  BY <1>5 DEF vars
<1> QED
  BY <1>1, <1>2, <1>3, <1>4, <1>5 DEF Next

\* Callbacks of one call overlap only if one was left behind by a thread whose
\* reply raised.
THEOREM CallbacksDoNotOverlap == Spec => []OneCallbackPerCall
<1>1. Init => CallbackJoined
  BY DEF Init, CallbackJoined
<1>2. CallbackJoined /\ OneThreadPerCall => OneCallbackPerCall
  BY DEF CallbackJoined, OneThreadPerCall, OneCallbackPerCall, Registered
<1> QED
  BY <1>1, <1>2, CallbackStep, TypeCorrect, CallsServedOnce, PTL DEF Spec
=============================================================================
