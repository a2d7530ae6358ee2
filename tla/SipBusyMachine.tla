--------------------------- MODULE SipBusyMachine ---------------------------
(***************************************************************************)
(* The SIP daemon: lib/sip_busy_machine.rb with the checks its subclass    *)
(* lib/mobile_phone_sip_busy_machine.rb adds.  A caller proves that she    *)
(* owns a phone number by ringing a verification number; the daemon takes  *)
(* one UDP datagram per thread, answers the call "busy" after 8 seconds    *)
(* and runs a callback that verifies the caller's account.  INVITEs are    *)
(* retransmitted by the servers, so a register of the calls being served   *)
(* (@serving_h), guarded by a mutex taken with bounded retries, makes sure *)
(* that one call is served by one thread.                                  *)
(*                                                                         *)
(* The callback's effect on the account is the subject of UserLifecycle;   *)
(* here it is a thread that runs and ends.                                 *)
(***************************************************************************)
EXTENDS Naturals

CONSTANTS
  Thread,        \* slots for threads: at most this many requests at once
  Server,        \* addresses datagrams come from
  TrustedServer, \* Configuration 'sip_servers'
  Caller,        \* phone numbers calls come from
  Callee,        \* phone numbers calls are made to
  Datagram,      \* the datagrams that may arrive
  VerificationNumber, \* callees matched by Configuration 'verification_numbers'
  Key,           \* keys of @serving_h
  KeyOf,         \* KeyOf[<<s, c>>]: the concatenation of address and number
  LOCK_RETRIES,  \* failed attempts tolerated before giving up
  Unreachable,   \* servers a reply to which may raise (no route, firewall)
  Nobody,        \* the mutex is free
  NoKey          \* "no registered call", not a key

ASSUME ServerAssumption == TrustedServer \subseteq Server /\ Unreachable \subseteq Server
ASSUME CalleeAssumption == VerificationNumber \subseteq Callee
\* "unparsable": no INVITE or CANCEL, a mandatory header missing, or a From
\* or To without a phone number.  Every such datagram is dropped silently.
ASSUME DatagramAssumption ==
  /\ Datagram # {}
  /\ Datagram \subseteq [method : {"INVITE", "CANCEL", "unparsable"},
                         server : Server, from : Caller, to : Callee]
ASSUME KeyAssumption == KeyOf \in [Server \X Caller -> Key] /\ NoKey \notin Key
ASSUME RetriesAssumption == LOCK_RETRIES \in Nat
ASSUME NobodyAssumption == Nobody \notin Thread

VARIABLES
  pc,        \* pc[t]: where thread t is in serve_sip_request
  request,   \* request[t]: the datagram t serves
  retries,   \* retries[t]: lock_retry_count
  mutex,     \* @serving_m: its holder, or Nobody
  serving,   \* @serving_h: the keys mapped to true
  callback,  \* callback[t]: the thread cb_thread started by t
  leaked     \* history: keys whose thread returned without deleting them

vars == <<pc, request, retries, mutex, serving, callback, leaked>>

Location == {"idle", "received", "cancelOk", "lock", "check", "unlockNew",
             "unlockSeen", "validate", "trying", "ringing", "join",
             "relock", "delete", "release"}

CallKey(t) == KeyOf[<<request[t].server, request[t].from>>]

Init ==
  /\ pc = [t \in Thread |-> "idle"]
  /\ request = [t \in Thread |-> CHOOSE d \in Datagram : TRUE]
  /\ retries = [t \in Thread |-> 0]
  /\ mutex = Nobody
  /\ serving = {}
  /\ callback = [t \in Thread |-> "none"]
  /\ leaked = {}

Goto(t, l) == pc' = [pc EXCEPT ![t] = l]

(***************************************************************************)
(* A thread is created for every datagram.  A slot is free when its thread *)
(* and the callback thread it may have left behind have both ended.        *)
(***************************************************************************)
Receive(t, d) ==
  /\ pc[t] = "idle"
  /\ callback[t] # "running"
  /\ request' = [request EXCEPT ![t] = d]
  /\ callback' = [callback EXCEPT ![t] = "none"]
  /\ Goto(t, "received")
  /\ UNCHANGED <<retries, mutex, serving, leaked>>

\* A datagram of which the check of its sender raises ends like one that is
\* dropped, which any datagram from another server shows.
Dispatch(t) ==
  /\ pc[t] = "received"
  /\ \/ /\ request[t].server \notin TrustedServer \/ request[t].method = "unparsable"
        /\ Goto(t, "idle")
     \/ /\ request[t].server \in TrustedServer /\ request[t].method = "INVITE"
        /\ Goto(t, "lock")
     \/ /\ request[t].server \in TrustedServer /\ request[t].method = "CANCEL"
        /\ Goto(t, "cancelOk")
  /\ retries' = [retries EXCEPT ![t] = 0]
  /\ UNCHANGED <<request, mutex, serving, callback, leaked>>

\* The call that is cancelled goes on being served.
SendCancelOk(t) ==
  /\ pc[t] = "cancelOk"
  /\ Goto(t, "idle")
  /\ UNCHANGED <<request, retries, mutex, serving, callback, leaked>>

-----------------------------------------------------------------------------
(* try_lock, before and after the call is served.                          *)

Acquire(t) ==
  /\ \/ pc[t] = "lock"   /\ Goto(t, "check")
     \/ pc[t] = "relock" /\ Goto(t, "delete")
  /\ mutex = Nobody
  /\ mutex' = t
  /\ UNCHANGED <<request, retries, serving, callback, leaked>>

\* Mutant: the attempts are not counted.
RetryUncounted(t) ==
  /\ pc[t] \in {"lock", "relock"}
  /\ mutex # Nobody
  /\ UNCHANGED vars

Retry(t) ==
  /\ pc[t] \in {"lock", "relock"}
  /\ mutex # Nobody
  /\ retries[t] + 1 <= LOCK_RETRIES
  /\ retries' = [retries EXCEPT ![t] = @ + 1]
  /\ UNCHANGED <<pc, request, mutex, serving, callback, leaked>>

GiveUpBefore(t) ==
  /\ pc[t] = "lock"
  /\ mutex # Nobody
  /\ retries[t] + 1 > LOCK_RETRIES
  /\ Goto(t, "idle")
  /\ UNCHANGED <<request, retries, mutex, serving, callback, leaked>>

\* The thread returns from the ensure block without deleting its key.
GiveUpAfter(t) ==
  /\ pc[t] = "relock"
  /\ mutex # Nobody
  /\ retries[t] + 1 > LOCK_RETRIES
  /\ leaked' = leaked \cup {CallKey(t)}
  /\ Goto(t, "idle")
  /\ UNCHANGED <<request, retries, mutex, serving, callback>>

-----------------------------------------------------------------------------
(* The register.                                                           *)

\* Mutant: the call is registered without looking whether it already is.
CheckNewBlind(t) ==
  /\ pc[t] = "check"
  /\ serving' = serving \cup {CallKey(t)}
  /\ Goto(t, "unlockNew")
  /\ UNCHANGED <<request, retries, mutex, callback, leaked>>

CheckNew(t) ==
  /\ pc[t] = "check"
  /\ CallKey(t) \notin serving
  /\ serving' = serving \cup {CallKey(t)}
  /\ Goto(t, "unlockNew")
  /\ UNCHANGED <<request, retries, mutex, callback, leaked>>

\* "Ignoring call from ...: already serving!"
CheckSeen(t) ==
  /\ pc[t] = "check"
  /\ CallKey(t) \in serving
  /\ Goto(t, "unlockSeen")
  /\ UNCHANGED <<request, retries, mutex, serving, callback, leaked>>

\* Mutant: the key is left in the register.
DeleteNothing(t) ==
  /\ pc[t] = "delete"
  /\ Goto(t, "release")
  /\ UNCHANGED <<request, retries, mutex, serving, callback, leaked>>

Delete(t) ==
  /\ pc[t] = "delete"
  /\ serving' = serving \ {CallKey(t)}
  /\ Goto(t, "release")
  /\ UNCHANGED <<request, retries, mutex, callback, leaked>>

Unlock(t) ==
  /\ \/ pc[t] = "unlockNew" /\ Goto(t, "validate")
     \/ pc[t] \in {"unlockSeen", "release"} /\ Goto(t, "idle")
  /\ mutex' = Nobody
  /\ UNCHANGED <<request, retries, serving, callback, leaked>>

-----------------------------------------------------------------------------
(* Serving the call.  The ensure block resets lock_retry_count.            *)

Cleanup(t) == Goto(t, "relock") /\ retries' = [retries EXCEPT ![t] = 0]

Validate(t) ==
  /\ pc[t] = "validate"
  /\ callback' = [callback EXCEPT
                    ![t] = IF request[t].to \in VerificationNumber THEN "running" ELSE @]
  /\ Goto(t, "trying")
  /\ UNCHANGED <<request, retries, mutex, serving, leaked>>

\* The numbers cannot be read from the configuration, or valid_phone_numbers?
\* raises: the ensure block runs, no callback is started, nothing is replied.
ValidateRaises(t) ==
  /\ pc[t] = "validate"
  /\ Cleanup(t)
  /\ UNCHANGED <<request, mutex, serving, callback, leaked>>

SendTryingAndRinging(t) ==
  /\ pc[t] = "trying"
  /\ Goto(t, "ringing")
  /\ UNCHANGED <<request, retries, mutex, serving, callback, leaked>>

\* Mutant: the callback thread is never joined.
SendBusyUnjoined(t) ==
  /\ pc[t] = "ringing"
  /\ Cleanup(t)
  /\ UNCHANGED <<request, mutex, serving, callback, leaked>>

\* After SIP_RINGING_TIME.  Only a call with a callback thread joins it.
SendBusy(t) ==
  /\ pc[t] = "ringing"
  /\ \/ callback[t] # "none" /\ Goto(t, "join") /\ UNCHANGED retries
     \/ callback[t] = "none" /\ Cleanup(t)
  /\ UNCHANGED <<request, mutex, serving, callback, leaked>>

\* A reply cannot be sent: the exception runs the ensure block, and the
\* callback thread is not joined.
SendFails(t) ==
  /\ pc[t] \in {"trying", "ringing"}
  /\ request[t].server \in Unreachable
  /\ Cleanup(t)
  /\ UNCHANGED <<request, mutex, serving, callback, leaked>>

\* join raises what the callback raised: the ensure block runs either way.
Join(t) ==
  /\ pc[t] = "join"
  /\ callback[t] = "ended"
  /\ Cleanup(t)
  /\ UNCHANGED <<request, mutex, serving, callback, leaked>>

CallbackEnds(t) ==
  /\ callback[t] = "running"
  /\ callback' = [callback EXCEPT ![t] = "ended"]
  /\ UNCHANGED <<pc, request, retries, mutex, serving, leaked>>

-----------------------------------------------------------------------------
\* TERM kills the machine's thread and the process exits: every thread dies
\* and the next process starts with an empty register.
Restart ==
  /\ pc' = [t \in Thread |-> "idle"]
  /\ retries' = [t \in Thread |-> 0]
  /\ mutex' = Nobody
  /\ serving' = {}
  /\ callback' = [t \in Thread |-> "none"]
  /\ leaked' = {}
  /\ UNCHANGED request

ThreadStep(t) ==
  \/ Dispatch(t) \/ SendCancelOk(t)
  \/ Acquire(t) \/ Retry(t) \/ GiveUpBefore(t) \/ GiveUpAfter(t)
  \/ CheckNew(t) \/ CheckSeen(t) \/ Delete(t) \/ Unlock(t)
  \/ Validate(t) \/ ValidateRaises(t)
  \/ SendTryingAndRinging(t) \/ SendBusy(t) \/ SendFails(t) \/ Join(t)

Next ==
  \/ \E t \in Thread : \/ \E d \in Datagram : Receive(t, d)
                       \/ ThreadStep(t)
                       \/ CallbackEnds(t)
  \/ Restart

Spec == Init /\ [][Next]_vars

\* The scheduler runs every ready thread, and a callback's I/O times out.
FairSpec ==
  /\ Spec
  /\ \A t \in Thread : WF_vars(ThreadStep(t)) /\ WF_vars(CallbackEnds(t))

-----------------------------------------------------------------------------
(* Correctness.                                                            *)

\* Thread t has registered its call and has not deleted it yet.
Registered(t) == pc[t] \in {"unlockNew", "validate", "trying", "ringing",
                            "join", "relock", "delete"}

\* Type correctness; lock_retry_count never passes LOCK_RETRIES.
TypeOK ==
  /\ pc \in [Thread -> Location]
  /\ request \in [Thread -> Datagram]
  /\ retries \in [Thread -> 0..LOCK_RETRIES]
  /\ mutex \in Thread \cup {Nobody}
  /\ serving \in SUBSET Key
  /\ callback \in [Thread -> {"none", "running", "ended"}]
  /\ leaked \in SUBSET Key

\* @serving_h holds the calls being served and the ones whose thread gave up
\* on the lock at the end, and those two kinds do not mix: a call is never
\* dropped from the register while it is served.
RegisterExact ==
  /\ serving = {CallKey(t) : t \in {u \in Thread : Registered(u)}} \cup leaked
  /\ \A t \in Thread : Registered(t) => CallKey(t) \notin leaked

\* A reply of thread t raised, and t went on without its callback.
LeftBehind(t) ==
  /\ callback[t] = "running"
  /\ request[t].server \in Unreachable
  /\ pc[t] \notin {"trying", "ringing", "join"}

\* Of two callbacks of one call that run at once, one was left behind by a
\* thread whose reply raised; and no other thread leaves its callback behind:
\* the account of a caller is not verified by two threads that both wait.
OneCallbackPerCall ==
  /\ \A t, u \in Thread :
       callback[t] = "running" /\ callback[u] = "running" /\ CallKey(t) = CallKey(u)
         => t = u \/ LeftBehind(t) \/ LeftBehind(u)
  /\ \A t \in Thread :
       callback[t] = "running" => Registered(t) \/ LeftBehind(t)

\* Every thread ends: neither the lock nor the callback holds one for ever;
\* and a registered call is deleted again, unless its thread gives up on the
\* lock.
ThreadsEnd ==
  /\ \A t \in Thread : pc[t] # "idle" ~> pc[t] = "idle"
  /\ \A k \in Key : k \in serving ~> (k \notin serving \/ k \in leaked)

\* The daemon implements the register of calls of CallRegister.
Register == INSTANCE CallRegister WITH
  NoCall <- NoKey,
  holds  <- [t \in Thread |-> IF Registered(t) THEN CallKey(t) ELSE NoKey],
  stuck  <- leaked

\* Lock, retries, replies and callbacks together do what CallRegister says.
ImplementsRegister == Register!Spec
=============================================================================
