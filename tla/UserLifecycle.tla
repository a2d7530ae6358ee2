---------------------------- MODULE UserLifecycle ----------------------------
(***************************************************************************)
(* The users table and everything that writes the state of an account:     *)
(* sign-up, the account pages, password recovery, the operators, the       *)
(* callback of the SIP daemon, card payments and the sweeps of the house   *)
(* keeper.  They run in different processes and share nothing but the      *)
(* database.  ActiveRecord loads a copy of a row, and save writes back the *)
(* columns that were changed in that copy; no column is a version, so what *)
(* is written may rest on a copy that is out of date.  The processes that  *)
(* keep a copy across slow work (a call, a payment, a sweep) are modelled  *)
(* with the copy; a web request that reads and writes at once is one step. *)
(*                                                                         *)
(* The verified-by-visa detour of a payment and the transactions table are *)
(* not in this module.                                                     *)
(***************************************************************************)
EXTENDS Naturals

CONSTANTS
  MaxId,                 \* bound: users.id is taken from 1..MaxId, in order
  MaxBusy,               \* bound: callbacks and payments go on while there
                         \* have been MaxBusy accounts at most
  MaxTime,               \* bound: the clock stops there
  Method,                \* verification methods of the accounts
  VerificationTimeout,   \* 'mobile_phone_' and 'credit_card_registration_expire'
  DisabledTimeout,       \* 'disabled_account_expire_days', 0 for never
  Caller,                \* callbacks of the SIP daemon that run at once
  Payer                  \* payment requests that run at once

\* "other" stands for the methods without a verification procedure that
\* expires: identity_document, no_identity_verification, mac_address and
\* social_network.
ASSUME MethodAssumption == Method \subseteq {"mobile_phone", "gestpay_credit_card", "other"}
ASSUME BoundAssumption == MaxId \in Nat \ {0} /\ MaxBusy \in Nat /\ MaxTime \in Nat
ASSUME TimeoutAssumption == VerificationTimeout \in Nat /\ DisabledTimeout \in Nat
ASSUME ProcessAssumption == Caller \cap Payer = {}

VARIABLES
  now,      \* the clock
  rows,     \* rows[i]: the row of the users table with id i
  work,     \* work[p]: the callback or payment p, with its copy of a row
  keeper    \* the house keeper: its job, what is left of it, its copies

vars == <<now, rows, work, keeper>>

Id == 1..MaxId
Time == 0..MaxTime
Process == Caller \cup Payer

\* verified_at is used only for being NULL or not: "once".
Row == [state : {"unborn", "live", "gone"}, method : Method \cup {"none"},
        verified : BOOLEAN, once : BOOLEAN, active : BOOLEAN,
        recovered : {"nil", "yes", "no"}, created : Time, updated : Time]

NoRow == [state |-> "unborn", method |-> "none", verified |-> FALSE, once |-> FALSE,
          active |-> FALSE, recovered |-> "nil", created |-> 0, updated |-> 0]

GoneRow == [NoRow EXCEPT !.state = "gone"]

Idle == [at |-> "idle", id |-> 1, copy |-> NoRow]

NoJob == [job |-> "none", left |-> {}, copies |-> [i \in Id |-> NoRow]]

Init ==
  /\ now = 0
  /\ rows = [i \in Id |-> NoRow]
  /\ work = [p \in Process |-> Idle]
  /\ keeper = NoJob

Live(i) == rows[i].state = "live"

\* verified=: verified_at is set the first time and never reset.
SetVerified(row, v) == [row EXCEPT !.verified = v, !.once = @ \/ v]

\* UPDATE users SET ..., updated_at WHERE id: nothing happens to a deleted row.
Update(i, row) ==
  rows' = [rows EXCEPT ![i] = IF Live(i) THEN [row EXCEPT !.updated = now] ELSE @]

\* The bound MaxBusy.
Busy == \E p \in Process : work[p].at # "idle"

Few == \A i \in Id : i > MaxBusy => rows[i].state = "unborn"

-----------------------------------------------------------------------------
(* Web requests.                                                           *)

Insert(i, m, v, a) ==
  /\ Busy => i <= MaxBusy
  /\ ~Live(i) /\ rows[i].state = "unborn"
  /\ \A j \in Id : j < i => rows[j].state # "unborn"
  /\ rows' = [rows EXCEPT ![i] =
       SetVerified([state |-> "live", method |-> m, verified |-> FALSE, once |-> FALSE,
                    active |-> a, recovered |-> "nil", created |-> now, updated |-> now], v)]
  /\ UNCHANGED <<now, work, keeper>>

SignUp(i, m) == m \in {"mobile_phone", "gestpay_credit_card"} /\ Insert(i, m, FALSE, TRUE)

\* The account of a social network is verified at once or waits for the
\* additional fields, as 'social_login_ask_mobile_phone' says.
SocialSignUp(i, v) == Insert(i, "other", v, TRUE)

\* Operators register with the methods "other" stands for; only users_manager
\* chooses verified and active.
OperatorCreate(i, v, a) == Insert(i, "other", v, a)

Request(i) == Live(i) /\ UNCHANGED <<now, work, keeper>>

\* Authlogic records the login in the row of an active account.
Login(i) == rows[i].active /\ Request(i) /\ Update(i, rows[i])

\* Mutant: disabling resets verified_at.
DisableAndForget(i) ==
  /\ rows[i].verified
  /\ Request(i)
  /\ Update(i, [rows[i] EXCEPT !.verified = FALSE, !.once = FALSE])

DisableAccount(i) == rows[i].verified /\ Request(i) /\ Update(i, SetVerified(rows[i], FALSE))

AdditionalFields(i) == ~rows[i].verified /\ Request(i) /\ Update(i, SetVerified(rows[i], TRUE))

\* A later social login enables a disabled account that has a phone number
\* (the columns of the phone are not modelled: it may or may not have one).
SocialLogin(i) ==
  /\ rows[i].method = "other"
  /\ ~rows[i].verified
  /\ Request(i)
  /\ Update(i, SetVerified(rows[i], TRUE))

AskRecovery(i) ==
  /\ rows[i].method = "mobile_phone"
  /\ Request(i)
  /\ Update(i, [rows[i] EXCEPT !.recovered = "no"])

\* The operator's form carries verified and active, whatever they are by now.
OperatorUpdate(i, v, a) ==
  /\ Request(i)
  /\ Update(i, [SetVerified(rows[i], v) EXCEPT !.active = a])

OperatorDestroy(i) == Request(i) /\ rows' = [rows EXCEPT ![i] = GoneRow]

-----------------------------------------------------------------------------
(* The callback of the SIP daemon.                                         *)

Goto(p, at) == work' = [work EXCEPT ![p].at = at]

Finish(p) == work' = [work EXCEPT ![p] = Idle]

\* The columns of the copy that a callback or a payment looks at.
Copy(row) == [row EXCEPT !.active = FALSE, !.created = 0, !.updated = 0]

\* find_by_mobile_phone, verify_with_mobile_phone?, and the branch taken.  An
\* account already verified and recovered is left alone.
CallbackLoad(p, i) ==
  /\ Few
  /\ work[p].at = "idle"
  /\ Live(i)
  /\ rows[i].method = "mobile_phone"
  /\ \/ ~rows[i].verified
     \/ rows[i].recovered # "yes"
  /\ work' = [work EXCEPT ![p] =
       [at |-> IF rows[i].verified THEN "recover" ELSE "verify", id |-> i, copy |-> Copy(rows[i])]]
  /\ UNCHANGED <<now, rows, keeper>>

\* What save writes for verified = true, from a copy that was not verified.
SaveVerified(p) ==
  LET i == work[p].id IN
  Update(i, [rows[i] EXCEPT !.verified = TRUE, !.once = @ \/ ~work[p].copy.once])

\* Mutant: the password is recovered before the identity is verified.
CallbackRecoverFirst(p) ==
  /\ work[p].at = "verify"
  /\ Update(work[p].id, [rows[work[p].id] EXCEPT !.recovered = "yes"])
  /\ Finish(p)
  /\ UNCHANGED <<now, keeper>>

\* mobile_phone_identity_verify!, up to the notification and the login to the
\* captive portal, which may raise (CallbackDies).
CallbackVerify(p) ==
  /\ work[p].at = "verify"
  /\ SaveVerified(p)
  /\ IF work[p].copy.recovered = "yes" THEN Finish(p) ELSE Goto(p, "recover")
  /\ UNCHANGED <<now, keeper>>

CallbackRecover(p) ==
  /\ work[p].at = "recover"
  /\ Update(work[p].id, [rows[work[p].id] EXCEPT !.recovered = "yes"])
  /\ Finish(p)
  /\ UNCHANGED <<now, keeper>>

\* An exception, or the end of the daemon: what was saved remains.
CallbackDies(p) ==
  /\ work[p].at # "idle"
  /\ Finish(p)
  /\ UNCHANGED <<now, rows, keeper>>

-----------------------------------------------------------------------------
(* A card payment: the account is loaded, the bank is asked, and only then *)
(* the account is saved.                                                   *)

PaymentLoad(p, i) ==
  /\ Few
  /\ work[p].at = "idle"
  /\ Live(i)
  /\ rows[i].method = "gestpay_credit_card"
  /\ work' = [work EXCEPT ![p] = [at |-> "pay", id |-> i, copy |-> Copy(rows[i])]]
  /\ UNCHANGED <<now, rows, keeper>>

\* An account that was verified when it was loaded has nothing to be saved.
PaymentAccepted(p) ==
  /\ work[p].at = "pay"
  /\ IF work[p].copy.verified THEN UNCHANGED rows ELSE SaveVerified(p)
  /\ Finish(p)
  /\ UNCHANGED <<now, keeper>>

PaymentRefused(p) ==
  /\ work[p].at = "pay"
  /\ Finish(p)
  /\ UNCHANGED <<now, rows, keeper>>

-----------------------------------------------------------------------------
(* The house keeper: four loops, each over what one query returned.  The   *)
(* jobs of a worker run one after the other.                               *)

Gestpay(row) == row.method = "gestpay_credit_card"

\* The scopes of the User model, as the loop "l" uses them.
InScope(row, l) ==
  /\ row.state = "live"
  /\ ~row.verified
  /\ row.once <=> l \in {"disabledDestroy", "disabledDeactivate"}
  /\ IF l \in {"unverifiedDestroy", "disabledDestroy"}
     THEN ~Gestpay(row)
     ELSE Gestpay(row) /\ row.active

Second(l) == IF l = "unverifiedDestroy" THEN "unverifiedDeactivate" ELSE "disabledDeactivate"

\* The columns of the copies that the loop looks at.
Found(row) == [row EXCEPT !.active = FALSE, !.recovered = "nil"]

Load(l) ==
  LET ids == {i \in Id : InScope(rows[i], l)} IN
  keeper' = [job |-> l, left |-> ids,
             copies |-> [i \in Id |-> IF i \in ids THEN Found(rows[i]) ELSE NoRow]]

StartSweep(l) ==
  /\ keeper.job = "none"
  /\ l \in {"unverifiedDestroy", "disabledDestroy"}
  /\ Load(l)
  /\ UNCHANGED <<now, rows, work>>

\* Mutant: the job ends after its first loop.
NextLoopMissing ==
  /\ keeper.job # "none"
  /\ keeper.left = {}
  /\ keeper' = NoJob
  /\ UNCHANGED <<now, rows, work>>

\* The first loop is over: the second query, or the end.
NextLoop ==
  /\ keeper.job # "none"
  /\ keeper.left = {}
  /\ IF keeper.job \in {"unverifiedDestroy", "disabledDestroy"}
     THEN Load(Second(keeper.job))
     ELSE keeper' = NoJob
  /\ UNCHANGED <<now, rows, work>>

\* The account the loop has come to; both answers are computed on the copy.
Current(i) == i \in keeper.left /\ \A j \in keeper.left : i <= j

Unverified == keeper.job \in {"unverifiedDestroy", "unverifiedDeactivate"}

\* verification_expire_timeout raises for a method it does not know.
Raises(copy) == Unverified /\ copy.method = "other"

Expired(copy) ==
  IF Unverified
  THEN copy.created + VerificationTimeout <= now
  ELSE DisabledTimeout # 0 /\ copy.updated + DisabledTimeout <= now

Skip(i) == keeper' = [keeper EXCEPT !.left = @ \ {i}, !.copies[i] = NoRow]

KeeperKeeps(i) ==
  /\ Current(i)
  /\ ~Raises(keeper.copies[i]) /\ ~Expired(keeper.copies[i])
  /\ Skip(i)
  /\ UNCHANGED <<now, rows, work>>

\* The exception leaves both loops of the job.
KeeperRaises(i) ==
  /\ Current(i)
  /\ Raises(keeper.copies[i])
  /\ keeper' = NoJob
  /\ UNCHANGED <<now, rows, work>>

\* Mutant: every account that is found is removed, expired or not.
KeeperDestroysEarly(i) ==
  /\ Current(i)
  /\ keeper.job \in {"unverifiedDestroy", "disabledDestroy"}
  /\ rows' = [rows EXCEPT ![i] = IF Live(i) THEN GoneRow ELSE @]
  /\ Skip(i)
  /\ UNCHANGED <<now, work>>

KeeperDestroys(i) ==
  /\ Current(i)
  /\ keeper.job \in {"unverifiedDestroy", "disabledDestroy"}
  /\ ~Raises(keeper.copies[i]) /\ Expired(keeper.copies[i])
  /\ rows' = [rows EXCEPT ![i] = IF Live(i) THEN GoneRow ELSE @]
  /\ Skip(i)
  /\ UNCHANGED <<now, work>>

KeeperDeactivates(i) ==
  /\ Current(i)
  /\ keeper.job \in {"unverifiedDeactivate", "disabledDeactivate"}
  /\ ~Raises(keeper.copies[i]) /\ Expired(keeper.copies[i])
  /\ Update(i, [rows[i] EXCEPT !.active = FALSE])
  /\ Skip(i)
  /\ UNCHANGED <<now, work>>

KeeperStep ==
  \/ NextLoop
  \/ \E i \in Id : \/ KeeperKeeps(i) \/ KeeperRaises(i)
                   \/ KeeperDestroys(i) \/ KeeperDeactivates(i)

-----------------------------------------------------------------------------
Tick == now < MaxTime /\ now' = now + 1 /\ UNCHANGED <<rows, work, keeper>>

WebStep(i) ==
  \/ \E m \in Method : SignUp(i, m)
  \/ "other" \in Method /\ \E v, a \in BOOLEAN : SocialSignUp(i, v) \/ OperatorCreate(i, v, a)
  \/ Login(i) \/ DisableAccount(i) \/ AdditionalFields(i) \/ SocialLogin(i) \/ AskRecovery(i)
  \/ \E v, a \in BOOLEAN : OperatorUpdate(i, v, a)
  \/ OperatorDestroy(i)

CallbackStep(p) ==
  \/ \E i \in Id : CallbackLoad(p, i)
  \/ CallbackVerify(p) \/ CallbackRecover(p) \/ CallbackDies(p)

PaymentStep(p) ==
  \/ \E i \in Id : PaymentLoad(p, i)
  \/ PaymentAccepted(p) \/ PaymentRefused(p)

Next ==
  \/ Tick
  \/ \E i \in Id : WebStep(i)
  \/ \E p \in Caller : CallbackStep(p)
  \/ \E p \in Payer : PaymentStep(p)
  \/ \E l \in {"unverifiedDestroy", "disabledDestroy"} : StartSweep(l)
  \/ KeeperStep

Spec == Init /\ [][Next]_vars

\* Time passes; a sweep goes on; both jobs are scheduled again and again
\* (config/backgroundrb.yml), and neither waits for the other for ever.
FairSpec ==
  /\ Spec
  /\ WF_vars(Tick)
  /\ WF_vars(KeeperStep)
  /\ SF_vars(StartSweep("unverifiedDestroy"))
  /\ SF_vars(StartSweep("disabledDestroy"))

-----------------------------------------------------------------------------
(* Correctness.                                                            *)

\* Type correctness; no sweep, nothing left to be swept.
TypeOK ==
  /\ now \in Time
  /\ rows \in [Id -> Row]
  /\ work \in [Process -> [at : {"idle", "verify", "recover", "pay"}, id : Id, copy : Row]]
  /\ keeper \in [job : {"none", "unverifiedDestroy", "unverifiedDeactivate",
                        "disabledDestroy", "disabledDeactivate"},
                 left : SUBSET Id, copies : [Id -> Row]]
  /\ keeper.job = "none" => keeper.left = {}

\* verified= sets verified_at with verified, in every process and from every
\* copy: an account in use has a date since when.
StampedWhenVerified == \A i \in Id : Live(i) /\ rows[i].verified => rows[i].once

\* A call recovers the password only of an account that was verified before,
\* even when the account is disabled, removed or asked for a recovery while
\* the callback runs.
RecoveredWasVerified == \A i \in Id : Live(i) /\ rows[i].recovered = "yes" => rows[i].once

StatusOf(row) ==
  IF row.state # "live" THEN row.state
  ELSE IF row.verified THEN "enabled"
  ELSE IF row.once THEN "disabled" ELSE "pending"

\* The processes together move an account only as AccountStates allows: no
\* stale copy brings a removed account back, or makes an account that was
\* enabled once look as if it never was.
Accounts == INSTANCE AccountStates WITH
  Account <- Id,
  status  <- [i \in Id |-> StatusOf(rows[i])]

ImplementsAccountStates == Accounts!Spec

KeeperActs == keeper' # keeper

\* However old its copies are, the house keeper never removes a credit card
\* account, and an account it removes as unverified has had its time.
KeeperRemovals ==
  [][\A i \in Id :
       Live(i) /\ rows'[i].state = "gone" /\ KeeperActs
         => /\ ~Gestpay(rows[i])
            /\ keeper.job = "unverifiedDestroy" => rows[i].created + VerificationTimeout <= now]_vars

RegistrationExpired(i) ==
  /\ Live(i) /\ ~rows[i].once /\ rows[i].method # "other"
  /\ rows[i].created + VerificationTimeout <= now

DisabledExpired(i) ==
  /\ DisabledTimeout # 0
  /\ Live(i) /\ ~rows[i].verified /\ rows[i].once /\ rows[i].updated + DisabledTimeout <= now

\* An account that waits for its verification without a method that expires:
\* the sweep of unverified accounts raises on it.
Raising(i) == Live(i) /\ ~rows[i].verified /\ ~rows[i].once /\ rows[i].method = "other"

\* The sweep comes to i after an account it raises on.  Card accounts are in
\* its second loop, behind all of those of the first.
Held(i) == \E j \in Id : Raising(j) /\ (j < i \/ Gestpay(rows[i]))

\* A registration that timed out is removed, and so is a disabled account that
\* nobody touches for the whole timeout; one with a credit card is deactivated
\* instead.  README.md:49, "deleting users when the registration procedure times
\* out", knows no exception.  There is one: an unverified account stays while
\* the sweep does not come to it, because one before it raises
\* (account_common.rb:259).  Without Held this fails of two accounts.
ExpiredCleaned ==
  \A i \in Id :
    RegistrationExpired(i) \/ DisabledExpired(i) ~>
      \/ ~RegistrationExpired(i) /\ ~DisabledExpired(i)
      \/ Gestpay(rows[i]) /\ ~rows[i].active
      \/ RegistrationExpired(i) /\ Held(i)

\* The model calls them "unverified users that can be cleaned up by house
\* keeper worker" and "... that can be deactivated by house keeper worker": a
\* verified account is neither removed nor deactivated by it.
VerifiedSpared ==
  [][\A i \in Id :
       Live(i) /\ rows[i].verified /\ KeeperActs
         => rows'[i].state = "live" /\ rows'[i].active = rows[i].active]_vars
=============================================================================
