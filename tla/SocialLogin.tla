----------------------------- MODULE SocialLogin -----------------------------
(***************************************************************************)
(* Signing in with a social network: SocialAuthController#create and       *)
(* Account.find_or_create_from_oauth.  The table social_auths links an     *)
(* identity (provider and uid) to an account; an identity that is not      *)
(* linked gets an account, with a user name that is free, and then a link. *)
(* Names, e-mails and links are validated by a SELECT before the INSERT;   *)
(* of them, only the user name has a unique index behind it.  Requests run *)
(* at once; a web process may die in any of them.                          *)
(*                                                                         *)
(* Left out: the account's columns, verified among them (UserLifecycle);   *)
(* names and e-mails that are refused for their form; and the accounts of  *)
(* the sign-up form, for which the account of another identity stands.     *)
(***************************************************************************)
EXTENDS Naturals

CONSTANTS
  Identity,      \* provider and uid
  Request,       \* web requests that run at once
  NameOf,        \* NameOf[u]: first and last name of identity u
  EmailOf,
  MaxAccounts,   \* bound: accounts ever made
  MaxCrashes     \* bound: processes that die

ASSUME BoundAssumption == MaxAccounts \in Nat /\ MaxCrashes \in Nat
ASSUME IdentityAssumption == Identity # {}

VARIABLES
  state,      \* state[i]: account i is "none" yet, "live" or "gone"
  by,         \* by[i]: the identity account i was made for, with its e-mail
  num,        \* num[i]: the number behind the name in its user name
  auths,      \* social_auths: pairs of an identity and an account
  next,       \* the next id
  at,         \* at[r]: where request r is
  uid,        \* uid[r]: its identity
  acct,       \* acct[r]: its account
  free,       \* free[r]: the number it puts behind the name
  crashes,    \* processes that died
  overlapped, \* two requests have run at once
  disturbed   \* identities that had two requests at once, a request that died
              \* or an account removed before it was linked

vars == <<state, by, num, auths, next, at, uid, acct, free, crashes, overlapped, disturbed>>
table == <<state, by, num, auths, next>>
history == <<crashes, overlapped, disturbed>>

Id == 1..MaxAccounts
Somebody == CHOOSE u \in Identity : TRUE

Init ==
  /\ state = [i \in Id |-> "none"]
  /\ by = [i \in Id |-> Somebody]
  /\ num = [i \in Id |-> 1]
  /\ auths = {}
  /\ next = 1
  /\ at = [r \in Request |-> "idle"]
  /\ uid = [r \in Request |-> Somebody]
  /\ acct = [r \in Request |-> 1]
  /\ free = [r \in Request |-> 1]
  /\ crashes = 0
  /\ overlapped = FALSE
  /\ disturbed = {}

Active(r) == at[r] \notin {"idle", "signed"}

Move(r, a, u, i, n) ==
  /\ at' = [at EXCEPT ![r] = a]
  /\ uid' = [uid EXCEPT ![r] = u]
  /\ acct' = [acct EXCEPT ![r] = i]
  /\ free' = [free EXCEPT ![r] = n]

Goto(r, a) == Move(r, a, uid[r], acct[r], free[r])
End(r) == Move(r, "idle", Somebody, 1, 1)

UserTaken(u, n) == \E i \in Id : state[i] = "live" /\ NameOf[by[i]] = NameOf[u] /\ num[i] = n
EmailTaken(u) == \E i \in Id : state[i] = "live" /\ EmailOf[by[i]] = EmailOf[u]
Linked(u) == {i \in Id : <<u, i>> \in auths}

-----------------------------------------------------------------------------
(* A request.                                                              *)

\* The network sends the browser back.
Callback(r, u) ==
  /\ at[r] = "idle"
  /\ Move(r, "find", u, 1, 1)
  /\ overlapped' = (overlapped \/ \E s \in Request : Active(s))
  /\ disturbed' = IF \E s \in Request : Active(s) /\ uid[s] = u
                  THEN disturbed \cup {u} ELSE disturbed
  /\ UNCHANGED <<table, crashes>>

\* The first link of the identity, in whatever order the table has them.
Find(r) ==
  /\ at[r] = "find"
  /\ \/ Linked(uid[r]) = {} /\ Goto(r, "name")
     \/ \E i \in Linked(uid[r]) : Move(r, "load", uid[r], i, 1)
  /\ UNCHANGED <<table, history>>

\* Account.find raises if the account is not there; if it is, the session is
\* created and the browser signed in.
Load(r) ==
  /\ at[r] = "load"
  /\ IF state[acct[r]] = "live" THEN Goto(r, "signed") ELSE End(r)
  /\ UNCHANGED <<table, history>>

\* The first number with which the name is free.
Name(r) ==
  /\ at[r] = "name"
  /\ \E n \in 1..(MaxAccounts + 1) :
       /\ ~UserTaken(uid[r], n)
       /\ \A k \in 1..(n - 1) : UserTaken(uid[r], k)
       /\ Move(r, "validate", uid[r], 1, n)
  /\ UNCHANGED <<table, history>>

\* Refused, the browser goes back to the start page with the errors.
Validate(r) ==
  /\ at[r] = "validate"
  /\ IF UserTaken(uid[r], free[r]) \/ EmailTaken(uid[r])
     THEN End(r)
     ELSE Goto(r, "insert")
  /\ UNCHANGED <<table, history>>

\* Mutant: the index is not unique.
InsertUnindexed(r) ==
  /\ at[r] = "insert" /\ next <= MaxAccounts
  /\ state' = [state EXCEPT ![next] = "live"]
  /\ by' = [by EXCEPT ![next] = uid[r]]
  /\ num' = [num EXCEPT ![next] = free[r]]
  /\ next' = next + 1
  /\ Move(r, "linkValidate", uid[r], next, 1)
  /\ UNCHANGED <<auths, history>>

Insert(r) ==
  /\ at[r] = "insert" /\ next <= MaxAccounts
  /\ ~UserTaken(uid[r], free[r])
  /\ state' = [state EXCEPT ![next] = "live"]
  /\ by' = [by EXCEPT ![next] = uid[r]]
  /\ num' = [num EXCEPT ![next] = free[r]]
  /\ next' = next + 1
  /\ Move(r, "linkValidate", uid[r], next, 1)
  /\ UNCHANGED <<auths, history>>

\* The unique index on users.username refuses the row: the request raises.
InsertRefused(r) ==
  /\ at[r] = "insert"
  /\ UserTaken(uid[r], free[r])
  /\ End(r)
  /\ UNCHANGED <<table, history>>

\* save! raises if the identity is linked; the account stays.
LinkValidate(r) ==
  /\ at[r] = "linkValidate"
  /\ IF Linked(uid[r]) # {}
     THEN End(r)
     ELSE Goto(r, "link")
  /\ UNCHANGED <<table, history>>

\* Mutant: the account is looked up again by the name without its number.
LinkByName(r) ==
  /\ at[r] = "link"
  /\ \E i \in Id :
       /\ state[i] # "none" /\ NameOf[by[i]] = NameOf[uid[r]] /\ num[i] = 1
       /\ auths' = auths \cup {<<uid[r], i>>}
  /\ Goto(r, "notify")
  /\ UNCHANGED <<state, by, num, next, history>>

Link(r) ==
  /\ at[r] = "link"
  /\ auths' = auths \cup {<<uid[r], acct[r]>>}
  /\ Goto(r, "notify")
  /\ UNCHANGED <<state, by, num, next, history>>

\* The mail is sent and the browser signed in, or the mail raises.
Notify(r) ==
  /\ at[r] = "notify"
  /\ \/ Goto(r, "signed")
     \/ End(r)
  /\ UNCHANGED <<table, history>>

Leave(r) ==
  /\ at[r] = "signed"
  /\ End(r)
  /\ UNCHANGED <<table, history>>

Crash(r) ==
  /\ Active(r) /\ crashes < MaxCrashes
  /\ End(r)
  /\ crashes' = crashes + 1
  /\ disturbed' = disturbed \cup {uid[r]}
  /\ UNCHANGED <<table, overlapped>>

Linking(i) == {r \in Request : at[r] \in {"linkValidate", "link"} /\ acct[r] = i}

\* Mutant: delete instead of destroy, which leaves the links.
DestroyRowOnly(i) ==
  /\ state[i] = "live"
  /\ state' = [state EXCEPT ![i] = "gone"]
  /\ disturbed' = disturbed \cup {uid[r] : r \in Linking(i)}
  /\ UNCHANGED <<auths, by, num, next, at, uid, acct, free, crashes, overlapped>>

\* The operator or the house keeper removes an account, its links first.
Destroy(i) ==
  /\ state[i] = "live"
  /\ state' = [state EXCEPT ![i] = "gone"]
  /\ auths' = {a \in auths : a[2] # i}
  /\ disturbed' = disturbed \cup {uid[r] : r \in Linking(i)}
  /\ UNCHANGED <<by, num, next, at, uid, acct, free, crashes, overlapped>>

Proceed(r) ==
  \/ Find(r) \/ Load(r) \/ Name(r) \/ Validate(r) \/ Insert(r)
  \/ InsertRefused(r) \/ LinkValidate(r) \/ Link(r) \/ Notify(r) \/ Leave(r)

Next ==
  \/ \E r \in Request : Proceed(r) \/ Crash(r) \/ \E u \in Identity : Callback(r, u)
  \/ \E i \in Id : Destroy(i)

\* Requests are served to their end, and everybody comes again.
Fairness ==
  /\ \A r \in Request : WF_vars(Proceed(r))
  /\ \A u \in Identity : SF_vars(\E r \in Request : Callback(r, u))

Spec == Init /\ [][Next]_vars /\ Fairness

-----------------------------------------------------------------------------
(* Correctness.                                                            *)

\* Type correctness; ids below next are those of accounts, and a link is to
\* an account that was made for its identity.
TypeOK ==
  /\ state \in [Id -> {"none", "live", "gone"}]
  /\ by \in [Id -> Identity]
  /\ num \in [Id -> 1..(MaxAccounts + 1)]
  /\ auths \subseteq Identity \X Id
  /\ next \in 1..(MaxAccounts + 1)
  /\ at \in [Request -> {"idle", "find", "load", "name", "validate", "insert", "linkValidate",
                         "link", "notify", "signed"}]
  /\ uid \in [Request -> Identity]
  /\ acct \in [Request -> Nat]
  /\ free \in [Request -> 1..(MaxAccounts + 1)]
  /\ crashes \in 0..MaxCrashes
  /\ overlapped \in BOOLEAN /\ disturbed \subseteq Identity
  /\ \A i \in Id : state[i] = "none" <=> i >= next
  /\ \A a \in auths : state[a[2]] # "none" /\ by[a[2]] = a[1]

\* A request is signed in to an account that is linked to its identity,
\* unless the account is removed: also if it made the account itself while
\* another request did the same.
OwnAccount ==
  \A r \in Request :
    at[r] \in {"notify", "signed"} =>
      /\ acct[r] \in Id
      /\ state[acct[r]] = "gone" \/ <<uid[r], acct[r]>> \in auths

\* As long as requests come one after the other, whatever of them dies, no
\* two accounts have an e-mail in common and no identity has two links, though
\* no index says so.
UniqueAlone ==
  ~overlapped =>
    /\ \A i, j \in Id :
         i # j /\ state[i] = "live" /\ state[j] = "live" => EmailOf[by[i]] # EmailOf[by[j]]
    /\ \A a, b \in auths : a[1] = b[1] => a = b

\* As long as no account is removed, an identity has one account, however many
\* of its requests run at once: they choose the same user name, and the unique
\* index on it stops all but one.
OneAccountEach ==
  (\A i \in Id : state[i] # "gone") =>
    \A i, j \in Id : state[i] = "live" /\ state[j] = "live" /\ by[i] = by[j] => i = j

EmailElsewhere(u) ==
  \E i \in Id : state[i] = "live" /\ by[i] # u /\ EmailOf[by[i]] = EmailOf[u]

\* An account is to be made beyond the bound.
AtBound == next > MaxAccounts /\ \E r \in Request : at[r] = "insert"

\* Who comes again and again is signed in, even if each mail raises and the
\* account is removed, unless the identity was disturbed or its e-mail is that
\* of the account of somebody else.
RetryWorks ==
  \A u \in Identity :
    u \notin disturbed ~>
      \/ \E r \in Request : at[r] = "signed" /\ uid[r] = u
      \/ u \in disturbed \/ EmailElsewhere(u) \/ AtBound
=============================================================================
