-------------------------- MODULE SocialLoginProofs --------------------------
(***************************************************************************)
(* Theorems about SocialLogin, for any identities, names and e-mails and   *)
(* any number of requests, accounts and crashes.                           *)
(***************************************************************************)
EXTENDS SocialLogin, TLAPS

\* The account a request is at work on: made for its identity, or linked to
\* it unless it has been removed.
Making ==
  \A r \in Request :
    /\ at[r] \in {"linkValidate", "link"} =>
         acct[r] \in Id /\ by[acct[r]] = uid[r] /\ state[acct[r]] # "none"
    /\ at[r] \in {"load", "notify", "signed"} =>
         /\ acct[r] \in Id
         /\ state[acct[r]] = "gone" \/ <<uid[r], acct[r]>> \in auths

IInv == TypeOK /\ Making

\* What a request has read is still so when it writes, if it is the only one.
Alone ==
  ~overlapped =>
    /\ \A r, s \in Request : Active(r) /\ Active(s) => r = s
    /\ \A r \in Request : at[r] = "insert" => ~EmailTaken(uid[r])
    /\ \A r \in Request : at[r] = "link" => Linked(uid[r]) = {}

LEMMA NextCases ==
  ASSUME Next
  PROVE  \/ \E r \in Request, u \in Identity : Callback(r, u)
         \/ \E r \in Request : Find(r) \/ Load(r) \/ Name(r) \/ Validate(r) \/ Insert(r)
         \/ \E r \in Request : InsertRefused(r) \/ LinkValidate(r) \/ Link(r) \/ Notify(r) \/ Leave(r) \/ Crash(r)
         \/ \E i \in Id : Destroy(i)
  BY DEF Next, Proceed

-----------------------------------------------------------------------------
(* Types and links.                                                        *)

LEMMA InitIInv == ASSUME Init PROVE IInv
<1>1. Somebody \in Identity
  BY IdentityAssumption DEF Somebody
<1>2. MaxAccounts \in Nat /\ 0 \in 0..MaxCrashes /\ 1 \in 1..(MaxAccounts + 1)
  BY BoundAssumption
<1>3. \A i \in Id : i \in Nat /\ i >= 1
  BY <1>2 DEF Id
<1>4. TypeOK
  <2>1. /\ state \in [Id -> {"none", "live", "gone"}] /\ by \in [Id -> Identity]
        /\ num \in [Id -> 1..(MaxAccounts + 1)]
        /\ \A i \in Id : state[i] = "none" <=> i >= next
    BY <1>1, <1>2, <1>3 DEF Init
  <2>2. /\ at \in [Request -> {"idle", "find", "load", "name", "validate", "insert",
                               "linkValidate", "link", "notify", "signed"}]
        /\ uid \in [Request -> Identity] /\ acct \in [Request -> Nat]
        /\ free \in [Request -> 1..(MaxAccounts + 1)]
    BY <1>1, <1>2 DEF Init
  <2>3. auths = {} /\ next \in 1..(MaxAccounts + 1) /\ crashes \in 0..MaxCrashes
        /\ overlapped \in BOOLEAN /\ disturbed \subseteq Identity
    BY <1>2 DEF Init
  <2> QED
    BY <2>1, <2>2, <2>3 DEF TypeOK
<1>5. Making
  BY DEF Init, Making
<1> QED
  BY <1>4, <1>5 DEF IInv

\* A request that moves on keeps the types, if what it moves to is typed.
LEMMA MoveTypes ==
  ASSUME TypeOK, NEW r \in Request, NEW u \in Identity, NEW i \in Nat,
         NEW n \in 1..(MaxAccounts + 1),
         NEW a \in {"idle", "find", "load", "name", "validate", "insert", "linkValidate",
                    "link", "notify", "signed"},
         Move(r, a, u, i, n)
  PROVE  /\ at' \in [Request -> {"idle", "find", "load", "name", "validate", "insert",
                                 "linkValidate", "link", "notify", "signed"}]
         /\ uid' \in [Request -> Identity]
         /\ acct' \in [Request -> Nat]
         /\ free' \in [Request -> 1..(MaxAccounts + 1)]
         /\ at'[r] = a /\ uid'[r] = u /\ acct'[r] = i /\ free'[r] = n
         /\ \A s \in Request \ {r} :
              at'[s] = at[s] /\ uid'[s] = uid[s] /\ acct'[s] = acct[s] /\ free'[s] = free[s]
<1>1. /\ at \in [Request -> {"idle", "find", "load", "name", "validate", "insert",
                             "linkValidate", "link", "notify", "signed"}]
      /\ uid \in [Request -> Identity] /\ acct \in [Request -> Nat]
      /\ free \in [Request -> 1..(MaxAccounts + 1)]
  BY DEF TypeOK
<1>2. /\ at' = [at EXCEPT ![r] = a] /\ uid' = [uid EXCEPT ![r] = u]
      /\ acct' = [acct EXCEPT ![r] = i] /\ free' = [free EXCEPT ![r] = n]
  BY DEF Move
<1> QED
  BY <1>1, <1>2

\* Ending is a move to the start, where every request has the same values.
LEMMA EndMoves ==
  ASSUME NEW r \in Request, End(r)
  PROVE  Somebody \in Identity /\ 1 \in 1..(MaxAccounts + 1) /\ Move(r, "idle", Somebody, 1, 1)
  BY IdentityAssumption, BoundAssumption DEF End, Somebody

\* A request that moves without a change of the tables keeps IInv, if its own
\* account is right.
LEMMA QuietMove ==
  ASSUME IInv, NEW r \in Request, NEW u \in Identity, NEW i \in Nat,
         NEW n \in 1..(MaxAccounts + 1),
         NEW a \in {"idle", "find", "load", "name", "validate", "insert", "linkValidate",
                    "link", "notify", "signed"},
         Move(r, a, u, i, n), UNCHANGED table,
         crashes' \in 0..MaxCrashes, overlapped' \in BOOLEAN, disturbed' \subseteq Identity,
         a \in {"linkValidate", "link"} => i \in Id /\ by[i] = u /\ state[i] # "none",
         a \in {"load", "notify", "signed"} =>
           i \in Id /\ (state[i] = "gone" \/ <<u, i>> \in auths)
  PROVE  IInv'
<1>0. TypeOK /\ Making /\ Id' = Id
  BY DEF IInv, Id
<1>1. /\ at' \in [Request -> {"idle", "find", "load", "name", "validate", "insert",
                              "linkValidate", "link", "notify", "signed"}]
      /\ uid' \in [Request -> Identity] /\ acct' \in [Request -> Nat]
      /\ free' \in [Request -> 1..(MaxAccounts + 1)]
      /\ at'[r] = a /\ uid'[r] = u /\ acct'[r] = i
      /\ \A s \in Request \ {r} : at'[s] = at[s] /\ uid'[s] = uid[s] /\ acct'[s] = acct[s]
  BY <1>0, MoveTypes
<1>2. state' = state /\ by' = by /\ num' = num /\ auths' = auths /\ next' = next
  BY DEF table
<1>3. TypeOK'
  BY <1>0, <1>1, <1>2 DEF TypeOK
<1>4. Making'
  BY <1>0, <1>1, <1>2 DEF Making
<1> QED
  BY <1>3, <1>4 DEF IInv

LEMMA QuietEnd ==
  ASSUME IInv, NEW r \in Request, End(r), UNCHANGED table,
         crashes' \in 0..MaxCrashes, overlapped' \in BOOLEAN, disturbed' \subseteq Identity
  PROVE  IInv'
  BY EndMoves, QuietMove

LEMMA IInvInductive == ASSUME IInv, [Next]_vars PROVE IInv'
<1>0. MaxAccounts \in Nat /\ MaxCrashes \in Nat
  BY BoundAssumption
<1>1. /\ crashes \in 0..MaxCrashes /\ overlapped \in BOOLEAN /\ disturbed \subseteq Identity
      /\ \A r \in Request : uid[r] \in Identity /\ acct[r] \in Nat
                            /\ free[r] \in 1..(MaxAccounts + 1)
      /\ 1 \in 1..(MaxAccounts + 1) /\ \A i \in Id : i \in Nat
  BY <1>0 DEF IInv, TypeOK, Id
<1>2. ASSUME NEW r \in Request, NEW u \in Identity, Callback(r, u) PROVE IInv'
  <2>1. overlapped' \in BOOLEAN /\ disturbed' \subseteq Identity /\ UNCHANGED <<table, crashes>>
    BY <1>1, <1>2 DEF Callback
  <2>2. Move(r, "find", u, 1, 1)
    BY <1>2 DEF Callback
  <2> QED
    BY <1>1, <2>1, <2>2, QuietMove
<1>3. ASSUME NEW r \in Request, Find(r) PROVE IInv'
  <2>1. CASE Linked(uid[r]) = {} /\ Goto(r, "name")
    BY <1>1, <1>3, <2>1, QuietMove DEF Find, Goto, history
  <2>2. ASSUME NEW i \in Linked(uid[r]), Move(r, "load", uid[r], i, 1) PROVE IInv'
    BY <1>1, <1>3, <2>2, QuietMove DEF Find, Linked, history
  <2> QED
    BY <1>3, <2>1, <2>2 DEF Find
<1>4. ASSUME NEW r \in Request, Load(r) PROVE IInv'
  <2>1. acct[r] \in Id /\ (state[acct[r]] = "gone" \/ <<uid[r], acct[r]>> \in auths)
    BY <1>4 DEF Load, IInv, Making
  <2>2. CASE Goto(r, "signed")
    BY <1>1, <1>4, <2>1, <2>2, QuietMove DEF Load, Goto, history
  <2>3. CASE End(r)
    BY <1>1, <1>4, <2>3, QuietEnd DEF Load, history
  <2> QED
    BY <1>4, <2>2, <2>3 DEF Load
<1>5. ASSUME NEW r \in Request, Name(r) PROVE IInv'
  BY <1>1, <1>5, QuietMove DEF Name, history
<1>6. ASSUME NEW r \in Request, Validate(r) PROVE IInv'
  <2>1. CASE Goto(r, "insert")
    BY <1>1, <1>6, <2>1, QuietMove DEF Validate, Goto, history
  <2>2. CASE End(r)
    BY <1>1, <1>6, <2>2, QuietEnd DEF Validate, history
  <2> QED
    BY <1>6, <2>1, <2>2 DEF Validate
<1>7. ASSUME NEW r \in Request, Insert(r) PROVE IInv'
  <2>1. next \in Id /\ state[next] = "none" /\ next \in Nat
    BY <1>0, <1>7 DEF Insert, IInv, TypeOK, Id
  <2>2. Move(r, "linkValidate", uid[r], next, 1)
    BY <1>7 DEF Insert
  <2>3. TypeOK /\ Making /\ UNCHANGED <<auths, crashes, overlapped, disturbed>>
    BY <1>7 DEF Insert, history, IInv
  <2>4. /\ at' \in [Request -> {"idle", "find", "load", "name", "validate", "insert",
                                "linkValidate", "link", "notify", "signed"}]
        /\ uid' \in [Request -> Identity] /\ acct' \in [Request -> Nat]
        /\ free' \in [Request -> 1..(MaxAccounts + 1)]
        /\ at'[r] = "linkValidate" /\ uid'[r] = uid[r] /\ acct'[r] = next
        /\ \A s \in Request \ {r} : at'[s] = at[s] /\ uid'[s] = uid[s] /\ acct'[s] = acct[s]
    BY <1>1, <2>3, <2>1, <2>2, MoveTypes
  <2>5. /\ state' = [state EXCEPT ![next] = "live"] /\ by' = [by EXCEPT ![next] = uid[r]]
        /\ num' = [num EXCEPT ![next] = free[r]] /\ next' = next + 1
    BY <1>7 DEF Insert
  <2>6. /\ state' \in [Id -> {"none", "live", "gone"}] /\ by' \in [Id -> Identity]
        /\ num' \in [Id -> 1..(MaxAccounts + 1)]
        /\ next' \in 1..(MaxAccounts + 1) /\ Id' = Id
        /\ state'[next] = "live" /\ by'[next] = uid[r]
        /\ \A i \in Id \ {next} : state'[i] = state[i] /\ by'[i] = by[i]
    BY <1>0, <1>1, <2>1, <2>3, <2>5 DEF TypeOK, Id
  <2>7. \A i \in Id : state'[i] = "none" <=> i >= next'
    BY <1>1, <2>1, <2>3, <2>5, <2>6 DEF TypeOK
  <2>8. \A x \in auths : x[2] \in Id \ {next} /\ state[x[2]] # "none" /\ by[x[2]] = x[1]
    BY <2>1, <2>3 DEF TypeOK
  <2>9. TypeOK'
    BY <2>3, <2>4, <2>6, <2>7, <2>8 DEF TypeOK
  <2>10. Making'
    BY <2>1, <2>3, <2>4, <2>6 DEF Making
  <2> QED
    BY <2>9, <2>10 DEF IInv
<1>8. ASSUME NEW r \in Request, LinkValidate(r) PROVE IInv'
  <2>1. acct[r] \in Id /\ by[acct[r]] = uid[r] /\ state[acct[r]] # "none"
    BY <1>8 DEF LinkValidate, IInv, Making
  <2>2. CASE Goto(r, "link")
    BY <1>1, <1>8, <2>1, <2>2, QuietMove DEF LinkValidate, Goto, history
  <2>3. CASE End(r)
    BY <1>1, <1>8, <2>3, QuietEnd DEF LinkValidate, history
  <2> QED
    BY <1>8, <2>2, <2>3 DEF LinkValidate
<1>9. ASSUME NEW r \in Request, Link(r) PROVE IInv'
  <2>1. acct[r] \in Id /\ by[acct[r]] = uid[r] /\ state[acct[r]] # "none"
    BY <1>9 DEF Link, IInv, Making
  <2>2. Move(r, "notify", uid[r], acct[r], free[r])
    BY <1>9 DEF Link, Goto
  <2>3. TypeOK'
    BY <1>1, <1>9, <2>1, <2>2, MoveTypes DEF Link, IInv, TypeOK, Id, history
  <2>4. Making /\ TypeOK /\ UNCHANGED <<state, by>> /\ Id' = Id
        /\ auths' = auths \cup {<<uid[r], acct[r]>>}
    BY <1>9 DEF Link, IInv, Id
  <2>5. /\ at'[r] = "notify" /\ uid'[r] = uid[r] /\ acct'[r] = acct[r]
        /\ \A s \in Request \ {r} : at'[s] = at[s] /\ uid'[s] = uid[s] /\ acct'[s] = acct[s]
    BY <1>1, <2>2, <2>4, MoveTypes
  <2>6. Making'
    BY <2>1, <2>4, <2>5 DEF Making
  <2> QED
    BY <2>3, <2>6 DEF IInv
<1>10. ASSUME NEW r \in Request, Notify(r) PROVE IInv'
  <2>1. acct[r] \in Id /\ (state[acct[r]] = "gone" \/ <<uid[r], acct[r]>> \in auths)
    BY <1>10 DEF Notify, IInv, Making
  <2>2. CASE Goto(r, "signed")
    BY <1>1, <1>10, <2>1, <2>2, QuietMove DEF Notify, Goto, history
  <2>3. CASE End(r)
    BY <1>1, <1>10, <2>3, QuietEnd DEF Notify, history
  <2> QED
    BY <1>10, <2>2, <2>3 DEF Notify
<1>11. ASSUME NEW r \in Request, Leave(r) \/ InsertRefused(r) PROVE IInv'
  BY <1>1, <1>11, QuietEnd DEF Leave, InsertRefused, history
<1>12. ASSUME NEW r \in Request, Crash(r) PROVE IInv'
  <2>1. crashes' \in 0..MaxCrashes /\ disturbed' \subseteq Identity /\ overlapped' \in BOOLEAN
    BY <1>0, <1>1, <1>12 DEF Crash
  <2> QED
    BY <1>12, <2>1, QuietEnd DEF Crash
<1>13. ASSUME NEW i \in Id, Destroy(i) PROVE IInv'
  <2>1. disturbed' \subseteq Identity
    BY <1>1, <1>13 DEF Destroy, Linking
  <2>2. TypeOK'
    BY <1>13, <2>1 DEF Destroy, IInv, TypeOK, Id
  <2>3. Making'
    BY <1>13 DEF Destroy, IInv, TypeOK, Making, Id
  <2> QED
    BY <2>2, <2>3 DEF IInv
<1>14. CASE UNCHANGED vars
  <2>1. TypeOK'
    BY <1>14 DEF vars, IInv, TypeOK, Id
  <2>2. Making'
    BY <1>14 DEF vars, IInv, Making, Id
  <2> QED
    BY <2>1, <2>2 DEF IInv
<1> QED
  BY <1>2, <1>3, <1>4, <1>5, <1>6, <1>7, <1>8, <1>9, <1>10, <1>11, <1>12, <1>13, <1>14, NextCases

LEMMA IInvAlways == Spec => []IInv
<1>1. Init => IInv
  BY InitIInv
<1>2. IInv /\ [Next]_vars => IInv'
  BY IInvInductive
<1> QED
  BY <1>1, <1>2, PTL DEF Spec

\* Requests and tables are typed, and every link is to an account that was
\* made for its identity, in whatever order requests run and die.
THEOREM TypeCorrect == Spec => []TypeOK
<1>1. IInv => TypeOK
  BY DEF IInv
<1> QED
  BY <1>1, IInvAlways, PTL

\* However many requests make accounts for one identity at once, each is
\* signed in to an account linked to that identity, or to one that has been
\* removed.
THEOREM OwnAccounts == Spec => []OwnAccount
<1>1. IInv => OwnAccount
  BY DEF IInv, Making, OwnAccount
<1> QED
  BY <1>1, IInvAlways, PTL
-----------------------------------------------------------------------------
(* Uniqueness without an index.                                            *)

UInv == IInv /\ Alone /\ UniqueAlone

LEMMA InitUInv == ASSUME Init PROVE UInv
<1>1. Alone /\ UniqueAlone
  BY DEF Init, Alone, Active, UniqueAlone
<1> QED
  BY <1>1, InitIInv DEF UInv

\* A move without a change of the tables keeps UInv, if only requests that
\* are at work go on and what is free, or unlinked, has been read before.
LEMMA QuietAlone ==
  ASSUME UInv, IInv', NEW r \in Request, NEW u \in Identity, NEW i \in Nat,
         NEW n \in 1..(MaxAccounts + 1),
         NEW a \in {"idle", "find", "load", "name", "validate", "insert", "linkValidate",
                    "link", "notify", "signed"},
         Move(r, a, u, i, n), UNCHANGED table,
         ~overlapped' => ~overlapped,
         ~overlapped' /\ a \notin {"idle", "signed"} =>
           Active(r) \/ \A s \in Request : ~Active(s),
         ~overlapped' /\ a = "insert" => ~EmailTaken(u),
         ~overlapped' /\ a = "link" => Linked(u) = {}
  PROVE  UInv'
<1>1. TypeOK /\ Alone /\ UniqueAlone /\ Id' = Id
  BY DEF UInv, IInv, Id
<1>2. /\ at'[r] = a /\ uid'[r] = u /\ free'[r] = n
      /\ \A s \in Request \ {r} : at'[s] = at[s] /\ uid'[s] = uid[s] /\ free'[s] = free[s]
  BY <1>1, MoveTypes
<1>3. state' = state /\ by' = by /\ num' = num /\ auths' = auths /\ next' = next
  BY DEF table
<1>4. UniqueAlone'
  BY <1>1, <1>3 DEF UniqueAlone
<1>5. ASSUME ~overlapped', NEW s \in Request, NEW t \in Request, Active(s)', Active(t)'
      PROVE  s = t
  BY <1>1, <1>2, <1>5 DEF Alone, Active
<1>6. ASSUME ~overlapped', NEW s \in Request, at'[s] = "insert"
      PROVE  ~EmailTaken(uid[s])'
  <2>1. ~EmailTaken(uid'[s])
    BY <1>1, <1>2, <1>6 DEF Alone
  <2> QED
    BY <1>1, <1>3, <2>1 DEF EmailTaken
<1>7. ASSUME ~overlapped', NEW s \in Request, at'[s] = "link"
      PROVE  Linked(uid[s])' = {}
  <2>1. Linked(uid'[s]) = {}
    BY <1>1, <1>2, <1>7 DEF Alone
  <2> QED
    BY <1>1, <1>3, <2>1 DEF Linked
<1>8. Alone'
  BY <1>5, <1>6, <1>7 DEF Alone
<1> QED
  BY <1>4, <1>8 DEF UInv

LEMMA EndAlone ==
  ASSUME UInv, IInv', NEW r \in Request, End(r), UNCHANGED table, overlapped' = overlapped
  PROVE  UInv'
  BY EndMoves, QuietAlone

\* With one request at work, the row it inserts has an e-mail of its own.
LEMMA InsertAlone ==
  ASSUME UInv, IInv', NEW r \in Request, Insert(r)
  PROVE  UInv'
<1>1. TypeOK /\ Alone /\ UniqueAlone /\ Id' = Id /\ next \in Id /\ overlapped' = overlapped
  <2>1. TypeOK /\ Alone /\ UniqueAlone
    BY DEF UInv, IInv
  <2>2. next <= MaxAccounts /\ overlapped' = overlapped
    BY DEF Insert, history
  <2>3. next \in Id /\ Id' = Id
    BY <2>1, <2>2, BoundAssumption DEF TypeOK, Id
  <2> QED
    BY <2>1, <2>2, <2>3
<1>2. /\ state' = [state EXCEPT ![next] = "live"] /\ by' = [by EXCEPT ![next] = uid[r]]
      /\ num' = [num EXCEPT ![next] = free[r]] /\ auths' = auths
      /\ Move(r, "linkValidate", uid[r], next, 1) /\ at[r] = "insert"
  BY DEF Insert
<1>3. /\ state'[next] = "live" /\ by'[next] = uid[r] /\ num'[next] = free[r]
      /\ \A i \in Id \ {next} : state'[i] = state[i] /\ by'[i] = by[i] /\ num'[i] = num[i]
  BY <1>1, <1>2 DEF TypeOK
<1>4. at'[r] = "linkValidate" /\ \A s \in Request \ {r} : at'[s] = at[s]
  BY <1>1, <1>2 DEF Move, TypeOK
<1>5. Active(r)
  BY <1>2 DEF Active
<1>6. Alone'
  <2>1. ASSUME ~overlapped' PROVE \A s \in Request \ {r} : at'[s] \in {"idle", "signed"}
    BY <1>1, <1>4, <1>5, <2>1 DEF Alone, Active
  <2> QED
    BY <1>4, <2>1 DEF Alone, Active
<1>7. ASSUME ~overlapped', NEW j \in Id, state[j] = "live"
      PROVE  EmailOf[by[j]] # EmailOf[uid[r]]
  BY <1>1, <1>2, <1>7 DEF Alone, EmailTaken
<1>8. ASSUME ~overlapped', NEW i \in Id, NEW j \in Id, i # j,
             state'[i] = "live", state'[j] = "live"
      PROVE  EmailOf[by'[i]] # EmailOf[by'[j]]
  <2>1. CASE i = next
    BY <1>3, <1>7, <1>8, <2>1
  <2>2. CASE j = next
    BY <1>3, <1>7, <1>8, <2>2
  <2>3. CASE i # next /\ j # next
    BY <1>1, <1>3, <1>8, <2>3 DEF UniqueAlone
  <2> QED
    BY <2>1, <2>2, <2>3
<1>9. UniqueAlone'
  BY <1>1, <1>2, <1>8 DEF UniqueAlone
<1> QED
  BY <1>6, <1>9 DEF UInv

\* With one request at work, the link it writes is the only one of its
\* identity.
LEMMA LinkAlone ==
  ASSUME UInv, IInv', NEW r \in Request, Link(r)
  PROVE  UInv'
<1>1. TypeOK /\ Alone /\ UniqueAlone /\ Id' = Id /\ overlapped' = overlapped
  BY DEF UInv, IInv, Link, Id, history
<1>2. /\ state' = state /\ by' = by /\ num' = num
      /\ auths' = auths \cup {<<uid[r], acct[r]>>}
      /\ Move(r, "notify", uid[r], acct[r], free[r]) /\ at[r] = "link"
  BY DEF Link, Goto
<1>3. at'[r] = "notify" /\ \A s \in Request \ {r} : at'[s] = at[s]
  BY <1>1, <1>2 DEF Move, TypeOK
<1>4. Active(r)
  BY <1>2 DEF Active
<1>5. Alone'
  <2>1. ASSUME ~overlapped' PROVE \A s \in Request \ {r} : at'[s] \in {"idle", "signed"}
    BY <1>1, <1>3, <1>4, <2>1 DEF Alone, Active
  <2> QED
    BY <1>3, <2>1 DEF Alone, Active
<1>6. ASSUME ~overlapped', NEW a \in auths PROVE a[1] # uid[r]
  <2>1. a \in Identity \X Id
    BY <1>1 DEF TypeOK
  <2>2. PICK v \in Identity, i \in Id : a = <<v, i>>
    BY <2>1
  <2>3. Linked(uid[r]) = {}
    BY <1>1, <1>2, <1>6 DEF Alone
  <2> QED
    BY <2>2, <2>3 DEF Linked
<1>7. ASSUME ~overlapped', NEW a \in auths', NEW b \in auths', a[1] = b[1] PROVE a = b
  BY <1>1, <1>2, <1>6, <1>7 DEF UniqueAlone
<1>8. UniqueAlone'
  BY <1>1, <1>2, <1>7 DEF UniqueAlone
<1> QED
  BY <1>5, <1>8 DEF UInv

LEMMA UInvInductive == ASSUME UInv, [Next]_vars PROVE UInv'
<1>0. IInv /\ IInv'
  BY IInvInductive DEF UInv
<1>1. \A r \in Request : uid[r] \in Identity /\ acct[r] \in Nat
                         /\ free[r] \in 1..(MaxAccounts + 1)
  BY <1>0 DEF IInv, TypeOK
<1>2. 1 \in 1..(MaxAccounts + 1) /\ \A i \in Id : i \in Nat
  BY BoundAssumption DEF Id
<1>3. ASSUME NEW r \in Request, NEW u \in Identity, Callback(r, u) PROVE UInv'
  <2>1. Move(r, "find", u, 1, 1) /\ UNCHANGED table
    BY <1>3 DEF Callback
  <2>2. overlapped' = (overlapped \/ \E s \in Request : Active(s))
    BY <1>3 DEF Callback
  <2> QED
    BY <1>0, <1>2, <2>1, <2>2, QuietAlone
<1>4. ASSUME NEW r \in Request, Find(r) PROVE UInv'
  <2>1. Active(r) /\ UNCHANGED table /\ overlapped' = overlapped
    BY <1>4 DEF Find, Active, history
  <2>2. CASE Goto(r, "name")
    BY <1>0, <1>1, <2>1, <2>2, QuietAlone DEF Goto
  <2>3. ASSUME NEW i \in Linked(uid[r]), Move(r, "load", uid[r], i, 1) PROVE UInv'
    BY <1>0, <1>1, <1>2, <2>1, <2>3, QuietAlone DEF Linked
  <2> QED
    BY <1>4, <2>2, <2>3 DEF Find
<1>5. ASSUME NEW r \in Request, Load(r) \/ Notify(r) PROVE UInv'
  <2>1. Active(r) /\ UNCHANGED table /\ overlapped' = overlapped
    BY <1>5 DEF Load, Notify, Active, history
  <2>2. CASE Goto(r, "signed")
    BY <1>0, <1>1, <2>1, <2>2, QuietAlone DEF Goto
  <2>3. CASE End(r)
    BY <1>0, <2>1, <2>3, EndAlone
  <2> QED
    BY <1>5, <2>2, <2>3 DEF Load, Notify
<1>6. ASSUME NEW r \in Request, Name(r) PROVE UInv'
  <2>1. Active(r) /\ UNCHANGED table /\ overlapped' = overlapped
    BY <1>6 DEF Name, Active, history
  <2>2. PICK n \in 1..(MaxAccounts + 1) : Move(r, "validate", uid[r], 1, n)
    BY <1>6 DEF Name
  <2> QED
    BY <1>0, <1>1, <2>1, <2>2, QuietAlone
<1>7. ASSUME NEW r \in Request, Validate(r) PROVE UInv'
  <2>1. Active(r) /\ UNCHANGED table /\ overlapped' = overlapped
    BY <1>7 DEF Validate, Active, history
  <2>2. CASE Goto(r, "insert") /\ ~EmailTaken(uid[r])
    BY <1>0, <1>1, <2>1, <2>2, QuietAlone DEF Goto
  <2>3. CASE End(r)
    BY <1>0, <2>1, <2>3, EndAlone
  <2> QED
    BY <1>7, <2>2, <2>3 DEF Validate
<1>8. ASSUME NEW r \in Request, LinkValidate(r) PROVE UInv'
  <2>1. Active(r) /\ UNCHANGED table /\ overlapped' = overlapped
    BY <1>8 DEF LinkValidate, Active, history
  <2>2. CASE Goto(r, "link") /\ Linked(uid[r]) = {}
    BY <1>0, <1>1, <2>1, <2>2, QuietAlone DEF Goto
  <2>3. CASE End(r)
    BY <1>0, <2>1, <2>3, EndAlone
  <2> QED
    BY <1>8, <2>2, <2>3 DEF LinkValidate
<1>9. ASSUME NEW r \in Request, InsertRefused(r) \/ Leave(r) \/ Crash(r) PROVE UInv'
  <2>1. End(r) /\ UNCHANGED table /\ overlapped' = overlapped
    BY <1>9 DEF InsertRefused, Leave, Crash, history
  <2> QED
    BY <1>0, <2>1, EndAlone
<1>10. ASSUME NEW i \in Id, Destroy(i) PROVE UInv'
  <2>1. /\ TypeOK /\ Alone /\ UniqueAlone /\ Id' = Id
        /\ overlapped' = overlapped /\ auths' \subseteq auths
        /\ by' = by /\ num' = num /\ at' = at /\ uid' = uid /\ free' = free
    BY <1>10 DEF Destroy, UInv, IInv, Id
  <2>2. \A j \in Id : state'[j] = "live" => state[j] = "live"
    BY <1>10, <2>1 DEF Destroy, TypeOK
  <2>3. UniqueAlone'
    BY <2>1, <2>2 DEF UniqueAlone
  <2>4. Alone'
    BY <2>1, <2>2 DEF Alone, Active, EmailTaken, Linked
  <2> QED
    BY <1>0, <2>3, <2>4 DEF UInv
<1>11. CASE UNCHANGED vars
  BY <1>0, <1>11 DEF vars, UInv, Alone, Active, EmailTaken, Linked, UniqueAlone, Id
<1> QED
  BY <1>3, <1>4, <1>5, <1>6, <1>7, <1>8, <1>9, <1>10, <1>11, InsertAlone, LinkAlone, <1>0, NextCases

\* As long as no two requests run at once, e-mails and links stay unique,
\* whatever dies and whatever is removed in between.
THEOREM UniqueIfAlone == Spec => []UniqueAlone
<1>1. Init => UInv
  BY InitUInv
<1>2. UInv /\ [Next]_vars => UInv'
  BY UInvInductive
<1>3. UInv => UniqueAlone
  BY DEF UInv
<1> QED
  BY <1>1, <1>2, <1>3, PTL DEF Spec
-----------------------------------------------------------------------------
(* One account for an identity, by the index on its user name.             *)

NoneGone == \A i \in Id : state[i] # "gone"
HasAccount(u) == \E i \in Id : state[i] = "live" /\ by[i] = u

\* The numbers below the one a request has chosen are taken; and its own is,
\* once another request has made an account for the same identity.
Numbered ==
  NoneGone =>
    \A r \in Request :
      /\ at[r] \in {"validate", "insert"} => \A k \in 1..(free[r] - 1) : UserTaken(uid[r], k)
      /\ at[r] = "insert" /\ HasAccount(uid[r]) => UserTaken(uid[r], free[r])

OInv == TypeOK /\ Numbered /\ OneAccountEach

\* A move without a change of the tables keeps OInv, if a request that gets to
\* the validation or past it has the smallest number that is free.
LEMMA QuietNumbered ==
  ASSUME OInv, TypeOK', NEW r \in Request, NEW u \in Identity, NEW i \in Nat,
         NEW n \in 1..(MaxAccounts + 1),
         NEW a \in {"idle", "find", "load", "name", "validate", "insert", "linkValidate",
                    "link", "notify", "signed"},
         Move(r, a, u, i, n), UNCHANGED table,
         a \in {"validate", "insert"} /\ NoneGone => \A k \in 1..(n - 1) : UserTaken(u, k),
         a = "insert" => ~HasAccount(u)
  PROVE  OInv'
<1>1. TypeOK /\ Numbered /\ OneAccountEach /\ Id' = Id
  BY DEF OInv, Id
<1>2. /\ at'[r] = a /\ uid'[r] = u /\ free'[r] = n
      /\ \A s \in Request \ {r} : at'[s] = at[s] /\ uid'[s] = uid[s] /\ free'[s] = free[s]
  BY <1>1, MoveTypes
<1>3. state' = state /\ by' = by /\ num' = num
  BY DEF table
<1>4. OneAccountEach'
  BY <1>1, <1>3 DEF OneAccountEach
<1>5. NoneGone' => NoneGone
  BY <1>1, <1>3 DEF NoneGone
<1>6. ASSUME NoneGone', NEW s \in Request
      PROVE  /\ at'[s] \in {"validate", "insert"} =>
                  \A k \in 1..(free'[s] - 1) : UserTaken(uid'[s], k)
             /\ at'[s] = "insert" /\ HasAccount(uid'[s]) => UserTaken(uid'[s], free'[s])
  <2>1. CASE s = r
    BY <1>2, <1>5, <1>6, <2>1
  <2>2. CASE s # r
    BY <1>1, <1>2, <1>5, <1>6, <2>2 DEF Numbered
  <2> QED
    BY <2>1, <2>2
<1>7. Numbered'
  BY <1>1, <1>3, <1>6 DEF Numbered, UserTaken, HasAccount
<1> QED
  BY <1>4, <1>7 DEF OInv

LEMMA EndNumbered ==
  ASSUME OInv, TypeOK', NEW r \in Request, End(r), UNCHANGED table
  PROVE  OInv'
  BY EndMoves, QuietNumbered

\* Who gets past the index is the first to make an account for its identity,
\* and the name it takes stops the others.
LEMMA InsertNumbered ==
  ASSUME OInv, TypeOK', NEW r \in Request, Insert(r)
  PROVE  OInv'
<1> DEFINE Taken(u, n) ==
      \E i \in Id : state'[i] = "live" /\ NameOf[by'[i]] = NameOf[u] /\ num'[i] = n
<1>1. TypeOK /\ Numbered /\ OneAccountEach /\ Id' = Id /\ next \in Id /\ state[next] = "none"
  <2>1. TypeOK /\ Numbered /\ OneAccountEach /\ Id' = Id
    BY DEF OInv, Id
  <2>2. next \in Id /\ next \in Nat
    BY <2>1, BoundAssumption DEF TypeOK, Insert, Id
  <2> QED
    BY <2>1, <2>2 DEF TypeOK
<1>2. /\ state' = [state EXCEPT ![next] = "live"] /\ by' = [by EXCEPT ![next] = uid[r]]
      /\ num' = [num EXCEPT ![next] = free[r]] /\ ~UserTaken(uid[r], free[r])
      /\ Move(r, "linkValidate", uid[r], next, 1) /\ at[r] = "insert"
  BY DEF Insert
<1>3. /\ state'[next] = "live" /\ by'[next] = uid[r] /\ num'[next] = free[r]
      /\ \A i \in Id \ {next} : state'[i] = state[i] /\ by'[i] = by[i] /\ num'[i] = num[i]
  BY <1>1, <1>2 DEF TypeOK
<1>4. /\ at'[r] = "linkValidate"
      /\ \A s \in Request \ {r} : at'[s] = at[s] /\ uid'[s] = uid[s] /\ free'[s] = free[s]
  BY <1>1, <1>2 DEF Move, TypeOK
<1>5. NoneGone' => NoneGone
  BY <1>1, <1>3 DEF NoneGone
<1>6. ASSUME NEW u, NEW k, UserTaken(u, k) PROVE Taken(u, k)
  BY <1>1, <1>3, <1>6 DEF UserTaken
<1>7. Taken(uid[r], free[r])
  BY <1>1, <1>3
<1>8. ASSUME NoneGone' PROVE ~HasAccount(uid[r])
  BY <1>1, <1>2, <1>5, <1>8 DEF Numbered
<1>9. OneAccountEach'
  <2>1. ASSUME NoneGone', NEW i \in Id, NEW j \in Id,
               state'[i] = "live", state'[j] = "live", by'[i] = by'[j]
        PROVE  i = j
    <3>1. CASE i = next
      BY <1>3, <1>8, <2>1, <3>1 DEF HasAccount
    <3>2. CASE j = next
      BY <1>3, <1>8, <2>1, <3>2 DEF HasAccount
    <3>3. CASE i # next /\ j # next
      BY <1>1, <1>3, <1>5, <2>1, <3>3 DEF OneAccountEach, NoneGone
    <3> QED
      BY <3>1, <3>2, <3>3
  <2> QED
    BY <1>1, <2>1 DEF OneAccountEach, NoneGone
<1>10. ASSUME NoneGone', NEW s \in Request, s # r, at[s] \in {"validate", "insert"},
              NEW k \in 1..(free[s] - 1)
       PROVE  Taken(uid[s], k)
  BY <1>1, <1>5, <1>6, <1>10 DEF Numbered
<1>11. ASSUME NoneGone', NEW s \in Request, s # r, at[s] = "insert", HasAccount(uid[s])'
       PROVE  Taken(uid[s], free[s])
  <2>1. CASE HasAccount(uid[s])
    BY <1>1, <1>5, <1>6, <1>11, <2>1 DEF Numbered
  <2>2. CASE ~HasAccount(uid[s])
    <3>1. uid[s] = uid[r] /\ uid'[s] = uid[s] /\ free'[s] = free[s]
      BY <1>1, <1>3, <1>4, <1>11, <2>2 DEF HasAccount
    <3>2. free[s] \in Nat \ {0} /\ free[r] \in Nat \ {0}
      BY <1>1, BoundAssumption DEF TypeOK
    <3>3. CASE free[s] = free[r]
      BY <1>7, <3>1, <3>3
    <3>4. CASE free[s] < free[r]
      BY <1>1, <1>2, <1>5, <1>6, <1>11, <3>1, <3>2, <3>4 DEF Numbered
    <3>5. CASE free[s] > free[r]
      BY <1>1, <1>2, <1>5, <1>11, <3>1, <3>2, <3>5 DEF Numbered
    <3> QED
      BY <3>2, <3>3, <3>4, <3>5
  <2> QED
    BY <2>1, <2>2
<1>12. Numbered'
  BY <1>1, <1>4, <1>10, <1>11 DEF Numbered, UserTaken
<1> QED
  BY <1>9, <1>12 DEF OInv

LEMMA OInvInductive == ASSUME OInv, TypeOK', [Next]_vars PROVE OInv'
<1>1. /\ TypeOK /\ Id' = Id
      /\ \A r \in Request : uid[r] \in Identity /\ acct[r] \in Nat
                            /\ free[r] \in 1..(MaxAccounts + 1)
      /\ 1 \in 1..(MaxAccounts + 1) /\ \A i \in Id : i \in Nat
  BY BoundAssumption DEF OInv, TypeOK, Id
<1>2. ASSUME NEW r \in Request, NEW u \in Identity, Callback(r, u) PROVE OInv'
  BY <1>1, <1>2, QuietNumbered DEF Callback
<1>3. ASSUME NEW r \in Request, Find(r) PROVE OInv'
  <2>1. CASE Goto(r, "name") /\ UNCHANGED table
    BY <1>1, <2>1, QuietNumbered DEF Goto
  <2>2. ASSUME NEW i \in Linked(uid[r]), Move(r, "load", uid[r], i, 1), UNCHANGED table PROVE OInv'
    BY <1>1, <2>2, QuietNumbered DEF Linked
  <2> QED
    BY <1>3, <2>1, <2>2 DEF Find
<1>4. ASSUME NEW r \in Request, NEW a \in {"signed", "link"}, Goto(r, a), UNCHANGED table
      PROVE  OInv'
  BY <1>1, <1>4, QuietNumbered DEF Goto
<1>5. ASSUME NEW r \in Request, Load(r) \/ Notify(r) \/ LinkValidate(r) PROVE OInv'
  BY <1>4, <1>5, EndNumbered DEF Load, Notify, LinkValidate
<1>6. ASSUME NEW r \in Request, Name(r) PROVE OInv'
  <2>1. PICK n \in 1..(MaxAccounts + 1) :
          (\A k \in 1..(n - 1) : UserTaken(uid[r], k)) /\ Move(r, "validate", uid[r], 1, n)
    BY <1>6 DEF Name
  <2> QED
    BY <1>1, <1>6, <2>1, QuietNumbered DEF Name
<1>7. ASSUME NEW r \in Request, Validate(r) PROVE OInv'
  <2>1. CASE Goto(r, "insert") /\ ~EmailTaken(uid[r])
    <3>1. ~HasAccount(uid[r])
      BY <2>1 DEF EmailTaken, HasAccount
    <3>2. NoneGone => \A k \in 1..(free[r] - 1) : UserTaken(uid[r], k)
      BY <1>7 DEF Validate, OInv, Numbered
    <3> QED
      BY <1>1, <1>7, <2>1, <3>1, <3>2, QuietNumbered DEF Validate, Goto
  <2>2. CASE End(r)
    BY <1>7, <2>2, EndNumbered DEF Validate
  <2> QED
    BY <1>7, <2>1, <2>2 DEF Validate
<1>8. ASSUME NEW r \in Request, InsertRefused(r) \/ Leave(r) \/ Crash(r) PROVE OInv'
  BY <1>8, EndNumbered DEF InsertRefused, Leave, Crash
<1>9. ASSUME NEW r \in Request, Link(r) PROVE OInv'
  <2>1. Move(r, "notify", uid[r], acct[r], free[r]) /\ state' = state /\ by' = by /\ num' = num
    BY <1>9 DEF Link, Goto
  <2>2. /\ at'[r] = "notify"
        /\ \A s \in Request \ {r} : at'[s] = at[s] /\ uid'[s] = uid[s] /\ free'[s] = free[s]
    BY <1>1, <2>1, MoveTypes
  <2>3. OneAccountEach'
    BY <1>1, <2>1 DEF OInv, OneAccountEach
  <2>4. Numbered'
    BY <1>1, <2>1, <2>2 DEF OInv, Numbered, NoneGone, HasAccount, UserTaken
  <2> QED
    BY <2>3, <2>4 DEF OInv
<1>10. ASSUME NEW i \in Id, Destroy(i) PROVE OInv'
  <2>1. state'[i] = "gone"
    BY <1>1, <1>10 DEF Destroy, TypeOK
  <2> QED
    BY <1>1, <1>10, <2>1 DEF OInv, Numbered, NoneGone, OneAccountEach
<1>11. CASE UNCHANGED vars
  BY <1>1, <1>11 DEF vars, OInv, Numbered, NoneGone, HasAccount, UserTaken, OneAccountEach
<1> QED
  BY <1>2, <1>3, <1>5, <1>6, <1>7, <1>8, <1>9, <1>10, <1>11, InsertNumbered, NextCases

\* As long as no account is removed, an identity has one account, however many
\* of its requests run at once and whatever dies.
THEOREM OneAccountForEach == Spec => []OneAccountEach
<1>1. Init /\ TypeOK => OInv
  BY DEF Init, OInv, Numbered, OneAccountEach
<1>2. OInv /\ TypeOK' /\ [Next]_vars => OInv'
  BY OInvInductive
<1>3. OInv => OneAccountEach
  BY DEF OInv
<1> QED
  BY <1>1, <1>2, <1>3, TypeCorrect, PTL DEF Spec
=============================================================================
