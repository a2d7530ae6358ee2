------------------------- MODULE RadiusAuthorization -------------------------
(***************************************************************************)
(* What FreeRADIUS is told of accounts: the groups, the links between      *)
(* accounts and groups, and the check and reply attributes of both, as the *)
(* pages of the operators and the sign-up write them.                      *)
(*                                                                         *)
(* A record (a group, a check or a reply) has a key that validations keep  *)
(* unique: the name of a group, the attribute of a check or a reply among  *)
(* those of its subject.  They ask before they write, and no index stands  *)
(* behind them.  A subject (an account or a group) is removed with its     *)
(* checks and replies in one transaction; its links are looked up and      *)
(* deleted after that transaction, without one.                            *)
(*                                                                         *)
(* Left out: the columns no other record depends on (op, value, priority,  *)
(* notes), the columns of an account (UserLifecycle), its roles, and the   *)
(* setting default_radius_group, which is taken not to change.             *)
(***************************************************************************)
EXTENDS Naturals

CONSTANTS
  Request,    \* web requests, and jobs of the house keeper, that run at once
  User,       \* bound: ids of accounts
  Group,      \* bound: ids of groups
  Row,        \* bound: ids of checks and replies
  Table,      \* radius_checks and radius_replies; the code for both is the same
  Attribute,
  Name,       \* names of groups
  Default,    \* the name in default_radius_group
  Seed,       \* the group that is there at first
  Null

Subject == User \cup Group
Record == Group \cup Row
Key == [table : Table, of : Subject, name : Attribute]
       \cup [table : {"radius_groups"}, of : {Null}, name : Name]

ASSUME SeedAssumption == Seed \in Group /\ Default \in Name
ASSUME IdAssumption ==
  /\ User \cap Group = {} /\ User \cap Row = {} /\ Group \cap Row = {}
  /\ Null \notin Subject \cup Record \cup Key
  /\ "radius_groups" \notin Table

VARIABLES
  key,        \* key[x]: the key of record x, Null if there is no such record
  users,      \* the accounts
  used,       \* ids given out; none is given out twice
  member,     \* radius_groups_users: how many rows link an account and a group
  req,        \* req[r]: where request r is, with what it loaded
  coedited,   \* accounts whose groups two requests have edited at once
  late,       \* subjects that were written to while or after they were removed,
              \* or whose removal was broken off before their links were deleted
  due         \* due[u]: the groups account u was last given, if it is not in coedited

authorizationVars == <<key, users, used, member, req, coedited, late, due>>

GroupKey(n) == [table |-> "radius_groups", of |-> Null, name |-> n]

Idle == [at |-> "idle", x |-> Null, k |-> Null, s |-> Null, saw |-> {}, ask |-> {}, rival |-> FALSE]

AuthorizationInit ==
  /\ key = [x \in Record |-> IF x = Seed THEN GroupKey(Default) ELSE Null]
  /\ users = {}
  /\ used = {Seed}
  /\ member = [m \in User \X Group |-> 0]
  /\ req = [r \in Request |-> Idle]
  /\ coedited = {} /\ late = {}
  /\ due = [u \in User |-> {}]

LiveGroups == {g \in Group : key[g] # Null}
Live == users \cup LiveGroups
Listed(u) == {g \in LiveGroups : member[<<u, g>>] > 0}
Attributes(s) == {x \in Row : key[x] # Null /\ key[x].of = s}

\* Mutant: an update is not validated.
TakenBefore(x, k) == x = Null /\ \E y \in Record : key[y] = k

Taken(x, k) == \E y \in Record : y # x /\ key[y] = k

Goto(r, q) == req' = [req EXCEPT ![r] = q]
End(r) == Goto(r, Idle)

-----------------------------------------------------------------------------
(* Creating and updating groups, checks and replies.                       *)

Validating(x, k) == [Idle EXCEPT !.at = "validate", !.x = x, !.k = k]

Creation(r, k) ==
  /\ req[r] = Idle
  /\ k.of = Null \/ k.of \in Live
  /\ Goto(r, Validating(Null, k))
  /\ UNCHANGED <<key, users, used, member, coedited, late, due>>

\* A record keeps its table and its subject; an update that leaves its key
\* alone writes no column of the model.
Change(r, x, k) ==
  /\ req[r] = Idle
  /\ key[x] # Null /\ k # key[x]
  /\ k.table = key[x].table /\ k.of = key[x].of
  /\ Goto(r, Validating(x, k))
  /\ UNCHANGED <<key, users, used, member, coedited, late, due>>

\* validates_uniqueness_of.  Two requests that have both found a key free are
\* rivals for it.
Rivals(k) == {p \in Request : req[p].at = "write" /\ req[p].k = k}

Validate(r) ==
  LET q == req[r] IN
  /\ q.at = "validate"
  /\ req' = IF Taken(q.x, q.k) THEN [req EXCEPT ![r] = Idle]
            ELSE [p \in Request |->
                    IF p = r THEN [q EXCEPT !.at = "write", !.rival = Rivals(q.k) # {}]
                    ELSE IF p \in Rivals(q.k) THEN [req[p] EXCEPT !.rival = TRUE]
                    ELSE req[p]]
  /\ UNCHANGED <<key, users, used, member, coedited, late, due>>

\* The ids a record with this key may get.
Fresh(k) == (IF k.table = "radius_groups" THEN Group ELSE Row) \ used

\* The subject may have been removed since it was loaded, or be about to be,
\* by a request that has already looked for its checks and replies.
Insert(r) ==
  LET k == req[r].k
      s == req[r].k.of IN
  /\ req[r].at = "write" /\ req[r].x = Null
  /\ \E x \in Fresh(k) : key' = [key EXCEPT ![x] = k] /\ used' = used \cup {x}
  /\ late' = IF s # Null
                /\ (s \notin Live \/ \E p \in Request : req[p].at = "cascade" /\ req[p].s = s)
             THEN late \cup {s} ELSE late
  /\ End(r)
  /\ UNCHANGED <<users, member, coedited, due>>

\* An UPDATE of a row that is gone changes nothing.
Update(r) ==
  LET x == req[r].x IN
  /\ req[r].at = "write" /\ x # Null
  /\ key' = IF key[x] = Null THEN key ELSE [key EXCEPT ![x] = req[r].k]
  /\ End(r)
  /\ UNCHANGED <<users, used, member, coedited, late, due>>

\* A check or a reply is removed.
DestroyRow(r, x) ==
  /\ req[r] = Idle
  /\ key[x] # Null
  /\ key' = [key EXCEPT ![x] = Null]
  /\ UNCHANGED <<users, used, member, req, coedited, late, due>>

-----------------------------------------------------------------------------
(* Removing a group or an account.                                         *)

Destroying(a, s, saw) == [Idle EXCEPT !.at = a, !.s = s, !.saw = saw]

\* The transaction begins with the list of its checks and replies.
Destroy(r, s) ==
  /\ req[r] = Idle
  /\ s \in Live
  /\ Goto(r, Destroying("cascade", s, Attributes(s)))
  /\ UNCHANGED <<key, users, used, member, coedited, late, due>>

\* Mutant: only groups have :dependent => :destroy.
GoneOfGroup(q) == IF q.s \in Group THEN q.saw \cup {q.s} ELSE {}

Gone(q) == q.saw \cup ({q.s} \cap Group)

Cascade(r) ==
  LET q == req[r] IN
  /\ q.at = "cascade"
  /\ key' = [x \in Record |-> IF x \in Gone(q) THEN Null ELSE key[x]]
  /\ users' = users \ {q.s}
  /\ due' = [u \in User |-> IF u = q.s THEN {} ELSE due[u]]
  /\ Goto(r, Destroying("list", q.s, {}))
  /\ UNCHANGED <<used, member, coedited, late>>

\* The other ends of its links: those that are still there.
Linked(s) == IF s \in User THEN Listed(s) ELSE {u \in users : member[<<u, s>>] > 0}

List(r) ==
  LET s == req[r].s IN
  /\ req[r].at = "list"
  /\ IF Linked(s) = {} THEN End(r) ELSE Goto(r, Destroying("clear", s, Linked(s)))
  /\ UNCHANGED <<key, users, used, member, coedited, late, due>>

\* Mutant: the links of those accounts, to every group.
OursAndTheirs(q, m) == \/ q.s = m[1] /\ m[2] \in q.saw
                       \/ m[1] \in q.saw

Ours(q, m) == \/ q.s = m[1] /\ m[2] \in q.saw
              \/ q.s = m[2] /\ m[1] \in q.saw

Clear(r) ==
  /\ req[r].at = "clear"
  /\ member' = [m \in User \X Group |-> IF Ours(req[r], m) THEN 0 ELSE member[m]]
  /\ End(r)
  /\ UNCHANGED <<key, users, used, coedited, late, due>>

-----------------------------------------------------------------------------
(* The groups of an account.                                               *)

Registering(S) == [Idle EXCEPT !.at = "register", !.ask = S]

\* The group named default_radius_group, or the answer is an error: sign-up,
\* first login with a social network, and operators who do not manage users.
SignUp(r) ==
  /\ req[r] = Idle
  /\ \E g \in Group : key[g] = GroupKey(Default) /\ Goto(r, Registering({g}))
  /\ UNCHANGED <<key, users, used, member, coedited, late, due>>

\* Operators who manage users choose the groups.
OperatorCreate(r, S) ==
  /\ req[r] = Idle
  /\ S \subseteq LiveGroups
  /\ Goto(r, Registering(S))
  /\ UNCHANGED <<key, users, used, member, coedited, late, due>>

\* The account and its links are inserted in one transaction.
Register(r) ==
  LET S == req[r].ask IN
  /\ req[r].at = "register"
  /\ \E u \in User \ used :
       /\ users' = users \cup {u}
       /\ used' = used \cup {u}
       /\ member' = [m \in User \X Group |-> IF m[1] = u /\ m[2] \in S THEN 1 ELSE member[m]]
       /\ due' = [due EXCEPT ![u] = S]
  /\ late' = late \cup (S \ LiveGroups)
  /\ End(r)
  /\ UNCHANGED <<key, coedited>>

\* radius_group_ids= finds the groups, and compares them with those the
\* account has, in the transaction of update_attributes.
Edit(r, u, S) ==
  /\ req[r] = Idle
  /\ u \in users /\ S \subseteq LiveGroups
  /\ Goto(r, [Idle EXCEPT !.at = "edit", !.s = u, !.saw = Listed(u), !.ask = S])
  /\ IF \E p \in Request : req[p].at = "edit" /\ req[p].s = u
     THEN coedited' = coedited \cup {u} /\ due' = [due EXCEPT ![u] = {}]
     ELSE UNCHANGED <<coedited, due>>
  /\ UNCHANGED <<key, users, used, member, late>>

\* Links are deleted and added; the account may have been removed meanwhile.
Edited(q, m) ==
  IF m[1] # q.s THEN member[m]
  ELSE IF m[2] \in q.saw \ q.ask THEN 0
  ELSE IF m[2] \in q.ask \ q.saw THEN member[m] + 1
  ELSE member[m]

EditCommit(r) ==
  LET q == req[r] IN
  /\ q.at = "edit"
  /\ member' = [m \in User \X Group |-> Edited(q, m)]
  /\ due' = IF q.s \in users \ coedited THEN [due EXCEPT ![q.s] = q.ask] ELSE due
  /\ late' = late \cup ({q.s} \ users) \cup (q.ask \ LiveGroups)
  /\ End(r)
  /\ UNCHANGED <<key, users, used, coedited>>

\* Another validation fails, the database raises or the process dies.
Fail(r) ==
  /\ req[r] # Idle
  /\ late' = IF req[r].at \in {"list", "clear"} THEN late \cup {req[r].s} ELSE late
  /\ End(r)
  /\ UNCHANGED <<key, users, used, member, coedited, due>>

-----------------------------------------------------------------------------
AuthorizationNext ==
  \E r \in Request :
    \/ \E k \in Key : Creation(r, k)
    \/ \E x \in Record, k \in Key : Change(r, x, k)
    \/ Validate(r) \/ Insert(r) \/ Update(r)
    \/ \E x \in Row : DestroyRow(r, x)
    \/ \E s \in Subject : Destroy(r, s)
    \/ Cascade(r) \/ List(r) \/ Clear(r)
    \/ SignUp(r)
    \/ \E S \in SUBSET Group : OperatorCreate(r, S)
    \/ Register(r)
    \/ \E u \in User, S \in SUBSET Group : Edit(r, u, S)
    \/ EditCommit(r)
    \/ Fail(r)

AuthorizationSpec == AuthorizationInit /\ [][AuthorizationNext]_authorizationVars

-----------------------------------------------------------------------------
At == {"idle", "validate", "write", "cascade", "list", "clear", "register", "edit"}

Load == [at : At, x : Record \cup {Null}, k : Key \cup {Null}, s : Subject \cup {Null},
         saw : SUBSET (User \cup Record), ask : SUBSET Group, rival : BOOLEAN]

AuthorizationTypeOK ==
  /\ key \in [Record -> Key \cup {Null}]
  /\ \A x \in Record : key[x] # Null => (x \in Group <=> key[x].table = "radius_groups")
  /\ users \subseteq User \cap used
  /\ used \subseteq User \cup Record
  /\ \A x \in Record \ used : key[x] = Null
  /\ member \in [User \X Group -> Nat]
  /\ req \in [Request -> Load]
  /\ coedited \subseteq User /\ late \subseteq Subject
  /\ due \in [User -> SUBSET Group]

\* A request gives a name to a second group, or an attribute to a second check
\* or reply of a subject, only if another request had found it free at the
\* same time; no sequence of creations, updates and removals that does not
\* overlap in this way does it.
KeyOnce ==
  [][\A x, y \in Record :
       x # y /\ key'[x] # Null /\ key'[x] = key'[y] /\ key[x] # key[y]
         => \E r \in Request : req[r].rival /\ req[r].k = key'[x] /\ req'[r] = Idle]_authorizationVars

\* Unless two requests edited the groups of an account at once, radusergroup
\* lists it, once each, in exactly those groups it was last given that are
\* still there: what is done meanwhile to groups and other accounts, also the
\* deletion of their links, takes none away and adds none.
ListedAsDue ==
  \A u \in users \ coedited :
    /\ Listed(u) = due[u] \cap LiveGroups
    /\ \A g \in Group : member[<<u, g>>] <= 1

\* Nothing is left of a subject that was removed, neither checks and replies
\* nor links to what is still there, except while its links are about to be
\* deleted, or if it was written to during or after the removal, or the
\* removal was broken off.
NothingLeft ==
  /\ \A x \in Row : key[x] # Null => key[x].of \in Live \cup late
  /\ \A u \in User, g \in Group :
       member[<<u, g>>] > 0 /\ (u \in users <=> g \notin LiveGroups)
         => \E s \in {u, g} \ Live :
              s \in late \/ \E r \in Request : req[r].at \in {"list", "clear"} /\ req[r].s = s
=============================================================================
