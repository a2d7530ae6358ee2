------------------------- MODULE UserLifecycleProofs -------------------------
(***************************************************************************)
(* What holds of the accounts for any number of them, of callbacks and of  *)
(* payments, and any timeouts.  The heart is RowChange: whatever process   *)
(* takes a step, and however old the copy it works from, the step changes  *)
(* at most one row, and changes it lawfully.                               *)
(***************************************************************************)
EXTENDS UserLifecycle, TLAPS

\* A copy that a callback or a payment holds is behind its row, never ahead.
CopiesBehind ==
  \A p \in Process : \A i \in Id :
    work[p].at # "idle" /\ work[p].id = i =>
      /\ rows[i].state # "unborn"
      /\ Live(i) /\ (work[p].copy.once \/ work[p].at = "recover") => rows[i].once

\* The columns of a sweep's copies that never change agree with the rows.
SweepCopies ==
  \A i \in keeper.left :
    /\ rows[i].state # "unborn"
    /\ Live(i) => /\ rows[i].method = keeper.copies[i].method
                  /\ rows[i].created = keeper.copies[i].created
    /\ keeper.job \in {"unverifiedDestroy", "disabledDestroy"} => ~Gestpay(keeper.copies[i])

IInv == TypeOK /\ StampedWhenVerified /\ RecoveredWasVerified /\ CopiesBehind /\ SweepCopies

\* What any process may do to a row.
Lawful(old, new) ==
  /\ new.state = "live" => (new.verified \/ new.recovered = "yes" => new.once)
  /\ old.state = "gone" => new.state = "gone"
  /\ old.state = "unborn" => new.state = "live" /\ (new.once => new.verified)
  /\ old.state = "live" => new.state # "unborn"
  /\ old.state = "live" /\ new.state = "live" =>
       /\ old.once => new.once
       /\ new.once => old.once \/ new.verified
       /\ new.method = old.method /\ new.created = old.created

OneRowChanges ==
  \/ rows' = rows
  \/ \E i \in Id : \E r \in Row : rows' = [rows EXCEPT ![i] = r] /\ Lawful(rows[i], r)

LEMMA UpdateLawful ==
  ASSUME IInv, NEW i \in Id, NEW r \in Row, Update(i, r),
         r.state = "live", r.verified \/ r.recovered = "yes" => r.once,
         rows[i].once => r.once, r.once => rows[i].once \/ r.verified, r.method = rows[i].method, r.created = rows[i].created
  PROVE  OneRowChanges
<1>1. CASE ~Live(i)
  BY <1>1 DEF Update, OneRowChanges, IInv, TypeOK
<1>2. CASE Live(i)
  <2> DEFINE n == [r EXCEPT !.updated = now]
  <2>1. n \in Row
    BY DEF IInv, TypeOK, Row
  <2>2. Lawful(rows[i], n)
    BY <1>2 DEF Lawful, Live, Row
  <2>3. rows' = [rows EXCEPT ![i] = n]
    BY <1>2 DEF Update
  <2> QED
    BY <2>1, <2>2, <2>3 DEF OneRowChanges
<1> QED
  BY <1>1, <1>2

LEMMA NoRowType == NoRow \in Row /\ GoneRow \in Row
<1>1. 0 \in Time
  BY BoundAssumption DEF Time
<1>2. NoRow \in Row
  BY <1>1 DEF NoRow, Row
<1> QED
  BY <1>2 DEF GoneRow, Row

\* What is kept of a row that was loaded.
LEMMA CopyType ==
  ASSUME NEW row \in Row
  PROVE  /\ Copy(row) \in Row /\ Copy(row).once = row.once /\ Copy(row).verified = row.verified
         /\ Found(row) \in Row /\ Found(row).method = row.method /\ Found(row).created = row.created
<1>1. 0 \in Time
  BY BoundAssumption DEF Time
<1> QED
  BY <1>1 DEF Copy, Found, Row

LEMMA GoneLawful ==
  ASSUME IInv, NEW i \in Id, rows' = [rows EXCEPT ![i] = IF Live(i) THEN GoneRow ELSE @]
  PROVE  OneRowChanges
<1>1. CASE ~Live(i)
  BY <1>1 DEF OneRowChanges, IInv, TypeOK
<1>2. CASE Live(i)
  BY <1>2, NoRowType DEF OneRowChanges, Lawful, Live, GoneRow, NoRow
<1> QED
  BY <1>1, <1>2

LEMMA WebLawful ==
  ASSUME IInv, NEW i \in Id, WebStep(i)
  PROVE  OneRowChanges
<1> USE DEF IInv
<1>0. rows[i] \in Row
  BY DEF TypeOK
<1>1. ASSUME NEW m \in Method, NEW v \in BOOLEAN, NEW a \in BOOLEAN, Insert(i, m, v, a)
      PROVE  OneRowChanges
  <2> DEFINE n == SetVerified([state |-> "live", method |-> m, verified |-> FALSE,
                     once |-> FALSE, active |-> a, recovered |-> "nil",
                     created |-> now, updated |-> now], v)
  <2>1. n \in Row
    BY DEF SetVerified, Row, TypeOK
  <2>2. Lawful(rows[i], n)
    BY <1>1 DEF Insert, Lawful, SetVerified
  <2> QED
    BY <1>1, <2>1, <2>2 DEF Insert, OneRowChanges
<1>2. ASSUME NEW r \in Row, Request(i), Update(i, r),
             r.state = rows[i].state, r.method = rows[i].method, r.created = rows[i].created,
             r.once = (rows[i].once \/ r.verified), r.recovered = "yes" => rows[i].recovered = "yes"
      PROVE  OneRowChanges
  BY <1>0, <1>2, UpdateLawful DEF Request, Live, RecoveredWasVerified, Row
<1>3. CASE \E m \in Method : SignUp(i, m)
  BY <1>1, <1>3 DEF SignUp
<1>4. CASE "other" \in Method /\ \E v, a \in BOOLEAN : SocialSignUp(i, v) \/ OperatorCreate(i, v, a)
  BY <1>1, <1>4 DEF SocialSignUp, OperatorCreate
<1>5. CASE Login(i)
  BY <1>0, <1>2, <1>5 DEF Login, Request, Live, StampedWhenVerified, Row
<1>6. CASE DisableAccount(i)
  BY <1>0, <1>2, <1>6 DEF DisableAccount, SetVerified, Row
<1>7. CASE AdditionalFields(i) \/ SocialLogin(i)
  BY <1>0, <1>2, <1>7 DEF AdditionalFields, SocialLogin, SetVerified, Row
<1>8. CASE AskRecovery(i)
  BY <1>0, <1>2, <1>8 DEF AskRecovery, Request, Live, StampedWhenVerified, Row
<1>9. ASSUME NEW v \in BOOLEAN, NEW a \in BOOLEAN, OperatorUpdate(i, v, a)
      PROVE  OneRowChanges
  BY <1>0, <1>2, <1>9 DEF OperatorUpdate, SetVerified, Row
<1>10. CASE OperatorDestroy(i)
  BY <1>10, GoneLawful DEF OperatorDestroy, Request
<1> QED
  BY <1>3, <1>4, <1>5, <1>6, <1>7, <1>8, <1>9, <1>10 DEF WebStep

LEMMA SaveVerifiedLawful ==
  ASSUME IInv, NEW p \in Process, work[p].at # "idle", SaveVerified(p)
  PROVE  OneRowChanges
<1> DEFINE i == work[p].id
<1> DEFINE r == [rows[i] EXCEPT !.verified = TRUE, !.once = @ \/ ~work[p].copy.once]
<1>1. i \in Id /\ rows[i] \in Row /\ work[p].copy.once \in BOOLEAN
  BY DEF IInv, TypeOK, Row
<1>2. r \in Row
  BY <1>1 DEF Row
<1>3. Update(i, r)
  BY DEF SaveVerified
<1>4. CASE ~Live(i)
  BY <1>1, <1>3, <1>4 DEF Update, OneRowChanges, IInv, TypeOK
<1>5. CASE Live(i)
  <2>1. r.once /\ r.verified
    BY <1>1, <1>5 DEF IInv, CopiesBehind, Row
  <2>2. r.state = "live" /\ r.method = rows[i].method /\ r.created = rows[i].created
    BY <1>1, <1>5 DEF Live, Row
  <2> HIDE DEF r, i
  <2> QED
    BY <1>1, <1>2, <1>3, <2>1, <2>2, UpdateLawful
<1> QED
  BY <1>4, <1>5

LEMMA WorkLawful ==
  ASSUME IInv, NEW p \in Process, CallbackStep(p) \/ PaymentStep(p)
  PROVE  OneRowChanges
<1>1. CASE CallbackVerify(p)
  BY <1>1, SaveVerifiedLawful DEF CallbackVerify
<1>2. CASE PaymentAccepted(p)
  BY <1>2, SaveVerifiedLawful DEF PaymentAccepted, OneRowChanges
<1>3. CASE CallbackRecover(p)
  <2> DEFINE i == work[p].id
  <2> DEFINE r == [rows[i] EXCEPT !.recovered = "yes"]
  <2>1. i \in Id /\ rows[i] \in Row
    BY DEF IInv, TypeOK
  <2>2. Update(i, r) /\ work[p].at = "recover"
    BY <1>3 DEF CallbackRecover
  <2>3. CASE ~Live(i)
    BY <2>1, <2>2, <2>3 DEF Update, OneRowChanges, IInv, TypeOK
  <2>4. CASE Live(i)
    <3>1. r \in Row /\ r.state = "live" /\ r.method = rows[i].method /\ r.created = rows[i].created
      BY <2>1, <2>4 DEF Live, Row
    <3>2. r.once /\ rows[i].once
      BY <2>1, <2>2, <2>4 DEF IInv, CopiesBehind, Row
    <3> HIDE DEF r, i
    <3> QED
      BY <2>1, <2>2, <3>1, <3>2, UpdateLawful
  <2> QED
    BY <2>3, <2>4
<1>4. CASE (\E i \in Id : CallbackLoad(p, i) \/ PaymentLoad(p, i)) \/ CallbackDies(p) \/ PaymentRefused(p)
  BY <1>4 DEF CallbackLoad, PaymentLoad, CallbackDies, PaymentRefused, OneRowChanges
<1> QED
  BY <1>1, <1>2, <1>3, <1>4 DEF CallbackStep, PaymentStep

LEMMA KeeperLawful ==
  ASSUME IInv, KeeperStep \/ (\E l \in {"unverifiedDestroy", "disabledDestroy"} : StartSweep(l))
  PROVE  OneRowChanges
<1>1. CASE NextLoop \/ \E l \in {"unverifiedDestroy", "disabledDestroy"} : StartSweep(l)
  BY <1>1 DEF NextLoop, StartSweep, OneRowChanges
<1>2. ASSUME NEW i \in Id, KeeperKeeps(i) \/ KeeperRaises(i) PROVE OneRowChanges
  BY <1>2 DEF KeeperKeeps, KeeperRaises, OneRowChanges
<1>3. ASSUME NEW i \in Id, KeeperDestroys(i) PROVE OneRowChanges
  BY <1>3, GoneLawful DEF KeeperDestroys
<1>4. ASSUME NEW i \in Id, KeeperDeactivates(i) PROVE OneRowChanges
  <2> DEFINE r == [rows[i] EXCEPT !.active = FALSE]
  <2>1. rows[i] \in Row /\ Update(i, r)
    BY <1>4 DEF IInv, TypeOK, KeeperDeactivates
  <2>2. CASE ~Live(i)
    BY <2>1, <2>2 DEF Update, OneRowChanges, IInv, TypeOK
  <2>3. CASE Live(i)
    <3>1. r \in Row /\ r.state = "live" /\ r.method = rows[i].method /\ r.created = rows[i].created
      BY <2>1, <2>3 DEF Live, Row
    <3>2. (r.verified \/ r.recovered = "yes" => r.once) /\ (rows[i].once <=> r.once)
      BY <2>1, <2>3 DEF IInv, StampedWhenVerified, RecoveredWasVerified, Row
    <3> HIDE DEF r
    <3> QED
      BY <2>1, <3>1, <3>2, UpdateLawful
  <2> QED
    BY <2>2, <2>3
<1> QED
  BY <1>1, <1>2, <1>3, <1>4 DEF KeeperStep

LEMMA RowChange ==
  ASSUME IInv, [Next]_vars
  PROVE  OneRowChanges
<1>1. CASE Tick
  BY <1>1 DEF Tick, OneRowChanges
<1>2. CASE UNCHANGED vars
  BY <1>2 DEF vars, OneRowChanges
<1> QED
  BY <1>1, <1>2, WebLawful, WorkLawful, KeeperLawful DEF Next, Process

\* What is enough to know of the rows from one state to the next.
LEMMA RowsAfter ==
  ASSUME IInv, OneRowChanges
  PROVE  /\ rows' \in [Id -> Row]
         /\ StampedWhenVerified' /\ RecoveredWasVerified'
         /\ \A i \in Id : rows[i].state # "unborn" => rows'[i].state # "unborn"
         /\ \A i \in Id : rows[i].state # "unborn" /\ Live(i)' =>
               /\ Live(i) /\ rows'[i].method = rows[i].method /\ rows'[i].created = rows[i].created
               /\ rows[i].once => rows'[i].once
<1> USE DEF IInv, TypeOK, Live, StampedWhenVerified, RecoveredWasVerified
<1>1. CASE rows' = rows
  BY <1>1
<1>2. ASSUME NEW i \in Id, NEW r \in Row, rows' = [rows EXCEPT ![i] = r], Lawful(rows[i], r)
      PROVE  /\ rows' \in [Id -> Row]
             /\ StampedWhenVerified' /\ RecoveredWasVerified'
             /\ \A j \in Id : rows[j].state # "unborn" => rows'[j].state # "unborn"
             /\ \A j \in Id : rows[j].state # "unborn" /\ Live(j)' =>
                   /\ Live(j) /\ rows'[j].method = rows[j].method /\ rows'[j].created = rows[j].created
                   /\ rows[j].once => rows'[j].once
  BY <1>2 DEF Lawful, Row
<1> QED
  BY <1>1, <1>2 DEF OneRowChanges

-----------------------------------------------------------------------------
(* The inductive invariant.                                                *)

LEMMA Frames ==
  /\ \A i \in Id : WebStep(i) => UNCHANGED <<now, work, keeper>>
  /\ \A p \in Process : CallbackStep(p) \/ PaymentStep(p) => UNCHANGED <<now, keeper>>
  /\ KeeperStep => UNCHANGED <<now, work>>
  /\ \A l : StartSweep(l) => UNCHANGED <<now, rows, work>>
<1>1. \A i \in Id : WebStep(i) => UNCHANGED <<now, work, keeper>>
  BY DEF WebStep, SignUp, SocialSignUp, OperatorCreate, Insert, Login, DisableAccount,
     AdditionalFields, SocialLogin, AskRecovery, OperatorUpdate, OperatorDestroy, Request
<1>2. \A p \in Process : CallbackStep(p) \/ PaymentStep(p) => UNCHANGED <<now, keeper>>
  BY DEF CallbackStep, CallbackLoad, CallbackVerify, CallbackRecover, CallbackDies,
     PaymentStep, PaymentLoad, PaymentAccepted, PaymentRefused
<1>3. KeeperStep => UNCHANGED <<now, work>>
  BY DEF KeeperStep, NextLoop, KeeperKeeps, KeeperRaises, KeeperDestroys, KeeperDeactivates
<1> QED
  BY <1>1, <1>2, <1>3 DEF StartSweep

Work == [at : {"idle", "verify", "recover", "pay"}, id : Id, copy : Row]

Sweep == [job : {"none", "unverifiedDestroy", "unverifiedDeactivate",
                 "disabledDestroy", "disabledDeactivate"},
          left : SUBSET Id, copies : [Id -> Row]]

LEMMA WorkType ==
  ASSUME TypeOK, NEW p \in Process, CallbackStep(p) \/ PaymentStep(p)
  PROVE  work' \in [Process -> Work]
<1> USE DEF TypeOK, Work
<1>1. Idle \in Work
  BY NoRowType, BoundAssumption DEF Idle, Id
<1>2. CASE CallbackStep(p)
  BY <1>1, <1>2, CopyType DEF CallbackStep, CallbackLoad, CallbackVerify, CallbackRecover, CallbackDies, Goto, Finish
<1>3. CASE PaymentStep(p)
  BY <1>1, <1>3, CopyType DEF PaymentStep, PaymentLoad, PaymentAccepted, PaymentRefused, Finish
<1> QED
  BY <1>2, <1>3

LEMMA SweepType ==
  ASSUME TypeOK, KeeperStep \/ \E l \in {"unverifiedDestroy", "disabledDestroy"} : StartSweep(l)
  PROVE  keeper' \in Sweep /\ (keeper'.job = "none" => keeper'.left = {})
<1> USE NoRowType DEF TypeOK, Sweep
<1>1. NoJob \in Sweep /\ NoJob.left = {}
  BY DEF NoJob
<1>2. ASSUME NEW l, Load(l),
             l \in {"unverifiedDestroy", "unverifiedDeactivate", "disabledDestroy", "disabledDeactivate"}
      PROVE  keeper' \in Sweep /\ keeper'.job # "none"
  BY <1>2, CopyType DEF Load
<1>3. ASSUME NEW i \in Id, Current(i), Skip(i)
      PROVE  keeper' \in Sweep /\ keeper'.job # "none"
  BY <1>3 DEF Skip, Current
<1>4. CASE NextLoop
  BY <1>1, <1>2, <1>4 DEF NextLoop, Second
<1>5. ASSUME NEW i \in Id, KeeperKeeps(i) \/ KeeperDestroys(i) \/ KeeperDeactivates(i)
      PROVE  keeper' \in Sweep /\ keeper'.job # "none"
  BY <1>3, <1>5 DEF KeeperKeeps, KeeperDestroys, KeeperDeactivates
<1>6. CASE \E i \in Id : KeeperRaises(i)
  BY <1>1, <1>6 DEF KeeperRaises
<1>7. CASE \E l \in {"unverifiedDestroy", "disabledDestroy"} : StartSweep(l)
  BY <1>2, <1>7 DEF StartSweep
<1> HIDE DEF Sweep
<1> QED
  BY <1>4, <1>5, <1>6, <1>7 DEF KeeperStep

LEMMA TypeStep == IInv /\ [Next]_vars => TypeOK'
<1> SUFFICES ASSUME IInv, [Next]_vars PROVE TypeOK'
  OBVIOUS
<1> USE DEF IInv, TypeOK, Work, Sweep
<1>1. rows' \in [Id -> Row]
  BY RowChange, RowsAfter
<1>2. CASE Tick
  BY <1>1, <1>2, BoundAssumption DEF Tick, Time
<1>3. CASE UNCHANGED vars \/ \E i \in Id : WebStep(i)
  BY <1>1, <1>3, Frames DEF vars
<1>4. ASSUME NEW p \in Process, CallbackStep(p) \/ PaymentStep(p) PROVE TypeOK'
  BY <1>1, <1>4, Frames, WorkType
<1>5. CASE KeeperStep \/ \E l \in {"unverifiedDestroy", "disabledDestroy"} : StartSweep(l)
  BY <1>1, <1>5, Frames, SweepType
<1> QED
  BY <1>2, <1>3, <1>4, <1>5 DEF Next, Process

LEMMA CopiesStep == IInv /\ [Next]_vars => CopiesBehind'
<1> SUFFICES ASSUME IInv, [Next]_vars, NEW p \in Process, NEW i \in Id,
                    work'[p].at # "idle", work'[p].id = i
             PROVE  /\ rows'[i].state # "unborn"
                    /\ Live(i)' /\ (work'[p].copy.once \/ work'[p].at = "recover") => rows'[i].once
  BY DEF CopiesBehind
<1> USE DEF IInv, TypeOK
<1>0. OneRowChanges
  BY RowChange
<1>1. CASE work'[p] = work[p]
  BY <1>0, <1>1, RowsAfter DEF CopiesBehind
<1>2. ASSUME CallbackLoad(p, i) \/ PaymentLoad(p, i), work'[p].copy.once = rows[i].once, rows' = rows, Live(i),
             work'[p].at = "recover" => rows[i].verified
      PROVE  /\ rows'[i].state # "unborn"
             /\ Live(i)' /\ (work'[p].copy.once \/ work'[p].at = "recover") => rows'[i].once
  BY <1>2 DEF Live, StampedWhenVerified
<1>3. CASE CallbackVerify(p)
  <2>1. work[p].id = i /\ work'[p].copy = work[p].copy /\ work[p].at # "idle"
    BY <1>3 DEF CallbackVerify, Goto, Finish, Idle
  <2>2. rows[i] \in Row /\ work[p].copy.once \in BOOLEAN
    BY <2>1 DEF Row
  <2>3. Live(i) => rows'[i].once
    BY <1>3, <2>1, <2>2 DEF CallbackVerify, SaveVerified, Update, CopiesBehind, Row
  <2>4. rows'[i].state # "unborn" /\ (Live(i)' => Live(i))
    BY <1>0, <2>1, RowsAfter DEF CopiesBehind
  <2> QED
    BY <2>1, <2>3, <2>4
<1>4. \A q \in Process : (CallbackStep(q) \/ PaymentStep(q)) /\ q # p => work'[p] = work[p]
  BY DEF CallbackStep, CallbackLoad, CallbackVerify, CallbackRecover, CallbackDies,
     PaymentStep, PaymentLoad, PaymentAccepted, PaymentRefused, Goto, Finish
<1>5. CASE CallbackStep(p) \/ PaymentStep(p)
  <2>1. \/ CallbackVerify(p)
        \/ \E j \in Id : CallbackLoad(p, j) \/ PaymentLoad(p, j)
    BY <1>5 DEF CallbackStep, CallbackRecover, CallbackDies,
       PaymentStep, PaymentAccepted, PaymentRefused, Finish, Idle
  <2>2. ASSUME NEW j \in Id, CallbackLoad(p, j) \/ PaymentLoad(p, j)
        PROVE  /\ i = j /\ work'[p].copy.once = rows[i].once /\ rows' = rows /\ Live(i)
               /\ work'[p].at = "recover" => rows[i].verified
    BY <2>2, CopyType DEF CallbackLoad, PaymentLoad
  <2> QED
    BY <1>2, <1>3, <2>1, <2>2
<1>6. CASE work' = work
  BY <1>1, <1>6
<1>7. \/ work' = work
      \/ \E q \in Process : CallbackStep(q) \/ PaymentStep(q)
  BY Frames DEF Next, Tick, vars, Process
<1> QED
  BY <1>1, <1>4, <1>5, <1>6, <1>7

LEMMA SweepCopiesStep == IInv /\ [Next]_vars => SweepCopies'
<1> SUFFICES ASSUME IInv, [Next]_vars, NEW i \in keeper'.left
             PROVE  /\ rows'[i].state # "unborn"
                    /\ Live(i)' => /\ rows'[i].method = keeper'.copies[i].method
                                   /\ rows'[i].created = keeper'.copies[i].created
                    /\ keeper'.job \in {"unverifiedDestroy", "disabledDestroy"}
                         => ~Gestpay(keeper'.copies[i])
  BY DEF SweepCopies, Gestpay
<1> USE DEF IInv, TypeOK, Gestpay
<1>0. OneRowChanges /\ i \in Id
  BY RowChange, TypeStep
<1>1. CASE i \in keeper.left /\ keeper'.copies[i] = keeper.copies[i] /\ keeper'.job = keeper.job
  BY <1>0, <1>1, RowsAfter DEF SweepCopies
<1>2. ASSUME NEW l, Load(l), rows' = rows
      PROVE  /\ rows'[i].state # "unborn"
             /\ Live(i)' => /\ rows'[i].method = keeper'.copies[i].method
                            /\ rows'[i].created = keeper'.copies[i].created
             /\ keeper'.job \in {"unverifiedDestroy", "disabledDestroy"}
                  => ~Gestpay(keeper'.copies[i])
  <2> DEFINE ids == {j \in Id : InScope(rows[j], l)}
  <2>1. i \in ids /\ keeper'.copies[i] = Found(rows[i]) /\ keeper'.job = l
    BY <1>0, <1>2 DEF Load
  <2> QED
    BY <1>0, <1>2, <2>1, CopyType DEF InScope
<1>3. CASE NextLoop \/ \E l \in {"unverifiedDestroy", "disabledDestroy"} : StartSweep(l)
  BY <1>2, <1>3 DEF NextLoop, StartSweep, NoJob
<1>4. ASSUME NEW j \in Id, KeeperKeeps(j) \/ KeeperDestroys(j) \/ KeeperDeactivates(j)
      PROVE  i \in keeper.left /\ keeper'.copies[i] = keeper.copies[i] /\ keeper'.job = keeper.job
  BY <1>0, <1>4 DEF KeeperKeeps, KeeperDestroys, KeeperDeactivates, Skip
<1>5. CASE \E j \in Id : KeeperRaises(j)
  BY <1>5 DEF KeeperRaises, NoJob
<1>6. CASE keeper' = keeper
  BY <1>1, <1>6
<1>7. \/ keeper' = keeper \/ KeeperStep
      \/ \E l \in {"unverifiedDestroy", "disabledDestroy"} : StartSweep(l)
  BY Frames DEF Next, Tick, vars, Process
<1> QED
  BY <1>1, <1>3, <1>4, <1>5, <1>6, <1>7 DEF KeeperStep

LEMMA Invariance == Spec => []IInv
<1>1. Init => IInv
  <2> SUFFICES ASSUME Init PROVE IInv
    OBVIOUS
  <2>1. TypeOK
    BY NoRowType, BoundAssumption DEF Init, TypeOK, Idle, NoJob, Id, Time
  <2>2. StampedWhenVerified /\ RecoveredWasVerified
    BY DEF Init, StampedWhenVerified, RecoveredWasVerified, Live, NoRow
  <2>3. CopiesBehind /\ SweepCopies
    BY DEF Init, CopiesBehind, SweepCopies, Idle, NoJob
  <2> QED
    BY <2>1, <2>2, <2>3 DEF IInv
<1>2. IInv /\ [Next]_vars => IInv'
  BY TypeStep, CopiesStep, SweepCopiesStep, RowChange, RowsAfter DEF IInv
<1> QED
  BY <1>1, <1>2, PTL DEF Spec

\* Type correctness of the accounts, the copies and the sweeps.
THEOREM TypeCorrect == Spec => []TypeOK
BY Invariance, PTL DEF IInv

\* An account in use has a date since when it was verified.
THEOREM VerifiedAreStamped == Spec => []StampedWhenVerified
BY Invariance, PTL DEF IInv

\* Only the password of an account verified before is ever recovered by a call.
THEOREM RecoveredWereVerified == Spec => []RecoveredWasVerified
BY Invariance, PTL DEF IInv

-----------------------------------------------------------------------------
(* The life of an account.                                                 *)

LEMMA StatusStep ==
  ASSUME IInv, [Next]_vars
  PROVE  [Accounts!Next]_([i \in Id |-> StatusOf(rows[i])])
<1> DEFINE st == [i \in Id |-> StatusOf(rows[i])]
<1> DEFINE Moves(i, from, to) == st[i] \in from /\ st' = [st EXCEPT ![i] = to]
<1>1. ASSUME NEW i \in Id, \/ Moves(i, {"unborn"}, "pending") \/ Moves(i, {"unborn"}, "enabled")
                           \/ Moves(i, {"pending", "disabled"}, "enabled")
                           \/ Moves(i, {"enabled"}, "disabled")
                           \/ Moves(i, {"pending", "enabled", "disabled"}, "gone")
      PROVE  Accounts!Next
  BY <1>1 DEF Accounts!Next, Accounts!Register, Accounts!Enable, Accounts!Disable,
              Accounts!Remove, Accounts!Move
<1>2. CASE rows' = rows
  BY <1>2
<1>3. ASSUME NEW i \in Id, NEW r \in Row, rows' = [rows EXCEPT ![i] = r], Lawful(rows[i], r)
      PROVE  Accounts!Next \/ st' = st
  <2>1. rows \in [Id -> Row] /\ rows[i] \in Row
    BY DEF IInv, TypeOK
  <2>2. st' = [st EXCEPT ![i] = StatusOf(r)] /\ st[i] = StatusOf(rows[i])
    BY <1>3, <2>1
  <2>3. StatusOf(r) = st[i] => st' = st
    <3>1. st = [j \in Id |-> st[j]]
      OBVIOUS
    <3> HIDE DEF st
    <3> QED
      BY <2>2, <3>1
  <2> HIDE DEF st
  <2>4. CASE rows[i].state = "unborn"
    <3>1. st[i] = "unborn" /\ StatusOf(r) \in {"pending", "enabled"}
      BY <1>3, <2>2, <2>4 DEF StatusOf, Lawful
    <3> QED
      BY <1>1, <2>2, <2>3, <3>1
  <2>5. CASE rows[i].state = "gone"
    <3>1. st[i] = "gone" /\ StatusOf(r) = "gone"
      BY <1>3, <2>2, <2>5 DEF StatusOf, Lawful
    <3> QED
      BY <2>3, <3>1
  <2>6. CASE rows[i].state = "live"
    <3>1. st[i] \in {"pending", "enabled", "disabled"}
      BY <2>2, <2>6 DEF StatusOf
    <3>2. CASE r.state = "gone"
      <4>1. StatusOf(r) = "gone"
        BY <3>2 DEF StatusOf
      <4> QED
        BY <1>1, <2>2, <3>1, <4>1
    <3>3. CASE r.state = "live"
      <4>1. StatusOf(r) = "pending" => st[i] = "pending"
        BY <1>3, <2>1, <2>2, <2>6, <3>3 DEF StatusOf, Lawful, IInv, StampedWhenVerified, Live, Row
      <4>2. StatusOf(r) = "disabled" => st[i] \in {"enabled", "disabled"}
        BY <1>3, <2>1, <2>2, <2>6, <3>3 DEF StatusOf, Lawful, Row
      <4>3. StatusOf(r) \in {"pending", "enabled", "disabled"}
        BY <3>3 DEF StatusOf
      <4> QED
        BY <1>1, <2>2, <2>3, <3>1, <4>1, <4>2, <4>3
    <3> QED
      BY <1>3, <2>6, <3>2, <3>3 DEF Lawful, Row
  <2> QED
    BY <2>1, <2>4, <2>5, <2>6 DEF Row
<1> QED
  BY <1>2, <1>3, RowChange DEF OneRowChanges

\* However the processes interleave and however old their copies are, an
\* account lives as AccountStates says.
THEOREM LifeOfAnAccount == Spec => ImplementsAccountStates
<1>1. Init => Accounts!Init
  BY DEF Init, Accounts!Init, StatusOf, NoRow
<1>2. IInv /\ [Next]_vars => [Accounts!Next]_([i \in Id |-> StatusOf(rows[i])])
  BY StatusStep
<1> QED
  BY <1>1, <1>2, Invariance, PTL DEF Spec, Accounts!Spec, ImplementsAccountStates

-----------------------------------------------------------------------------
(* The house keeper.                                                       *)

\* A step of the house keeper that removes an account comes to it in a loop
\* that destroys, with a copy whose constant columns are the row's.
LEMMA RemovalStep ==
  ASSUME IInv, [Next]_vars, NEW i \in Id, Live(i), rows'[i].state = "gone", KeeperActs
  PROVE  /\ ~Gestpay(rows[i])
         /\ keeper.job = "unverifiedDestroy" => rows[i].created + VerificationTimeout <= now
<1> USE DEF IInv, TypeOK, Live
<1>1. KeeperStep \/ \E l \in {"unverifiedDestroy", "disabledDestroy"} : StartSweep(l)
  BY Frames DEF Next, Tick, vars, Process, KeeperActs
<1>2. rows' # rows
  OBVIOUS
<1>3. PICK j \in Id : KeeperDestroys(j) \/ KeeperDeactivates(j)
  BY <1>1, <1>2 DEF KeeperStep, NextLoop, KeeperKeeps, KeeperRaises, StartSweep
<1>4. KeeperDestroys(i)
  <2>1. CASE KeeperDestroys(j)
    <3>1. rows' = [rows EXCEPT ![j] = IF Live(j) THEN GoneRow ELSE @]
      BY <2>1 DEF KeeperDestroys
    <3>2. j = i
      BY <3>1
    <3> QED
      BY <2>1, <3>2
  <2>2. CASE KeeperDeactivates(j)
    <3> DEFINE off == [rows[j] EXCEPT !.active = FALSE]
               after == [off EXCEPT !.updated = now]
    <3>1. rows'[i] \in {rows[i], after} /\ (rows'[i] = after => rows'[i] = rows[i] \/ i = j)
      BY <2>2 DEF KeeperDeactivates, Update
    <3>2. off \in Row /\ off.state = rows[j].state
      <4>1. rows[j] \in Row
        OBVIOUS
      <4> QED
        BY <4>1 DEF Row
    <3>3. after.state = off.state
      <4> HIDE DEF off
      <4> QED
        BY <3>2 DEF Row
    <3> QED
      BY <3>1, <3>2, <3>3
  <2> QED
    BY <1>3, <2>1, <2>2
<1>5. i \in keeper.left /\ keeper.job \in {"unverifiedDestroy", "disabledDestroy"}
      /\ Expired(keeper.copies[i])
  BY <1>4 DEF KeeperDestroys, Current
<1> QED
  BY <1>5 DEF SweepCopies, Gestpay, Expired, Unverified

\* However old its copies are, the house keeper never removes a credit card
\* account, and an account it removes as unverified has had its time.
THEOREM RemovalsJustified == Spec => KeeperRemovals
<1>1. IInv /\ [Next]_vars =>
        [\A i \in Id :
           Live(i) /\ rows'[i].state = "gone" /\ KeeperActs
             => /\ ~Gestpay(rows[i])
                /\ keeper.job = "unverifiedDestroy" => rows[i].created + VerificationTimeout <= now]_vars
  BY RemovalStep
<1> QED
  BY <1>1, Invariance, PTL DEF Spec, KeeperRemovals
=============================================================================
