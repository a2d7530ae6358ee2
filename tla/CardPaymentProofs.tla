-------------------------- MODULE CardPaymentProofs --------------------------
(***************************************************************************)
(* What holds of the card payments for any number of accounts, requests    *)
(* and transactions, and any limits.  Two arguments: a request past the    *)
(* bank works on a transaction of its own user (Owned), which the bank has *)
(* accepted once the request saves the account (AcceptedBefore), and what  *)
(* an account or an invoice in the making names was not refused; and the   *)
(* transactions counted, with the requests that may still record one,      *)
(* never reach a limit plus the number of requests (Budget).               *)
(***************************************************************************)
EXTENDS CardPayment, FiniteSetTheorems, TLAPS

\* The second request of a payment never comes to the record of transactions.
SecondLeg ==
  \A p \in Request : req[p].leg = 2 => req[p].at \in {"confirm", "save", "invoice", "bill", "notify"}

\* The bank has accepted, or asks for the password of the card.
Passed(t) == bank[t].answer \in {"accepted", "vbv"}

\* What the bank was asked for and the card data that were saved, or are on
\* their way to an invoice, belong together.
Owned ==
  /\ \A p \in Request : req[p].tx \in Tx => Asked(req[p].tx) /\ bank[req[p].tx].user = req[p].user
  /\ \A u \in Account : users[u].info \in Tx => Passed(users[u].info) /\ bank[users[u].info].user = u
  /\ \A p \in Request : req[p].at = "bill" =>
       req[p].bill \in Tx /\ Passed(req[p].bill) /\ bank[req[p].bill].user = req[p].user

AcceptedBefore ==
  /\ \A p \in Request :
       req[p].at \in {"save", "invoice", "bill", "notify"} => bank[req[p].tx].answer = "accepted"
  /\ \A p \in Request : req[p].at = "open" => Passed(req[p].tx)

\* The requests that may still record a transaction, for each account and
\* each address.
InFlight == {p \in Request : req[p].at # "idle" /\ req[p].leg = 1}

ByUser(u) == {p \in InFlight : req[p].user = u}

ByIp(ip) == {p \in InFlight : req[p].ip = ip}

Budget ==
  /\ IsFiniteSet(transactions)
  /\ Cardinality(transactions) + Cardinality(InFlight) < YearlyLimit + Cardinality(Request)
  /\ \A u \in Account :
       Cardinality(OfUser(u)) + Cardinality(ByUser(u)) < DailyLimit + Cardinality(Request)
  /\ \A ip \in Ip :
       Cardinality(OfIp(ip, day)) + Cardinality(ByIp(ip)) < DailyLimit + Cardinality(Request)
  /\ \A ip \in Ip : \A d \in Day : Cardinality(OfIp(ip, d)) < DailyLimit + Cardinality(Request)
  /\ \A r \in transactions : r.day <= day

IInv ==
  /\ TypeOK /\ SecondLeg /\ Owned /\ AcceptedBefore /\ Budget
  /\ VerifiedHavePaid /\ InvoicesArePaid

-----------------------------------------------------------------------------
(* Types.                                                                  *)

ReqType == [at : {"idle", "ask", "refused", "save", "invoice", "bill", "notify", "open", "login",
                  "confirm", "validate", "insert"},
            leg : {1, 2}, user : Account, ip : Ip, tx : Tx \cup {NoTx},
            copy : BOOLEAN, bill : Tx \cup {NoTx}]

LEMMA IdleType == Idle \in ReqType /\ Idle.at = "idle" /\ Idle.leg = 1 /\ Idle.tx = NoTx
  BY SetAssumption DEF Idle, ReqType

LEMMA NoTxFact == NoTx \notin Tx
  BY BoundAssumption DEF NoTx, Tx

\* The requests stay well typed.
LEMMA ReqStep ==
  ASSUME TypeOK, NEW p \in Request,
         \/ \E u \in Account : Return(p, u) \/ \E ip \in Ip : Start(p, u, ip)
         \/ Proceed(p)
  PROVE  req' \in [Request -> ReqType]
<1>0. req \in [Request -> ReqType]
  BY DEF TypeOK, ReqType
<1>1. req[p] \in ReqType
  BY <1>0
<1> USE IdleType
<1>2. ASSUME NEW at \in {"idle", "ask", "refused", "save", "invoice", "bill", "notify", "open", "login",
                         "confirm", "validate", "insert"}, Goto(p, at)
      PROVE  req' \in [Request -> ReqType]
  BY <1>0, <1>1, <1>2 DEF Goto, ReqType
<1>3. CASE Finish(p)
  BY <1>0, <1>3 DEF Finish
<1>6. CASE Bill(p, users[req[p].user].info)
  <2>1. users[req[p].user].info \in Tx \cup {NoTx}
    BY <1>1 DEF ReqType, TypeOK
  <2> QED
    BY <1>0, <1>1, <1>6, <2>1 DEF Bill, ReqType
<1>4. ASSUME NEW u \in Account, Return(p, u)
      PROVE  req' \in [Request -> ReqType]
  <2>1. [Idle EXCEPT !.at = "confirm", !.leg = 2, !.user = u, !.tx = users[u].info,
                     !.copy = users[u].verified] \in ReqType
    BY DEF ReqType, TypeOK
  <2> QED
    BY <1>0, <1>4, <2>1 DEF Return
<1>8. ASSUME NEW u \in Account, NEW ip \in Ip, Start(p, u, ip)
      PROVE  req' \in [Request -> ReqType]
  <2>1. [Idle EXCEPT !.at = "ask", !.user = u, !.ip = ip, !.copy = users[u].verified] \in ReqType
    BY DEF ReqType, TypeOK
  <2> QED
    BY <1>0, <1>8, <2>1 DEF Start
<1>5. ASSUME NEW t \in Tx, NEW answer \in {"accepted", "refused", "vbv"}, Ask(p, t, answer)
      PROVE  req' \in [Request -> ReqType]
  <2>1. After[answer] \in {"save", "open", "refused"}
    BY DEF After
  <2> QED
    BY <1>0, <1>1, <1>5, <2>1 DEF Ask, ReqType
<1>7. CASE \/ SaveVerified(p) \/ ValidateInvoice(p) \/ MakeInvoice(p) \/ Notify(p) \/ Open(p) \/ Close(p)
           \/ \E answer \in {"accepted", "refused"} : Confirm(p, answer)
           \/ Validate(p) \/ Record(p) \/ Raise(p)
  BY <1>2, <1>3, <1>6, <1>7 DEF SaveVerified, ValidateInvoice, MakeInvoice, Notify, Open, Close, Confirm, Validate, Record,
                          Raise
<1> QED
  BY <1>4, <1>5, <1>7, <1>8 DEF Proceed

\* What a request looks like after the two usual ends of an action.
LEMMA GotoFact ==
  ASSUME TypeOK, NEW p \in Request, NEW at, Goto(p, at)
  PROVE  /\ \A q \in Request : q # p => req'[q] = req[q]
         /\ req'[p].at = at
         /\ req'[p].leg = req[p].leg /\ req'[p].user = req[p].user
         /\ req'[p].ip = req[p].ip /\ req'[p].tx = req[p].tx
         /\ req'[p].bill = req[p].bill
  BY DEF Goto, TypeOK

LEMMA BillFact ==
  ASSUME TypeOK, NEW p \in Request, NEW t, Bill(p, t)
  PROVE  /\ \A q \in Request : q # p => req'[q] = req[q]
         /\ req'[p].at = "bill" /\ req'[p].bill = t
         /\ req'[p].leg = req[p].leg /\ req'[p].user = req[p].user
         /\ req'[p].ip = req[p].ip /\ req'[p].tx = req[p].tx
  BY DEF Bill, TypeOK

LEMMA FinishFact ==
  ASSUME TypeOK, NEW p \in Request, Finish(p)
  PROVE  /\ \A q \in Request : q # p => req'[q] = req[q]
         /\ req'[p].at = "idle" /\ req'[p].leg = 1 /\ req'[p].tx = NoTx
  BY IdleType DEF Finish, TypeOK

LEMMA StartFact ==
  ASSUME TypeOK, NEW p \in Request, NEW u \in Account, NEW ip \in Ip, Start(p, u, ip)
  PROVE  /\ \A q \in Request : q # p => req'[q] = req[q]
         /\ req'[p].at = "ask" /\ req'[p].leg = 1 /\ req'[p].tx = NoTx
         /\ req'[p].user = u /\ req'[p].ip = ip
<1>1. Idle \in ReqType /\ Idle.leg = 1 /\ Idle.tx = NoTx
  BY IdleType
<1> DEFINE r == [Idle EXCEPT !.at = "ask", !.user = u, !.ip = ip, !.copy = users[u].verified]
<1>2. r.at = "ask" /\ r.leg = 1 /\ r.user = u /\ r.ip = ip /\ r.tx = NoTx
  BY <1>1 DEF ReqType
<1>3. req' = [req EXCEPT ![p] = r]
  BY DEF Start
<1> HIDE DEF r
<1> QED
  BY <1>2, <1>3 DEF TypeOK

LEMMA ReturnFact ==
  ASSUME TypeOK, NEW p \in Request, NEW u \in Account, Return(p, u)
  PROVE  /\ \A q \in Request : q # p => req'[q] = req[q]
         /\ req'[p].at = "confirm" /\ req'[p].leg = 2 /\ req'[p].user = u
         /\ req'[p].tx = users[u].info /\ req'[p].tx \in Tx
<1>1. Idle \in ReqType
  BY IdleType
<1> DEFINE r == [Idle EXCEPT !.at = "confirm", !.leg = 2, !.user = u, !.tx = users[u].info,
                             !.copy = users[u].verified]
<1>2. r.at = "confirm" /\ r.leg = 2 /\ r.user = u /\ r.tx = users[u].info
  BY <1>1 DEF ReqType
<1>3. req' = [req EXCEPT ![p] = r]
  BY DEF Return
<1>4. users[u].info \in Tx
  BY DEF Return, TypeOK
<1> HIDE DEF r
<1> QED
  BY <1>2, <1>3, <1>4 DEF TypeOK

LEMMA AskFact ==
  ASSUME TypeOK, NEW p \in Request, NEW t \in Tx, NEW answer \in {"accepted", "refused", "vbv"},
         Ask(p, t, answer)
  PROVE  /\ \A q \in Request : q # p => req'[q] = req[q]
         /\ req'[p].at = After[answer] /\ req'[p].leg = req[p].leg
         /\ req'[p].user = req[p].user /\ req'[p].ip = req[p].ip /\ req'[p].tx = t
         /\ After[answer] \in {"save", "open", "refused"}
         /\ After[answer] = "save" => answer = "accepted"
<1>1. After[answer] \in {"save", "open", "refused"} /\ (After[answer] = "save" => answer = "accepted")
  BY DEF After
<1> QED
  BY <1>1 DEF Ask, TypeOK

-----------------------------------------------------------------------------
(* The bank never takes an acceptance back, nor gives a transaction to     *)
(* another account.                                                        *)

LEMMA BankStep ==
  ASSUME TypeOK, [Next]_vars, NEW t \in Tx, Asked(t)
  PROVE  /\ Asked(t)' /\ bank'[t].user = bank[t].user
         /\ bank[t].answer = "accepted" => bank'[t].answer = "accepted"
         /\ Passed(t) => Passed(t)'
<1> USE DEF Passed
<1>1. CASE UNCHANGED bank
  BY <1>1 DEF Asked
<1>2. ASSUME NEW p \in Request, NEW s \in Tx, NEW answer \in {"accepted", "refused", "vbv"},
             Ask(p, s, answer)
      PROVE  UNCHANGED bank[t]
  BY <1>2 DEF Ask, Asked, TypeOK
<1>3. ASSUME NEW p \in Request, NEW answer \in {"accepted", "refused"}, Confirm(p, answer)
      PROVE  /\ Asked(t)' /\ bank'[t].user = bank[t].user
             /\ bank[t].answer = "accepted" => bank'[t].answer = "accepted"
             /\ Passed(t) => Passed(t)'
  <2>1. \/ UNCHANGED bank
        \/ bank' = [bank EXCEPT ![req[p].tx].answer = "accepted"]
    BY <1>3 DEF Confirm
  <2>2. bank[t] \in [user : Account, answer : {"none", "accepted", "refused", "vbv"}]
    BY DEF TypeOK
  <2>3. CASE bank' = [bank EXCEPT ![req[p].tx].answer = "accepted"]
    <3>1. bank'[t] = IF t = req[p].tx THEN [bank[t] EXCEPT !.answer = "accepted"] ELSE bank[t]
      BY <2>3 DEF TypeOK
    <3> QED
      BY <2>2, <3>1 DEF Asked
  <2> QED
    BY <2>1, <2>3 DEF Asked
<1> QED
  BY <1>1, <1>2, <1>3 DEF Next, Proceed, vars, Start, Return, SaveVerified, ValidateInvoice, MakeInvoice, Notify, Open,
                          Close, Record, Validate, Raise, Disable,
                          AdditionalFields, NextDay, Asked

LEMMA AcceptedStays ==
  ASSUME TypeOK, [Next]_vars, NEW u \in Account, Accepted(u)
  PROVE  Accepted(u)'
<1>1. PICK t \in Tx : bank[t].user = u /\ bank[t].answer = "accepted"
  BY DEF Accepted
<1>2. Asked(t)
  BY <1>1 DEF Asked
<1> QED
  BY <1>1, <1>2, BankStep DEF Accepted

-----------------------------------------------------------------------------
(* The requests: what their steps leave true of them.                      *)

\* Each step is one request's, from idle or later, or none's.
LEMMA WhoSteps ==
  ASSUME [Next]_vars
  PROVE  \/ \E p \in Request :
              \/ \E u \in Account : \E ip \in Ip : Start(p, u, ip)
              \/ \E u \in Account : Return(p, u)
              \/ Proceed(p)
         \/ UNCHANGED <<transactions, invoices, bank, req>>
  BY DEF Next, Disable, AdditionalFields, NextDay, vars

LEMMA TxStep ==
  ASSUME IInv, [Next]_vars, NEW q \in Request, req'[q].at \notin {"idle", "ask"}
  PROVE  req'[q].tx \in Tx
<1> USE DEF IInv
<1>1. req[q].at \notin {"idle", "ask"} => req[q].tx \in Tx
  BY DEF TypeOK
<1>2. CASE UNCHANGED req
  BY <1>1, <1>2
<1>3. ASSUME NEW p \in Request, NEW u \in Account, NEW ip \in Ip, Start(p, u, ip) \/ Return(p, u)
      PROVE  req'[q].tx \in Tx
  BY <1>1, <1>3, StartFact, ReturnFact
<1>4. ASSUME NEW p \in Request, NEW t \in Tx, NEW answer \in {"accepted", "refused", "vbv"},
             Ask(p, t, answer)
      PROVE  req'[q].tx \in Tx
  BY <1>1, <1>4, AskFact
<1>5. ASSUME NEW p \in Request, Finish(p)
      PROVE  req'[q].tx \in Tx
  BY <1>1, <1>5, FinishFact
<1>6. ASSUME NEW p \in Request, NEW at, Goto(p, at), req[p].at \notin {"idle", "ask"}
      PROVE  req'[q].tx \in Tx
  <2>1. req[p].tx \in Tx
    BY <1>6 DEF TypeOK
  <2> QED
    BY <1>1, <1>6, <2>1, GotoFact
<1>7. ASSUME NEW p \in Request, NEW t, Bill(p, t), req[p].at = "invoice"
      PROVE  req'[q].tx \in Tx
  <2>1. req[p].tx \in Tx
    BY <1>7 DEF TypeOK
  <2> QED
    BY <1>1, <1>7, <2>1, BillFact
<1>8. ASSUME NEW p \in Request,
             \/ SaveVerified(p) \/ ValidateInvoice(p) \/ MakeInvoice(p) \/ Notify(p) \/ Open(p) \/ Close(p)
             \/ \E answer \in {"accepted", "refused"} : Confirm(p, answer)
             \/ Validate(p) \/ Record(p) \/ Raise(p)
      PROVE  req'[q].tx \in Tx
  BY <1>5, <1>6, <1>7, <1>8 DEF SaveVerified, ValidateInvoice, MakeInvoice, Notify, Open, Close, Confirm, Validate, Record, Raise
<1>9. Ip # {}
  BY SetAssumption
<1> QED
  BY <1>2, <1>3, <1>4, <1>8, <1>9, WhoSteps DEF Proceed

LEMMA SecondLegStep ==
  ASSUME IInv, [Next]_vars
  PROVE  SecondLeg'
<1> USE DEF IInv
<1> SUFFICES ASSUME NEW q \in Request, req'[q].leg = 2
             PROVE  req'[q].at \in {"confirm", "save", "invoice", "bill", "notify"}
  BY DEF SecondLeg
<1>1. req[q].leg = 2 => req[q].at \in {"confirm", "save", "invoice", "bill", "notify"}
  BY DEF SecondLeg
<1>2. CASE UNCHANGED req
  BY <1>1, <1>2
<1>3. ASSUME NEW p \in Request, NEW u \in Account, NEW ip \in Ip, Start(p, u, ip) \/ Return(p, u)
      PROVE  req'[q].at \in {"confirm", "save", "invoice", "bill", "notify"}
  BY <1>1, <1>3, StartFact, ReturnFact
<1>4. ASSUME NEW p \in Request, NEW t \in Tx, NEW answer \in {"accepted", "refused", "vbv"},
             Ask(p, t, answer)
      PROVE  req'[q].at \in {"confirm", "save", "invoice", "bill", "notify"}
  BY <1>1, <1>4, AskFact DEF Ask
<1>5. ASSUME NEW p \in Request, Finish(p)
      PROVE  req'[q].at \in {"confirm", "save", "invoice", "bill", "notify"}
  BY <1>1, <1>5, FinishFact
<1>6. ASSUME NEW p \in Request, NEW at, Goto(p, at),
             req[p].leg = 2 => at \in {"save", "invoice", "bill", "notify"}
      PROVE  req'[q].at \in {"confirm", "save", "invoice", "bill", "notify"}
  BY <1>1, <1>6, GotoFact
<1>7. ASSUME NEW p \in Request, NEW t, Bill(p, t)
      PROVE  req'[q].at \in {"confirm", "save", "invoice", "bill", "notify"}
  BY <1>1, <1>7, BillFact
<1>8. ASSUME NEW p \in Request,
             \/ SaveVerified(p) \/ ValidateInvoice(p) \/ MakeInvoice(p) \/ Notify(p) \/ Open(p) \/ Close(p)
             \/ \E answer \in {"accepted", "refused"} : Confirm(p, answer)
             \/ Validate(p) \/ Record(p) \/ Raise(p)
      PROVE  req'[q].at \in {"confirm", "save", "invoice", "bill", "notify"}
  <2>1. req[p].leg = 2 => req[p].at \in {"confirm", "save", "invoice", "bill", "notify"}
    BY DEF SecondLeg
  <2>2. req[p].leg \in {1, 2}
    BY DEF TypeOK
  <2> QED
    BY <1>5, <1>6, <1>7, <1>8, <2>1, <2>2 DEF SaveVerified, ValidateInvoice, MakeInvoice, Notify, Open, Close, Confirm,
                                        Validate, Record, Raise
<1>9. Ip # {}
  BY SetAssumption
<1> QED
  BY <1>2, <1>3, <1>4, <1>8, <1>9, WhoSteps DEF Proceed

LEMMA OwnedStep ==
  ASSUME IInv, [Next]_vars
  PROVE  Owned'
<1> USE DEF IInv
<1>1. \A t \in Tx : Asked(t) => bank'[t].answer # "none" /\ bank'[t].user = bank[t].user
  BY BankStep DEF Asked
<1>4. ASSUME NEW t \in Tx, NEW u, Passed(t), bank[t].user = u
      PROVE  Passed(t)' /\ bank'[t].user = u
  <2>1. Asked(t)
    BY <1>4 DEF Asked, Passed
  <2> QED
    BY <1>4, <2>1, BankStep
<1>2. ASSUME NEW q \in Request, req'[q].tx \in Tx
      PROVE  bank'[req'[q].tx].answer # "none" /\ bank'[req'[q].tx].user = req'[q].user
  <2> DEFINE Mine == bank'[req'[q].tx].answer # "none" /\ bank'[req'[q].tx].user = req'[q].user
  <2> SUFFICES Mine
    OBVIOUS
  <2>1. CASE req'[q].tx = req[q].tx /\ req'[q].user = req[q].user
    BY <1>1, <1>2, <2>1 DEF Owned, Asked
  <2>2. ASSUME NEW p \in Request, NEW u \in Account, NEW ip \in Ip, Start(p, u, ip)
        PROVE  Mine
    <3>1. CASE q = p
      BY <1>2, <2>2, <3>1, StartFact, NoTxFact
    <3>2. CASE q # p
      BY <2>1, <2>2, <3>2, StartFact
    <3> QED
      BY <3>1, <3>2
  <2>3. ASSUME NEW p \in Request, NEW u \in Account, Return(p, u)
        PROVE  Mine
    <3>1. CASE q = p
      BY <1>1, <2>3, <3>1, ReturnFact DEF Owned, Asked, Passed
    <3>2. CASE q # p
      BY <2>1, <2>3, <3>2, ReturnFact
    <3> QED
      BY <3>1, <3>2
  <2>4. ASSUME NEW p \in Request, NEW t \in Tx, NEW answer \in {"accepted", "refused", "vbv"},
               Ask(p, t, answer)
        PROVE  Mine
    <3>1. CASE q = p
      <4>1. bank'[t] = [user |-> req[p].user, answer |-> answer]
        BY <2>4 DEF Ask, TypeOK
      <4> QED
        BY <2>4, <3>1, <4>1, AskFact DEF Asked
    <3>2. CASE q # p
      BY <2>1, <2>4, <3>2, AskFact
    <3> QED
      BY <3>1, <3>2
  <2>5. ASSUME NEW p \in Request, Finish(p)
        PROVE  Mine
    <3>1. CASE q = p
      BY <1>2, <2>5, <3>1, FinishFact, NoTxFact
    <3>2. CASE q # p
      BY <2>1, <2>5, <3>2, FinishFact
    <3> QED
      BY <3>1, <3>2
  <2>6. ASSUME NEW p \in Request, NEW at, Goto(p, at)
        PROVE  Mine
    BY <2>1, <2>6, GotoFact
  <2>7. ASSUME NEW p \in Request, NEW t, Bill(p, t)
        PROVE  Mine
    BY <2>1, <2>7, BillFact
  <2>8. ASSUME NEW p \in Request,
               \/ SaveVerified(p) \/ ValidateInvoice(p) \/ MakeInvoice(p) \/ Notify(p) \/ Open(p) \/ Close(p)
               \/ \E answer \in {"accepted", "refused"} : Confirm(p, answer)
               \/ Validate(p) \/ Record(p) \/ Raise(p)
        PROVE  Mine
    BY <2>5, <2>6, <2>7, <2>8 DEF SaveVerified, ValidateInvoice, MakeInvoice, Notify, Open, Close, Confirm, Validate, Record, Raise
  <2>9. CASE UNCHANGED req
    BY <2>1, <2>9
  <2> HIDE DEF Mine
  <2> QED
    BY <2>2, <2>3, <2>4, <2>8, <2>9, WhoSteps DEF Proceed
<1>3. ASSUME NEW u \in Account, users'[u].info \in Tx
      PROVE  Passed(users[u].info)' /\ bank'[users'[u].info].user = u
  <2> DEFINE Mine == Passed(users[u].info)' /\ bank'[users'[u].info].user = u
  <2> SUFFICES Mine
    OBVIOUS
  <2>1. CASE users'[u].info = users[u].info
    <3>1. Passed(users[u].info) /\ bank[users[u].info].user = u
      BY <1>3, <2>1 DEF Owned
    <3> QED
      BY <1>3, <1>4, <2>1, <3>1 DEF Passed
  <2>2. ASSUME NEW p \in Request, SaveVerified(p) \/ Open(p), u = req[p].user
        PROVE  Mine
    <3>1. users'[u].info = req[p].tx /\ req[p].tx \in Tx
      BY <2>2 DEF SaveVerified, Open, VerifiedBy, TypeOK
    <3>2. Passed(req[p].tx) /\ bank[req[p].tx].user = u
      BY <2>2, <3>1 DEF SaveVerified, Open, AcceptedBefore, Passed, Owned
    <3> QED
      BY <1>4, <3>1, <3>2 DEF Passed
  <2>3. ASSUME NEW p \in Request, SaveVerified(p) \/ Open(p), u # req[p].user
        PROVE  users'[u].info = users[u].info
    BY <2>3 DEF SaveVerified, Open, VerifiedBy, TypeOK
  <2>4. ASSUME NEW p \in Request, Close(p)
        PROVE  users'[u].info = users[u].info
    BY <2>4 DEF Close, TypeOK
  <2>5. ASSUME NEW v \in Account, Disable(v) \/ AdditionalFields(v)
        PROVE  users'[u].info = users[u].info
    BY <2>5 DEF Disable, AdditionalFields, TypeOK
  <2>6. CASE UNCHANGED users
    BY <2>1, <2>6
  <2> HIDE DEF Mine
  <2> QED
    BY <2>1, <2>2, <2>3, <2>4, <2>5, <2>6
       DEF Next, Proceed, vars, Start, Ask, Return, ValidateInvoice, MakeInvoice, Notify, Confirm,
           Record, Validate, Raise, NextDay
<1>5. ASSUME NEW q \in Request, req'[q].at = "bill"
      PROVE  req'[q].bill \in Tx /\ Passed(req[q].bill)' /\ bank'[req'[q].bill].user = req'[q].user
  <2> DEFINE Mine == req'[q].bill \in Tx /\ Passed(req[q].bill)' /\ bank'[req'[q].bill].user = req'[q].user
  <2> SUFFICES Mine
    OBVIOUS
  <2>1. CASE req'[q] = req[q]
    <3>1. req[q].bill \in Tx /\ Passed(req[q].bill) /\ bank[req[q].bill].user = req[q].user
      BY <1>5, <2>1 DEF Owned
    <3> QED
      BY <1>4, <2>1, <3>1 DEF Passed
  <2>2. ASSUME NEW p \in Request, NEW u \in Account, NEW ip \in Ip, Start(p, u, ip) \/ Return(p, u)
        PROVE  Mine
    BY <1>5, <2>1, <2>2, StartFact, ReturnFact
  <2>3. ASSUME NEW p \in Request, NEW t \in Tx, NEW answer \in {"accepted", "refused", "vbv"},
               Ask(p, t, answer)
        PROVE  Mine
    BY <1>5, <2>1, <2>3, AskFact
  <2>4. ASSUME NEW p \in Request, Finish(p)
        PROVE  Mine
    BY <1>5, <2>1, <2>4, FinishFact
  <2>5. ASSUME NEW p \in Request, NEW at, Goto(p, at), at # "bill"
        PROVE  Mine
    BY <1>5, <2>1, <2>5, GotoFact
  <2>6. ASSUME NEW p \in Request, NEW t \in Tx, Bill(p, t), Passed(t), bank[t].user = req[p].user
        PROVE  Mine
    <3>1. Passed(t)' /\ bank'[t].user = req[p].user
      BY <1>4, <2>6
    <3> QED
      BY <2>1, <2>6, <3>1, BillFact DEF Passed
  <2>7. ASSUME NEW p \in Request, ValidateInvoice(p)
        PROVE  Mine
    <3>1. req[p].user \in Account /\ users[req[p].user].info \in Tx \cup {NoTx}
      BY DEF TypeOK
    <3>2. CASE Finish(p) \/ Goto(p, "notify")
      BY <2>4, <2>5, <3>2
    <3>3. CASE Bill(p, users[req[p].user].info) /\ users[req[p].user].info # NoTx
      BY <2>6, <3>1, <3>3 DEF Owned
    <3> QED
      BY <2>7, <3>2, <3>3 DEF ValidateInvoice
  <2>8. ASSUME NEW p \in Request,
               \/ SaveVerified(p) \/ MakeInvoice(p) \/ Notify(p) \/ Open(p) \/ Close(p)
               \/ \E answer \in {"accepted", "refused"} : Confirm(p, answer)
               \/ Validate(p) \/ Record(p) \/ Raise(p)
        PROVE  Mine
    BY <2>4, <2>5, <2>8 DEF SaveVerified, MakeInvoice, Notify, Open, Close, Confirm, Validate, Record, Raise
  <2>9. CASE UNCHANGED req
    BY <2>1, <2>9
  <2>10. Ip # {}
    BY SetAssumption
  <2> HIDE DEF Mine
  <2> QED
    BY <2>2, <2>3, <2>7, <2>8, <2>9, <2>10, WhoSteps DEF Proceed
<1> QED
  BY <1>2, <1>3, <1>5 DEF Owned, Asked

LEMMA AcceptedBeforeStep ==
  ASSUME IInv, [Next]_vars
  PROVE  AcceptedBefore'
<1> USE DEF IInv
<1> SUFFICES ASSUME NEW q \in Request
             PROVE  /\ req'[q].at \in {"save", "invoice", "bill", "notify"}
                         => bank'[req'[q].tx].answer = "accepted"
                    /\ req'[q].at = "open" => bank'[req'[q].tx].answer \in {"accepted", "vbv"}
  BY DEF AcceptedBefore, Passed
<1> DEFINE Sound == /\ req'[q].at \in {"save", "invoice", "bill", "notify"}
                         => bank'[req'[q].tx].answer = "accepted"
                    /\ req'[q].at = "open" => bank'[req'[q].tx].answer \in {"accepted", "vbv"}
<1> SUFFICES Sound
  OBVIOUS
<1>1. ASSUME req'[q].tx = req[q].tx,
             req'[q].at \in {"save", "invoice", "bill", "notify"}
               => req[q].at \in {"save", "invoice", "bill", "notify"},
             req'[q].at = "open" => req[q].at = "open"
      PROVE  Sound
  <2>1. CASE req[q].at \in {"save", "invoice", "bill", "notify"}
    <3>1. req[q].tx \in Tx /\ bank[req[q].tx].answer = "accepted"
      BY <2>1 DEF TypeOK, AcceptedBefore
    <3> QED
      BY <1>1, <2>1, <3>1, BankStep DEF Asked, Passed
  <2>2. CASE req[q].at = "open"
    <3>1. req[q].tx \in Tx /\ Passed(req[q].tx)
      BY <2>2 DEF TypeOK, AcceptedBefore
    <3> QED
      BY <1>1, <2>2, <3>1, BankStep DEF Asked, Passed
  <2> QED
    BY <1>1, <2>1, <2>2
<1>2. ASSUME NEW p \in Request, NEW u \in Account, NEW ip \in Ip, Start(p, u, ip) \/ Return(p, u)
      PROVE  Sound
  BY <1>1, <1>2, StartFact, ReturnFact
<1>3. ASSUME NEW p \in Request, NEW t \in Tx, NEW answer \in {"accepted", "refused", "vbv"},
             Ask(p, t, answer)
      PROVE  Sound
  <2>1. bank'[t].answer = answer
    BY <1>3 DEF Ask, TypeOK
  <2>2. After[answer] = "open" => answer = "vbv"
    BY DEF After
  <2> QED
    BY <1>1, <1>3, <2>1, <2>2, AskFact
<1>4. ASSUME NEW p \in Request, Finish(p)
      PROVE  Sound
  BY <1>1, <1>4, FinishFact
<1>5. ASSUME NEW p \in Request, NEW at, Goto(p, at), at # "open",
             at \in {"save", "invoice", "bill", "notify"}
               => req[p].at \in {"save", "invoice", "bill", "notify"}
      PROVE  Sound
  BY <1>1, <1>5, GotoFact
<1>6. ASSUME NEW p \in Request, NEW answer \in {"accepted", "refused"}, Confirm(p, answer)
      PROVE  Sound
  <2>1. CASE Finish(p)
    BY <1>4, <2>1
  <2>2. CASE bank' = [bank EXCEPT ![req[p].tx].answer = "accepted"] /\ Goto(p, "save")
    <3>1. req[p].tx \in Tx
      BY <1>6 DEF Confirm, TypeOK
    <3>2. bank'[req[p].tx].answer = "accepted"
      BY <2>2, <3>1 DEF TypeOK
    <3> QED
      BY <1>1, <2>2, <3>2, GotoFact
  <2> QED
    BY <1>6, <2>1, <2>2 DEF Confirm
<1>7. ASSUME NEW p \in Request, NEW t, Bill(p, t), req[p].at = "invoice"
      PROVE  Sound
  BY <1>1, <1>7, BillFact
<1>9. CASE UNCHANGED req
  BY <1>1, <1>9
<1> HIDE DEF Sound
<1>8. ASSUME NEW p \in Request,
             \/ SaveVerified(p) \/ ValidateInvoice(p) \/ MakeInvoice(p) \/ Notify(p) \/ Open(p) \/ Close(p)
             \/ Validate(p) \/ Record(p) \/ Raise(p)
      PROVE  Sound
  BY <1>4, <1>5, <1>7, <1>8 DEF SaveVerified, ValidateInvoice, MakeInvoice, Notify, Open, Close, Validate,
                                Record, Raise
<1>10. Ip # {}
  BY SetAssumption
<1>11. ASSUME NEW p \in Request, Proceed(p)
       PROVE  Sound
  BY <1>3, <1>6, <1>8, <1>11 DEF Proceed
<1>12. ASSUME NEW p \in Request, NEW u \in Account,
              Return(p, u) \/ \E ip \in Ip : Start(p, u, ip)
       PROVE  Sound
  BY <1>2, <1>10, <1>12
<1> QED
  BY <1>9, <1>11, <1>12, WhoSteps

-----------------------------------------------------------------------------
(* What is written: the accounts, the invoices, the transactions.          *)

\* Who writes what.
LEMMA Writers ==
  ASSUME [Next]_vars
  PROVE  /\ UNCHANGED day \/ NextDay
         /\ \/ UNCHANGED users
            \/ \E p \in Request : SaveVerified(p) \/ Open(p) \/ Close(p)
            \/ \E u \in Account : Disable(u) \/ AdditionalFields(u)
         /\ UNCHANGED invoices \/ \E p \in Request : MakeInvoice(p)
         /\ \/ UNCHANGED bank
            \/ \E p \in Request :
                 \/ \E t \in Tx : \E answer \in {"accepted", "refused", "vbv"} : Ask(p, t, answer)
                 \/ \E answer \in {"accepted", "refused"} : Confirm(p, answer)
         /\ UNCHANGED transactions \/ \E p \in Request : Record(p)
<1>1. ASSUME NEW p \in Request, Proceed(p)
      PROVE  /\ UNCHANGED day
             /\ UNCHANGED users \/ SaveVerified(p) \/ Open(p) \/ Close(p)
             /\ UNCHANGED invoices \/ MakeInvoice(p)
             /\ UNCHANGED transactions \/ Record(p)
  BY <1>1 DEF Proceed, Ask, SaveVerified, ValidateInvoice, MakeInvoice, Notify, Open, Close, Confirm, Record, Validate, Raise
<1>2. ASSUME NEW p \in Request, Proceed(p)
      PROVE  \/ UNCHANGED bank
             \/ \E t \in Tx : \E answer \in {"accepted", "refused", "vbv"} : Ask(p, t, answer)
             \/ \E answer \in {"accepted", "refused"} : Confirm(p, answer)
  BY <1>2 DEF Proceed, SaveVerified, ValidateInvoice, MakeInvoice, Notify, Open, Close, Record, Validate, Raise
<1>3. ASSUME NEW p \in Request, NEW u \in Account,
             Return(p, u) \/ \E ip \in Ip : Start(p, u, ip)
      PROVE  UNCHANGED <<day, users, transactions, invoices, bank>>
  BY <1>3 DEF Return, Start
<1>4. ASSUME NEW u \in Account, Disable(u) \/ AdditionalFields(u)
      PROVE  UNCHANGED <<day, transactions, invoices, bank, req>>
  BY <1>4 DEF Disable, AdditionalFields
<1>5. CASE NextDay
  BY <1>5 DEF NextDay
<1>6. CASE UNCHANGED vars
  BY <1>6 DEF vars
<1> QED
  BY <1>1, <1>2, <1>3, <1>4, <1>5, <1>6 DEF Next

LEMMA HistoryStep ==
  ASSUME TypeOK, [Next]_vars
  PROVE  interrupted' \cup filled' \subseteq Account
<1>1. ASSUME NEW p \in Request, Proceed(p)
      PROVE  interrupted' \cup filled' \subseteq Account
  <2>1. req[p].user \in Account /\ interrupted \cup filled \subseteq Account
    BY DEF TypeOK
  <2> QED
    BY <1>1, <2>1 DEF Proceed, Ask, SaveVerified, ValidateInvoice, MakeInvoice, Notify, Open, Close, Confirm,
                      Record, Validate, Raise
<1>2. ASSUME NEW p \in Request, NEW u \in Account,
             Return(p, u) \/ \E ip \in Ip : Start(p, u, ip)
      PROVE  UNCHANGED <<interrupted, filled>>
  BY <1>2 DEF Return, Start
<1>3. ASSUME NEW u \in Account, Disable(u) \/ AdditionalFields(u)
      PROVE  interrupted' \cup filled' \subseteq Account
  BY <1>3 DEF Disable, AdditionalFields, TypeOK
<1>4. CASE NextDay \/ UNCHANGED vars
  BY <1>4 DEF NextDay, vars, TypeOK
<1> QED
  BY <1>1, <1>2, <1>3, <1>4 DEF Next, TypeOK

LEMMA TypeStep ==
  ASSUME IInv, [Next]_vars
  PROVE  TypeOK'
<1> USE DEF IInv
<1>1. day' \in Day
  BY Writers, BoundAssumption DEF TypeOK, Day, NextDay
<1>2. users' \in [Account -> [verified : BOOLEAN, once : BOOLEAN, info : Tx \cup {NoTx}]]
  <2>1. ASSUME NEW p \in Request, SaveVerified(p) \/ Open(p)
        PROVE  users' \in [Account -> [verified : BOOLEAN, once : BOOLEAN, info : Tx \cup {NoTx}]]
    <3> DEFINE U == [verified : BOOLEAN, once : BOOLEAN, info : Tx \cup {NoTx}]
    <3>1. users \in [Account -> U] /\ req[p].tx \in Tx
      BY <2>1 DEF SaveVerified, Open, TypeOK
    <3>2. VerifiedBy(p) \in U
      BY <3>1 DEF VerifiedBy
    <3>3. users' = [users EXCEPT ![req[p].user] = VerifiedBy(p)]
      BY <2>1 DEF SaveVerified, Open
    <3> HIDE DEF U
    <3>4. users' \in [Account -> U]
      BY <3>1, <3>2, <3>3
    <3> QED
      BY <3>4 DEF U
  <2>4. ASSUME NEW u \in Account, AdditionalFields(u)
        PROVE  users' \in [Account -> [verified : BOOLEAN, once : BOOLEAN, info : Tx \cup {NoTx}]]
    <3>1. users[u] \in [verified : BOOLEAN, once : BOOLEAN, info : Tx \cup {NoTx}]
      BY DEF TypeOK
    <3>2. [users[u] EXCEPT !.verified = TRUE, !.once = TRUE]
            \in [verified : BOOLEAN, once : BOOLEAN, info : Tx \cup {NoTx}]
      BY <3>1
    <3> QED
      BY <2>4, <3>2 DEF AdditionalFields, TypeOK
  <2>2. ASSUME NEW u \in Account, users' = [users EXCEPT ![u].verified = FALSE]
        PROVE  users' \in [Account -> [verified : BOOLEAN, once : BOOLEAN, info : Tx \cup {NoTx}]]
    <3>1. users[u] \in [verified : BOOLEAN, once : BOOLEAN, info : Tx \cup {NoTx}]
      BY DEF TypeOK
    <3>2. [users[u] EXCEPT !.verified = FALSE]
            \in [verified : BOOLEAN, once : BOOLEAN, info : Tx \cup {NoTx}]
      BY <3>1
    <3> QED
      BY <2>2, <3>2 DEF TypeOK
  <2>3. ASSUME NEW p \in Request, Close(p)
        PROVE  users' \in [Account -> [verified : BOOLEAN, once : BOOLEAN, info : Tx \cup {NoTx}]]
    BY <2>3, <2>2 DEF Close, TypeOK
  <2> QED
    BY <2>1, <2>2, <2>3, <2>4, Writers DEF Disable, TypeOK
<1>3. transactions' \in SUBSET Row
  <2>1. ASSUME NEW p \in Request, Record(p)
        PROVE  transactions' \in SUBSET Row
    BY <2>1 DEF Record, TypeOK, Row
  <2> QED
    BY <2>1, Writers DEF TypeOK
<1>4. invoices' \subseteq Invoice
  <2>1. ASSUME NEW p \in Request, MakeInvoice(p)
        PROVE  invoices' \subseteq Invoice
    <3>1. req[p].user \in Account /\ req[p].tx \in Tx /\ req[p].bill \in Tx
      BY <2>1 DEF MakeInvoice, TypeOK, Owned
    <3> QED
      BY <2>1, <3>1 DEF MakeInvoice, Invoice, TypeOK
  <2> QED
    BY <2>1, Writers DEF TypeOK
<1>5. bank' \in [Tx -> [user : Account, answer : {"none", "accepted", "refused", "vbv"}]]
  <2>1. ASSUME NEW p \in Request, NEW t \in Tx, NEW answer \in {"accepted", "refused", "vbv"},
               Ask(p, t, answer)
        PROVE  bank' \in [Tx -> [user : Account, answer : {"none", "accepted", "refused", "vbv"}]]
    BY <2>1 DEF Ask, TypeOK
  <2>2. ASSUME NEW p \in Request, NEW answer \in {"accepted", "refused"}, Confirm(p, answer)
        PROVE  bank' \in [Tx -> [user : Account, answer : {"none", "accepted", "refused", "vbv"}]]
    BY <2>2 DEF Confirm, TypeOK
  <2> QED
    BY <2>1, <2>2, Writers DEF TypeOK
<1>7. req' \in [Request -> ReqType]
  <2>1. CASE UNCHANGED req
    BY <2>1 DEF TypeOK, ReqType
  <2> QED
    BY <2>1, WhoSteps, ReqStep, SetAssumption
<1>8. \A p \in Request : req'[p].at \notin {"idle", "ask"} => req'[p].tx \in Tx
  BY TxStep
<1>9. interrupted' \cup filled' \subseteq Account
  BY HistoryStep
<1> QED
  BY <1>1, <1>2, <1>3, <1>4, <1>5, <1>7, <1>8, <1>9 DEF TypeOK, ReqType

LEMMA VerifiedStep ==
  ASSUME IInv, [Next]_vars
  PROVE  VerifiedHavePaid'
<1> USE DEF IInv
<1> DEFINE PortalOf(u) == \/ u \in interrupted' \/ u \in filled'
                          \/ \E p \in Request : req'[p].at = "login" /\ req'[p].user = u
<1> SUFFICES ASSUME NEW u \in Account, users'[u].verified
             PROVE  Accepted(u)' \/ PortalOf(u)
  BY DEF VerifiedHavePaid
<1> DEFINE Portal == PortalOf(u)
<1>1. ASSUME users[u].verified, u \in interrupted => u \in interrupted', u \in filled => u \in filled',
             \A q \in Request : req[q].at = "login" /\ req[q].user = u => UNCHANGED req[q]
      PROVE  Accepted(u)' \/ Portal
  BY <1>1, AcceptedStays DEF VerifiedHavePaid
<1>2. ASSUME NEW p \in Request, SaveVerified(p)
      PROVE  Accepted(u)' \/ Portal
  <2>1. CASE u = req[p].user
    <3>1. req[p].tx \in Tx /\ bank[req[p].tx].answer = "accepted" /\ bank[req[p].tx].user = u
      BY <1>2, <2>1 DEF SaveVerified, TypeOK, AcceptedBefore, Owned
    <3> QED
      BY <3>1, AcceptedStays DEF Accepted
  <2>2. CASE u # req[p].user
    <3>1. users[u].verified
      BY <1>2, <2>2 DEF SaveVerified, TypeOK
    <3> QED
      BY <1>1, <1>2, <3>1, GotoFact DEF SaveVerified
  <2> QED
    BY <2>1, <2>2
<1>3. ASSUME NEW p \in Request, Open(p)
      PROVE  Accepted(u)' \/ Portal
  <2>1. CASE u = req[p].user
    BY <1>3, <2>1, GotoFact DEF Open
  <2>2. CASE u # req[p].user
    <3>1. users[u].verified
      BY <1>3, <2>2 DEF Open, TypeOK
    <3> QED
      BY <1>1, <1>3, <3>1, GotoFact DEF Open
  <2> QED
    BY <2>1, <2>2
<1>4. ASSUME NEW p \in Request, Close(p)
      PROVE  Accepted(u)' \/ Portal
  <2>1. users[u].verified /\ u # req[p].user
    BY <1>4 DEF Close, TypeOK
  <2> QED
    BY <1>1, <1>4, <2>1, GotoFact DEF Close
<1>5. ASSUME NEW v \in Account, Disable(v)
      PROVE  Accepted(u)' \/ Portal
  <2>1. users[u].verified /\ u # v
    BY <1>5 DEF Disable, TypeOK
  <2> QED
    BY <1>1, <1>5, <2>1 DEF Disable
<1>12. ASSUME NEW v \in Account, AdditionalFields(v)
       PROVE  Accepted(u)' \/ Portal
  <2>1. u = v \/ users[u].verified
    BY <1>12 DEF AdditionalFields, TypeOK
  <2> QED
    BY <1>1, <1>12, <2>1 DEF AdditionalFields
<1>6. ASSUME NEW p \in Request, UNCHANGED <<users, interrupted, filled>>,
             \/ \E v \in Account, ip \in Ip : Start(p, v, ip)
             \/ \E v \in Account : Return(p, v)
             \/ \E t \in Tx, answer \in {"accepted", "refused", "vbv"} : Ask(p, t, answer)
             \/ ValidateInvoice(p) \/ MakeInvoice(p) \/ Notify(p) \/ Validate(p) \/ Record(p)
             \/ \E answer \in {"accepted", "refused"} : Confirm(p, answer)
      PROVE  Accepted(u)' \/ Portal
  <2>1. \A q \in Request : q # p => UNCHANGED req[q]
    BY <1>6, StartFact, ReturnFact, AskFact, GotoFact, FinishFact, BillFact
       DEF ValidateInvoice, MakeInvoice, Notify, Validate, Record, Confirm
  <2>2. req[p].at # "login"
    BY <1>6 DEF Start, Return, Ask, ValidateInvoice, MakeInvoice, Notify, Validate, Record, Confirm
  <2> QED
    BY <1>1, <1>6, <2>1, <2>2
<1>7. CASE UNCHANGED <<users, req, interrupted, filled>>
  BY <1>1, <1>7
\* A request that is interrupted at the portal leaves its account there.
<1>11. ASSUME NEW p \in Request, Raise(p)
       PROVE  Accepted(u)' \/ Portal
  <2>1. users[u].verified /\ \A q \in Request : q # p => UNCHANGED req[q]
    BY <1>11, FinishFact DEF Raise
  <2>2. CASE req[p].at = "login" /\ req[p].user = u
    BY <1>11, <2>2 DEF Raise
  <2>3. CASE ~(req[p].at = "login" /\ req[p].user = u)
    BY <1>1, <1>11, <2>1, <2>3 DEF Raise
  <2> QED
    BY <2>2, <2>3
<1> HIDE DEF Portal
<1>8. ASSUME NEW p \in Request, Proceed(p)
      PROVE  Accepted(u)' \/ Portal
  <2>2. \/ SaveVerified(p) \/ Open(p) \/ Close(p) \/ Raise(p)
        \/ /\ UNCHANGED <<users, interrupted, filled>>
           /\ \/ \E t \in Tx, answer \in {"accepted", "refused", "vbv"} : Ask(p, t, answer)
              \/ ValidateInvoice(p) \/ MakeInvoice(p) \/ Notify(p) \/ Validate(p) \/ Record(p)
              \/ \E answer \in {"accepted", "refused"} : Confirm(p, answer)
    BY <1>8 DEF Proceed, Ask, ValidateInvoice, MakeInvoice, Notify, Confirm, Record, Validate
  <2> QED
    BY <1>2, <1>3, <1>4, <1>6, <1>11, <2>2
<1>9. ASSUME NEW p \in Request, NEW v \in Account, Return(p, v) \/ \E ip \in Ip : Start(p, v, ip)
      PROVE  Accepted(u)' \/ Portal
  <2>1. UNCHANGED <<users, interrupted, filled>>
    BY <1>9 DEF Return, Start
  <2> QED
    BY <1>6, <1>9, <2>1
<1>10. Accepted(u)' \/ Portal
  <2>1. CASE NextDay \/ UNCHANGED vars
    BY <1>7, <2>1 DEF NextDay, vars, Portal
  <2>2. CASE Next
    BY <1>5, <1>8, <1>9, <1>12, <2>1, <2>2 DEF Next
  <2> QED
    BY <2>1, <2>2
<1> QED
  BY <1>10 DEF Portal

LEMMA InvoicesStep ==
  ASSUME IInv, [Next]_vars
  PROVE  InvoicesArePaid'
<1> USE DEF IInv
<1> DEFINE Paid(i) == /\ bank[i.of].user = i.user /\ bank[i.of].answer = "accepted"
                      /\ bank[i.tx].user = i.user /\ Passed(i.tx)
<1>1. ASSUME NEW i \in Invoice, Paid(i)
      PROVE  Paid(i)'
  <2>1. i.of \in Tx /\ i.tx \in Tx /\ Asked(i.of) /\ Asked(i.tx)
    BY <1>1 DEF Invoice, Asked, Passed
  <2> QED
    BY <1>1, <2>1, BankStep
<1>2. ASSUME NEW i \in invoices
      PROVE  i \in Invoice /\ Paid(i)
  BY <1>2 DEF InvoicesArePaid, Passed, TypeOK
<1>3. ASSUME NEW i \in invoices'
      PROVE  Paid(i)'
  <2>1. CASE i \in invoices
    BY <1>1, <1>2, <2>1
  <2>2. CASE i \notin invoices
    <3>1. PICK p \in Request : MakeInvoice(p)
      BY <1>3, <2>2, Writers
    <3>2. req[p].at = "bill" /\ i = [user |-> req[p].user, tx |-> req[p].bill, of |-> req[p].tx]
      BY <1>3, <2>2, <3>1 DEF MakeInvoice
    <3>3. /\ req[p].tx \in Tx /\ req[p].bill \in Tx /\ req[p].user \in Account
          /\ bank[req[p].tx].answer = "accepted" /\ bank[req[p].tx].user = req[p].user
          /\ bank[req[p].bill].user = req[p].user /\ Passed(req[p].bill)
      BY <3>2 DEF TypeOK, AcceptedBefore, Owned
    <3>4. i \in Invoice /\ Paid(i)
      BY <3>2, <3>3 DEF Invoice
    <3> QED
      BY <1>1, <3>4
  <2> QED
    BY <2>1, <2>2
<1> QED
  BY <1>3 DEF InvoicesArePaid, Passed

-----------------------------------------------------------------------------
(* The transactions counted and those still to come.                       *)

\* The arithmetic of every limit: T, the transactions counted, become S, and
\* F, the requests to come, become G.
LEMMA Counting ==
  ASSUME NEW T, NEW S, NEW F, NEW G, NEW L \in Nat, IsFiniteSet(T),
         F \in SUBSET Request, G \in SUBSET Request,
         Cardinality(T) + Cardinality(F) < L + Cardinality(Request),
         \/ S = T /\ (G \subseteq F \/ Cardinality(T) < L)
         \/ \E r, p : S = T \cup {r} /\ p \in F /\ G \subseteq F \ {p}
  PROVE  /\ IsFiniteSet(S) /\ Cardinality(S) \in Nat /\ Cardinality(G) \in Nat
         /\ Cardinality(S) + Cardinality(G) < L + Cardinality(Request)
<1>1. IsFiniteSet(Request) /\ IsFiniteSet(F) /\ IsFiniteSet(G)
  BY SetAssumption, FS_Subset
<1>2. /\ Cardinality(Request) \in Nat /\ Cardinality(F) \in Nat /\ Cardinality(G) \in Nat
      /\ Cardinality(T) \in Nat
  BY <1>1, FS_CardinalityType
<1>3. CASE S = T /\ (G \subseteq F \/ Cardinality(T) < L)
  <2>1. Cardinality(G) <= Cardinality(Request) /\ (G \subseteq F => Cardinality(G) <= Cardinality(F))
    BY <1>1, FS_Subset
  <2> QED
    BY <1>2, <1>3, <2>1
<1>4. ASSUME NEW r, NEW p, S = T \cup {r}, p \in F, G \subseteq F \ {p}
      PROVE  /\ IsFiniteSet(S) /\ Cardinality(S) \in Nat
             /\ Cardinality(S) + Cardinality(G) < L + Cardinality(Request)
  <2>1. IsFiniteSet(S) /\ Cardinality(S) = IF r \in T THEN Cardinality(T) ELSE Cardinality(T) + 1
    BY <1>4, FS_AddElement
  <2>2. IsFiniteSet(F \ {p}) /\ Cardinality(F \ {p}) = Cardinality(F) - 1
    BY <1>1, <1>4, FS_RemoveElement
  <2>3. Cardinality(G) <= Cardinality(F \ {p})
    BY <1>4, <2>2, FS_Subset
  <2> QED
    BY <1>2, <2>1, <2>2, <2>3
<1> QED
  BY <1>2, <1>3, <1>4

\* No request but one that starts is added to those to come.
Kept ==
  \A q \in InFlight' : q \in InFlight /\ req'[q].user = req[q].user /\ req'[q].ip = req[q].ip

LEMMA InFlightStep ==
  ASSUME IInv, [Next]_vars
  PROVE  \/ UNCHANGED transactions /\ Kept /\ (UNCHANGED day \/ NextDay)
         \/ \E p \in Request, u \in Account, ip \in Ip : Start(p, u, ip)
         \/ \E p \in Request : Record(p) /\ Kept /\ p \in InFlight /\ p \notin InFlight'
<1> USE DEF IInv
<1>1. CASE UNCHANGED <<transactions, req>>
  BY <1>1, Writers DEF Kept, InFlight
<1>2. ASSUME NEW p \in Request, NEW u \in Account, Return(p, u)
      PROVE  UNCHANGED transactions /\ Kept
  <2>1. /\ \A q \in Request : q # p => req'[q] = req[q]
        /\ req'[p].leg = 2
    BY <1>2, ReturnFact
  <2>2. ASSUME NEW q \in InFlight'
        PROVE  q \in InFlight /\ req'[q].user = req[q].user /\ req'[q].ip = req[q].ip
    BY <2>1, <2>2 DEF InFlight
  <2>3. UNCHANGED transactions
    BY <1>2 DEF Return
  <2> QED
    BY <2>2, <2>3 DEF Kept
<1>3. ASSUME NEW p \in Request, Record(p)
      PROVE  Kept /\ p \in InFlight /\ p \notin InFlight'
  <2>1. p \in InFlight
    BY <1>3 DEF Record, InFlight, SecondLeg, TypeOK
  <2> QED
    BY <1>3, <2>1, FinishFact DEF Record, Kept, InFlight
<1>4. ASSUME NEW p \in Request, req[p].at # "idle",
             \/ \E t \in Tx : \E answer \in {"accepted", "refused", "vbv"} : Ask(p, t, answer)
             \/ Finish(p) \/ \E at : Goto(p, at) \/ Bill(p, at)
      PROVE  Kept
  BY <1>4, AskFact, FinishFact, GotoFact, BillFact DEF Kept, InFlight
<1>5. ASSUME NEW p \in Request, Proceed(p), ~Record(p)
      PROVE  UNCHANGED transactions /\ Kept
  <2>1. UNCHANGED transactions /\ req[p].at # "idle"
    BY <1>5 DEF Proceed, Ask, SaveVerified, ValidateInvoice, MakeInvoice, Notify, Open, Close, Confirm, Validate, Raise
  <2>2. \/ \E t \in Tx : \E answer \in {"accepted", "refused", "vbv"} : Ask(p, t, answer)
        \/ Finish(p) \/ \E at : Goto(p, at) \/ Bill(p, at)
    BY <1>5 DEF Proceed, SaveVerified, ValidateInvoice, MakeInvoice, Notify, Open, Close, Confirm, Validate, Raise
  <2> QED
    BY <1>4, <2>1, <2>2
<1> QED
  BY <1>1, <1>2, <1>3, <1>5, WhoSteps, Writers

LEMMA BudgetStep ==
  ASSUME IInv, [Next]_vars
  PROVE  Budget'
<1> USE DEF IInv
<1>1. IsFiniteSet(transactions) /\ YearlyLimit \in Nat /\ DailyLimit \in Nat /\ DailyLimit > 0
  BY LimitAssumption DEF Budget
<1>2. /\ InFlight \in SUBSET Request /\ InFlight' \in SUBSET Request
      /\ \A u : ByUser(u) \in SUBSET Request /\ ByUser(u)' \in SUBSET Request
      /\ \A ip : ByIp(ip) \in SUBSET Request /\ ByIp(ip)' \in SUBSET Request
  BY DEF InFlight, ByUser, ByIp
<1>3. \A S \in SUBSET transactions : IsFiniteSet(S) /\ Cardinality(S) \in Nat
  BY <1>1, FS_Subset, FS_CardinalityType
<1>4. \A u, ip, d : OfUser(u) \subseteq transactions /\ OfIp(ip, d) \subseteq transactions
  BY DEF OfUser, OfIp
<1>5. day \in Nat
  BY BoundAssumption DEF TypeOK, Day
<1>6. IsFiniteSet(Request) /\ Cardinality(Request) \in Nat
  BY SetAssumption, FS_CardinalityType
<1>7. ASSUME \/ transactions' = transactions /\ (InFlight' \subseteq InFlight \/ Yearly < YearlyLimit)
             \/ \E r, p : transactions' = transactions \cup {r} /\ p \in InFlight
                         /\ InFlight' \subseteq InFlight \ {p}
      PROVE  /\ IsFiniteSet(transactions')
             /\ Cardinality(transactions') + Cardinality(InFlight') < YearlyLimit + Cardinality(Request)
  BY <1>1, <1>2, <1>7, Counting DEF Budget, Yearly
<1>8. ASSUME NEW u \in Account,
             \/ /\ OfUser(u)' = OfUser(u)
                /\ ByUser(u)' \subseteq ByUser(u) \/ Cardinality(OfUser(u)) < DailyLimit
             \/ \E r, p : OfUser(u)' = OfUser(u) \cup {r} /\ p \in ByUser(u)
                         /\ ByUser(u)' \subseteq ByUser(u) \ {p}
      PROVE  Cardinality(OfUser(u)') + Cardinality(ByUser(u)') < DailyLimit + Cardinality(Request)
  <2> DEFINE T == OfUser(u)
             S == OfUser(u)'
             F == ByUser(u)
             G == ByUser(u)'
  <2>1. /\ IsFiniteSet(T) /\ F \in SUBSET Request /\ G \in SUBSET Request
        /\ Cardinality(T) + Cardinality(F) < DailyLimit + Cardinality(Request)
    BY <1>2, <1>3, <1>4 DEF Budget
  <2>2. \/ S = T /\ (G \subseteq F \/ Cardinality(T) < DailyLimit)
        \/ \E r, p : S = T \cup {r} /\ p \in F /\ G \subseteq F \ {p}
    BY <1>8
  <2> HIDE DEF T, S, F, G
  <2>3. Cardinality(S) + Cardinality(G) < DailyLimit + Cardinality(Request)
    BY <1>1, <2>1, <2>2, Counting
  <2> QED
    BY <2>3 DEF S, G
<1>9. ASSUME NEW ip \in Ip, day' = day,
             \/ /\ OfIp(ip, day)' = OfIp(ip, day)
                /\ ByIp(ip)' \subseteq ByIp(ip) \/ Cardinality(OfIp(ip, day)) < DailyLimit
             \/ \E r, p : OfIp(ip, day)' = OfIp(ip, day) \cup {r} /\ p \in ByIp(ip)
                         /\ ByIp(ip)' \subseteq ByIp(ip) \ {p}
      PROVE  /\ Cardinality(OfIp(ip, day)') + Cardinality(ByIp(ip)') < DailyLimit + Cardinality(Request)
             /\ Cardinality(OfIp(ip, day)') < DailyLimit + Cardinality(Request)
  <2> DEFINE T == OfIp(ip, day)
             S == OfIp(ip, day)'
             F == ByIp(ip)
             G == ByIp(ip)'
  <2>1. /\ IsFiniteSet(T) /\ F \in SUBSET Request /\ G \in SUBSET Request
        /\ Cardinality(T) + Cardinality(F) < DailyLimit + Cardinality(Request)
    BY <1>2, <1>3, <1>4 DEF Budget
  <2>2. \/ S = T /\ (G \subseteq F \/ Cardinality(T) < DailyLimit)
        \/ \E r, p : S = T \cup {r} /\ p \in F /\ G \subseteq F \ {p}
    BY <1>9
  <2> HIDE DEF T, S, F, G
  <2>3. Cardinality(S) + Cardinality(G) < DailyLimit + Cardinality(Request)
    BY <1>1, <2>1, <2>2, Counting
  <2>4. Cardinality(S) \in Nat
    BY <1>1, <2>1, <2>2, Counting
  <2>5. Cardinality(G) \in Nat
    BY <1>6, <2>1, FS_Subset, FS_CardinalityType
  <2>6. Cardinality(S) < DailyLimit + Cardinality(Request)
    BY <1>1, <1>6, <2>3, <2>4, <2>5
  <2> QED
    BY <2>3, <2>6 DEF S, G
<1>10. ASSUME UNCHANGED transactions, Kept
       PROVE  /\ InFlight' \subseteq InFlight
              /\ \A u \in Account : OfUser(u)' = OfUser(u) /\ ByUser(u)' \subseteq ByUser(u)
              /\ \A ip \in Ip : ByIp(ip)' \subseteq ByIp(ip)
              /\ \A ip \in Ip : \A d \in Day : {r \in transactions' : r.ip = ip /\ r.day = d} = OfIp(ip, d)
  BY <1>10 DEF Kept, OfUser, OfIp, ByUser, ByIp
<1>11. CASE UNCHANGED transactions /\ Kept /\ UNCHANGED day
  <2>1. \A ip \in Ip : OfIp(ip, day)' = OfIp(ip, day)
    BY <1>11 DEF OfIp
  <2>2. \A r \in transactions' : r.day <= day'
    BY <1>11 DEF Budget
  <2>3. \A ip \in Ip : \A d \in Day : Cardinality(OfIp(ip, d))' < DailyLimit + Cardinality(Request)
    BY <1>11 DEF Budget, OfIp
  <2> QED
    BY <1>7, <1>8, <1>9, <1>10, <1>11, <2>1, <2>2, <2>3 DEF Budget
<1>12. ASSUME NextDay, UNCHANGED transactions, Kept
       PROVE  Budget'
  <2>1. day' = day + 1
    BY <1>12 DEF NextDay
  <2>2. \A r \in transactions' : r.day < day'
    BY <1>5, <1>12, <2>1 DEF Budget, TypeOK, Row, Day
  <2>3. \A ip \in Ip : OfIp(ip, day)' = {}
    BY <1>5, <2>1, <2>2 DEF OfIp
  <2>4. \A ip \in Ip : Cardinality(ByIp(ip)') \in Nat /\ Cardinality(ByIp(ip)') <= Cardinality(Request)
    BY <1>2, <1>6, FS_Subset, FS_CardinalityType
  <2>5. \A ip \in Ip : Cardinality(OfIp(ip, day)') + Cardinality(ByIp(ip)')
                          < DailyLimit + Cardinality(Request)
    BY <1>1, <1>6, <2>3, <2>4, FS_EmptySet
  <2>6. \A ip \in Ip : \A d \in Day : Cardinality(OfIp(ip, d))' < DailyLimit + Cardinality(Request)
    BY <1>12 DEF Budget, OfIp
  <2>7. \A r \in transactions' : r.day <= day'
    BY <1>12, <1>5, <2>1 DEF Budget, TypeOK, Row, Day
  <2> QED
    BY <1>7, <1>8, <1>10, <1>12, <2>5, <2>6, <2>7 DEF Budget
<1>13. ASSUME NEW p \in Request, NEW v \in Account, NEW i \in Ip, Start(p, v, i)
       PROVE  Budget'
  <2>1. UNCHANGED <<transactions, day>>
    BY <1>13 DEF Start
  <2>2. /\ Yearly < YearlyLimit
        /\ Cardinality(OfUser(v)) < DailyLimit
        /\ Cardinality(OfIp(i, day)) < DailyLimit
    <3>1. /\ Yearly \in Nat /\ Cardinality(OfUser(v)) \in Nat /\ Cardinality(OfIp(i, day)) \in Nat
      BY <1>1, <1>3, <1>4 DEF Yearly
    <3> QED
      BY <1>1, <1>13, <3>1 DEF Start, TooMany
  <2>3. ASSUME NEW u \in Account
        PROVE  /\ OfUser(u)' = OfUser(u)
               /\ ByUser(u)' \subseteq ByUser(u) \/ u = v
    <3>1. OfUser(u)' = OfUser(u)
      BY <2>1 DEF OfUser
    <3>2. (\A q \in Request : q # p => req'[q] = req[q]) /\ req'[p].user = v
      BY <1>13, StartFact
    <3>3. ByUser(u)' \subseteq ByUser(u) \/ u = v
      BY <3>2 DEF ByUser, InFlight
    <3> QED
      BY <3>1, <3>3
  <2>4. ASSUME NEW ip \in Ip
        PROVE  /\ OfIp(ip, day)' = OfIp(ip, day)
               /\ ByIp(ip)' \subseteq ByIp(ip) \/ ip = i
    <3>1. OfIp(ip, day)' = OfIp(ip, day)
      BY <2>1 DEF OfIp
    <3>2. (\A q \in Request : q # p => req'[q] = req[q]) /\ req'[p].ip = i
      BY <1>13, StartFact
    <3>3. ByIp(ip)' \subseteq ByIp(ip) \/ ip = i
      BY <3>2 DEF ByIp, InFlight
    <3> QED
      BY <3>1, <3>3
  <2>5. \A ip \in Ip : \A d \in Day : Cardinality(OfIp(ip, d))' < DailyLimit + Cardinality(Request)
    BY <2>1 DEF Budget, OfIp
  <2>6. \A r \in transactions' : r.day <= day'
    BY <2>1 DEF Budget
  <2> QED
    BY <1>7, <1>8, <1>9, <2>1, <2>2, <2>3, <2>4, <2>5, <2>6 DEF Budget
<1>14. ASSUME NEW p \in Request, Record(p), Kept, p \in InFlight, p \notin InFlight'
       PROVE  Budget'
  <2> DEFINE row == [tx |-> req[p].tx, user |-> req[p].user, ip |-> req[p].ip, day |-> day]
  <2>1. transactions' = transactions \cup {row} /\ UNCHANGED day
    BY <1>14 DEF Record
  <2>2. InFlight' \subseteq InFlight \ {p}
    BY <1>14 DEF Kept
  <2>3. ASSUME NEW u \in Account
        PROVE  Cardinality(OfUser(u)') + Cardinality(ByUser(u)') < DailyLimit + Cardinality(Request)
    <3>1. ByUser(u)' \subseteq ByUser(u) \ {p}
      BY <1>14 DEF Kept, ByUser
    <3>2. CASE u = req[p].user
      <4>1. OfUser(u)' = OfUser(u) \cup {row} /\ p \in ByUser(u)
        BY <1>14, <2>1, <3>2 DEF OfUser, ByUser
      <4> QED
        BY <1>8, <3>1, <4>1
    <3>3. CASE u # req[p].user
      <4>1. OfUser(u)' = OfUser(u)
        BY <2>1, <3>3 DEF OfUser
      <4> QED
        BY <1>8, <3>1, <4>1
    <3> QED
      BY <3>2, <3>3
  <2>4. ASSUME NEW ip \in Ip
        PROVE  /\ Cardinality(OfIp(ip, day)') + Cardinality(ByIp(ip)') < DailyLimit + Cardinality(Request)
               /\ Cardinality(OfIp(ip, day)') < DailyLimit + Cardinality(Request)
    <3>1. ByIp(ip)' \subseteq ByIp(ip) \ {p}
      BY <1>14 DEF Kept, ByIp
    <3>2. CASE ip = req[p].ip
      <4>1. OfIp(ip, day)' = OfIp(ip, day) \cup {row} /\ p \in ByIp(ip)
        BY <1>14, <2>1, <3>2 DEF OfIp, ByIp
      <4> QED
        BY <1>9, <2>1, <3>1, <4>1
    <3>3. CASE ip # req[p].ip
      <4>1. OfIp(ip, day)' = OfIp(ip, day)
        BY <2>1, <3>3 DEF OfIp
      <4> QED
        BY <1>9, <2>1, <3>1, <4>1
    <3> QED
      BY <3>2, <3>3
  <2>5. ASSUME NEW ip \in Ip, NEW d \in Day
        PROVE  Cardinality(OfIp(ip, d))' < DailyLimit + Cardinality(Request)
    <3>1. CASE d = day
      <4>1. OfIp(ip, d)' = OfIp(ip, day)'
        BY <2>1, <3>1 DEF OfIp
      <4> QED
        BY <2>4, <4>1
    <3>2. CASE d # day
      <4>1. OfIp(ip, d)' = OfIp(ip, d)
        BY <2>1, <3>2 DEF OfIp
      <4> QED
        BY <4>1 DEF Budget
    <3> QED
      BY <3>1, <3>2
  <2>6. \A r \in transactions' : r.day <= day'
    BY <1>5, <2>1 DEF Budget
  <2> HIDE DEF row
  <2> QED
    BY <1>7, <1>14, <2>1, <2>2, <2>3, <2>4, <2>5, <2>6 DEF Budget
<1> QED
  BY <1>11, <1>12, <1>13, <1>14, InFlightStep

-----------------------------------------------------------------------------
(* The invariant and what follows.                                         *)

LEMMA Inductive == Spec => []IInv
<1>1. Init => IInv
  <2> SUFFICES ASSUME Init
               PROVE  IInv
    OBVIOUS
  <2>1. req = [p \in Request |-> Idle] /\ transactions = {}
    BY DEF Init
  <2>2. \A p \in Request : req[p] \in ReqType /\ req[p].at = "idle" /\ req[p].leg = 1 /\ req[p].tx = NoTx
    BY <2>1, IdleType
  <2>3. TypeOK
    <3>1. req \in [Request -> ReqType]
      BY <2>1, IdleType
    <3>2. day \in Day /\ transactions \in SUBSET Row
      <4>1. day = 0
        BY DEF Init
      <4>2. 0 \in Day
        BY BoundAssumption DEF Day
      <4> QED
        BY <2>1, <4>1, <4>2
    <3>3. /\ users \in [Account -> [verified : BOOLEAN, once : BOOLEAN, info : Tx \cup {NoTx}]]
          /\ invoices \subseteq Invoice
          /\ interrupted \cup filled \subseteq Account
      BY DEF Init
    <3>4. bank \in [Tx -> [user : Account, answer : {"none", "accepted", "refused", "vbv"}]]
      BY SetAssumption DEF Init
    <3> QED
      BY <2>2, <3>1, <3>2, <3>3, <3>4 DEF TypeOK, ReqType
  <2>4. SecondLeg /\ Owned /\ AcceptedBefore
    BY <2>2, NoTxFact DEF SecondLeg, Owned, AcceptedBefore, Init
  <2>5. Budget
    <3>1. InFlight = {} /\ \A u, ip : ByUser(u) = {} /\ ByIp(ip) = {}
      BY <2>2 DEF InFlight, ByUser, ByIp
    <3>2. \A u, ip, d : OfUser(u) = {} /\ OfIp(ip, d) = {}
      BY <2>1 DEF OfUser, OfIp
    <3>3. Cardinality(Request) \in Nat
      BY SetAssumption, FS_CardinalityType
    <3> QED
      BY <2>1, <3>1, <3>2, <3>3, LimitAssumption, FS_EmptySet DEF Budget
  <2>6. VerifiedHavePaid /\ InvoicesArePaid
    BY DEF Init, VerifiedHavePaid, InvoicesArePaid
  <2> QED
    BY <2>3, <2>4, <2>5, <2>6 DEF IInv
<1>2. IInv /\ [Next]_vars => IInv'
  BY TypeStep, SecondLegStep, OwnedStep, AcceptedBeforeStep, BudgetStep, VerifiedStep, InvoicesStep
     DEF IInv
<1> QED
  BY <1>1, <1>2, PTL DEF Spec

\* The tables, the requests and the bank's answers are well typed, and a
\* request past the bank has a transaction (gestpay_s2s_verify_credit_card).
THEOREM TypeCorrect == Spec => []TypeOK
<1>1. IInv => TypeOK
  BY DEF IInv
<1> QED
  BY <1>1, Inductive, PTL

\* A card account is verified only if the bank accepted its owner's payment, or
\* by the form of additional fields (accounts_controller.rb:143), or while the
\* portal is being asked in the verified-by-visa detour, or after an exception
\* cut such a detour short.
THEOREM VerifiedPaid == Spec => []VerifiedHavePaid
<1>1. IInv => VerifiedHavePaid
  BY DEF IInv
<1> QED
  BY <1>1, Inductive, PTL

\* Whatever raises and however requests interleave, an invoice is made for a
\* payment of its user that the bank accepted, and names a transaction of that
\* user that the bank has not refused (generate_invoice!).
THEOREM InvoicesPaid == Spec => []InvoicesArePaid
<1>1. IInv => InvoicesArePaid
  BY DEF IInv
<1> QED
  BY <1>1, Inductive, PTL

\* The limits that are checked before the bank is asked, of the year, of a user
\* and of an address in a day, are exceeded by less than the number of requests
\* served at once (user_daily_transactions_below_limit and its sibling).
THEOREM LimitsNearlyKept == Spec => []LimitOverrun
<1>1. ASSUME IInv
      PROVE  LimitOverrun
  <2>1. /\ IsFiniteSet(transactions) /\ IsFiniteSet(InFlight)
        /\ \A u : IsFiniteSet(OfUser(u)) /\ IsFiniteSet(ByUser(u))
    BY <1>1, SetAssumption, FS_Subset DEF IInv, Budget, InFlight, OfUser, ByUser
  <2>2. /\ Cardinality(transactions) \in Nat /\ Cardinality(InFlight) \in Nat
        /\ \A u : Cardinality(OfUser(u)) \in Nat /\ Cardinality(ByUser(u)) \in Nat
        /\ Cardinality(Request) \in Nat
    BY <2>1, SetAssumption, FS_CardinalityType
  <2> QED
    BY <1>1, <2>2, LimitAssumption DEF IInv, Budget, LimitOverrun, Yearly
<1> QED
  BY <1>1, Inductive, PTL
=============================================================================
