----------------------------- MODULE CardPayment -----------------------------
(***************************************************************************)
(* Verification by credit card (gestpay_s2s in Account): a web request     *)
(* loads the account, checks the limits on transactions, asks the bank,    *)
(* and writes what the answer means to the account, to the invoices and to *)
(* the table of transactions, one save after the other and no lock around  *)
(* them.  The bank may ask for the password of the card ("verified by      *)
(* visa"): the account is verified for a moment, to be let through the     *)
(* captive portal, and the payment is finished by a second request.        *)
(*                                                                         *)
(* Time is counted in days of one year, so every transaction is counted    *)
(* against the yearly limit.  created_at, which the detour prolongs, only  *)
(* matters to the page that shows the remaining time: verified_at, set by  *)
(* the same save, takes the account out of the sweep of unverified users.  *)
(* The mails that warn of the yearly limit (after_create) change nothing.  *)
(*                                                                         *)
(* Not here, and so not in what VerifiedHavePaid says: operators, who may  *)
(* verify an account by hand, and the removal or deactivation of accounts. *)
(* Both are in UserLifecycle.                                              *)
(***************************************************************************)
EXTENDS Naturals, FiniteSets

CONSTANTS
  Account,       \* accounts with verification_method 'gestpay_credit_card'
  Request,       \* web requests served at once
  Ip,            \* addresses requests come from
  MaxTx,         \* bound: questions asked to the bank
  MaxDay,        \* bound: days
  DailyLimit,    \* 'credit_card_max_daily_user_transactions'
  YearlyLimit,   \* 'credit_card_max_yearly_transactions'
  Invoicing      \* TRUE iff payments are invoiced

ASSUME SetAssumption == IsFiniteSet(Request) /\ Account # {} /\ Ip # {}
ASSUME BoundAssumption == MaxTx \in Nat /\ MaxDay \in Nat
ASSUME LimitAssumption == DailyLimit \in Nat \ {0} /\ YearlyLimit \in Nat \ {0}
ASSUME SwitchAssumption == Invoicing \in BOOLEAN

VARIABLES
  day,           \* today
  users,         \* users[u]: verified, verified_at # NULL, shop_transaction
  transactions,  \* credit_card_transactions
  invoices,      \* the invoices: user_id, transaction_id, and as history the
                 \* transaction of the request that made it, "of"
  bank,          \* bank[t]: what the bank answered to question t
  req,           \* req[p]: the request p
  interrupted,   \* history: verified by a detour that was cut short
  filled         \* history: verified by the form of additional fields

vars == <<day, users, transactions, invoices, bank, req, interrupted, filled>>

NoTx == 0
Tx == 1..MaxTx
Day == 0..MaxDay

Row == [tx : Tx, user : Account, ip : Ip, day : Day]

Invoice == [user : Account, tx : Tx, of : Tx]

\* "copy" is verified as it was loaded, "bill" the transaction_id of the invoice
\* that is being made.
Idle == [at |-> "idle", leg |-> 1, user |-> CHOOSE u \in Account : TRUE,
         ip |-> CHOOSE i \in Ip : TRUE, tx |-> NoTx, copy |-> FALSE, bill |-> NoTx]

Init ==
  /\ day = 0
  /\ users = [u \in Account |-> [verified |-> FALSE, once |-> FALSE, info |-> NoTx]]
  /\ transactions = {}
  /\ invoices = {}
  /\ bank = [t \in Tx |-> [user |-> CHOOSE u \in Account : TRUE, answer |-> "none"]]
  /\ req = [p \in Request |-> Idle]
  /\ interrupted = {}
  /\ filled = {}

Goto(p, at) == req' = [req EXCEPT ![p].at = at]

Bill(p, t) == req' = [req EXCEPT ![p].at = "bill", ![p].bill = t]

Finish(p) == req' = [req EXCEPT ![p] = Idle]

-----------------------------------------------------------------------------
(* The limits.                                                             *)

Yearly == Cardinality(transactions)

OfUser(u) == {r \in transactions : r.user = u}

OfIp(ip, d) == {r \in transactions : r.ip = ip /\ r.day = d}

\* current_total_yearly_transactions >= max, and user_daily_transactions_...:
\* the transactions of the address are those of today, the user's are all.
TooMany(u, ip) ==
  \/ Cardinality(OfUser(u)) >= DailyLimit
  \/ Cardinality(OfIp(ip, day)) >= DailyLimit
  \/ Yearly >= YearlyLimit

\* Mutant: the limits are not checked.
StartUnchecked(p, u, ip) ==
  /\ req[p].at = "idle"
  /\ req' = [req EXCEPT ![p] = [Idle EXCEPT !.at = "ask", !.user = u, !.ip = ip,
                                            !.copy = users[u].verified]]
  /\ UNCHANGED <<day, users, transactions, invoices, bank, interrupted, filled>>

\* A card number that is not valid, or too many transactions, end the request.
Start(p, u, ip) ==
  /\ req[p].at = "idle"
  /\ ~TooMany(u, ip)
  /\ req' = [req EXCEPT ![p] = [Idle EXCEPT !.at = "ask", !.user = u, !.ip = ip,
                                            !.copy = users[u].verified]]
  /\ UNCHANGED <<day, users, transactions, invoices, bank, interrupted, filled>>

-----------------------------------------------------------------------------
(* The bank.                                                               *)

Asked(t) == bank[t].answer # "none"

\* Where an answer takes a request; "vbv" is error code 8006.
After == [accepted |-> "save", vbv |-> "open", refused |-> "refused"]

\* The next free transaction id.
Ask(p, t, answer) ==
  /\ req[p].at = "ask"
  /\ ~Asked(t) /\ \A s \in Tx : s < t => Asked(s)
  /\ bank' = [bank EXCEPT ![t] = [user |-> req[p].user, answer |-> answer]]
  /\ req' = [req EXCEPT ![p].tx = t, ![p].at = After[answer]]
  /\ UNCHANGED <<day, users, transactions, invoices, interrupted, filled>>

-----------------------------------------------------------------------------
(* The bank has accepted: credit_card_identity_verify!.                    *)

\* set_credit_card_info, verified = true: verified is only written if the
\* account was not verified when it was loaded.
VerifiedBy(p) ==
  [verified |-> users[req[p].user].verified \/ ~req[p].copy, once |-> TRUE, info |-> req[p].tx]

\* save!
SaveVerified(p) ==
  /\ req[p].at = "save"
  /\ users' = [users EXCEPT ![req[p].user] = VerifiedBy(p)]
  /\ Goto(p, "invoice")
  /\ UNCHANGED <<day, transactions, invoices, bank, interrupted, filled>>

\* generate_invoice!: the account is loaded again, and names the transaction of
\* the invoice.  Invoice.create_for_user raises if it names none, and save! if
\* the account is found to have an invoice.
ValidateInvoice(p) ==
  LET u == req[p].user IN
  /\ req[p].at = "invoice"
  /\ IF ~Invoicing THEN Goto(p, "notify")
     ELSE IF users[u].info = NoTx \/ \E i \in invoices : i.user = u THEN Finish(p)
     ELSE Bill(p, users[u].info)
  /\ UNCHANGED <<day, users, transactions, invoices, bank, interrupted, filled>>

\* The INSERT, which the unique index on user_id refuses if another request of
\* the account was faster.
MakeInvoice(p) ==
  LET u == req[p].user IN
  /\ req[p].at = "bill"
  /\ IF \E i \in invoices : i.user = u
     THEN UNCHANGED invoices /\ Finish(p)
     ELSE /\ invoices' = invoices \cup {[user |-> u, tx |-> req[p].bill, of |-> req[p].tx]}
          /\ Goto(p, "notify")
  /\ UNCHANGED <<day, users, transactions, bank, interrupted, filled>>

\* The mail and the portal.  Only the first request records a transaction.
Notify(p) ==
  /\ req[p].at = "notify"
  /\ IF req[p].leg = 1 THEN Goto(p, "validate") ELSE Finish(p)
  /\ UNCHANGED <<day, users, transactions, invoices, bank, interrupted, filled>>

-----------------------------------------------------------------------------
(* Verified by visa.                                                       *)

Open(p) ==
  /\ req[p].at = "open"
  /\ users' = [users EXCEPT ![req[p].user] = VerifiedBy(p)]
  /\ Goto(p, "login")
  /\ UNCHANGED <<day, transactions, invoices, bank, interrupted, filled>>

\* Mutant: the account is left verified.
CloseNothing(p) ==
  /\ req[p].at = "login"
  /\ Goto(p, "validate")
  /\ UNCHANGED <<day, users, transactions, invoices, bank, interrupted, filled>>

\* The portal has answered: the account is not verified any more.
Close(p) ==
  /\ req[p].at = "login"
  /\ users' = [users EXCEPT ![req[p].user].verified = FALSE]
  /\ interrupted' = interrupted \ {req[p].user}
  /\ filled' = filled \ {req[p].user}
  /\ Goto(p, "validate")
  /\ UNCHANGED <<day, transactions, invoices, bank>>

\* The browser comes back from the bank's site; the transaction to finish is
\* the one saved last.
Return(p, u) ==
  /\ req[p].at = "idle"
  /\ users[u].info # NoTx
  /\ req' = [req EXCEPT ![p] = [Idle EXCEPT !.at = "confirm", !.leg = 2, !.user = u,
                                            !.tx = users[u].info, !.copy = users[u].verified]]
  /\ UNCHANGED <<day, users, transactions, invoices, bank, interrupted, filled>>

\* The bank accepts a transaction once, if the password was right.
Confirm(p, answer) ==
  LET t == req[p].tx IN
  /\ req[p].at = "confirm"
  /\ answer = "accepted" => bank[t].answer = "vbv"
  /\ IF answer = "accepted"
     THEN bank' = [bank EXCEPT ![t].answer = "accepted"] /\ Goto(p, "save")
     ELSE UNCHANGED bank /\ Finish(p)
  /\ UNCHANGED <<day, users, transactions, invoices, interrupted, filled>>

-----------------------------------------------------------------------------
(* The record of the transaction.                                          *)

\* The queries that validate a refused payment are answered from the query
\* cache of the request: nothing was written since the limits were checked.
\* For the others the limits are checked again, and a transaction that is not
\* valid is reported and not recorded.
Validate(p) ==
  /\ req[p].at = "validate"
  /\ IF TooMany(req[p].user, req[p].ip) THEN Finish(p) ELSE Goto(p, "insert")
  /\ UNCHANGED <<day, users, transactions, invoices, bank, interrupted, filled>>

\* Mutant: the card data of a refused payment are saved with the account, too.
RecordAndSave(p) ==
  /\ req[p].at \in {"refused", "insert"}
  /\ transactions' = transactions \cup
       {[tx |-> req[p].tx, user |-> req[p].user, ip |-> req[p].ip, day |-> day]}
  /\ users' = [users EXCEPT ![req[p].user].info = req[p].tx]
  /\ Finish(p)
  /\ UNCHANGED <<day, invoices, bank, interrupted, filled>>

Record(p) ==
  /\ req[p].at \in {"refused", "insert"}
  /\ transactions' = transactions \cup
       {[tx |-> req[p].tx, user |-> req[p].user, ip |-> req[p].ip, day |-> day]}
  /\ Finish(p)
  /\ UNCHANGED <<day, users, invoices, bank, interrupted, filled>>

-----------------------------------------------------------------------------
\* An exception (bank, mail, portal, database), or the end of the process:
\* what was saved remains.
Raise(p) ==
  /\ req[p].at # "idle"
  /\ Finish(p)
  /\ interrupted' = IF req[p].at = "login" THEN interrupted \cup {req[p].user} ELSE interrupted
  /\ UNCHANGED <<day, users, transactions, invoices, bank, filled>>

\* The user disables her account; she may register her card again.
Disable(u) ==
  /\ users[u].verified
  /\ users' = [users EXCEPT ![u].verified = FALSE]
  /\ interrupted' = interrupted \ {u}
  /\ filled' = filled \ {u}
  /\ UNCHANGED <<day, transactions, invoices, bank, req>>

\* AccountsController#additional_fields: meant for those who sign up with a
\* social network, it verifies any account that is not verified.
AdditionalFields(u) ==
  /\ ~users[u].verified
  /\ users' = [users EXCEPT ![u].verified = TRUE, ![u].once = TRUE]
  /\ filled' = filled \cup {u}
  /\ UNCHANGED <<day, transactions, invoices, bank, req, interrupted>>

NextDay ==
  /\ day < MaxDay
  /\ day' = day + 1
  /\ UNCHANGED <<users, transactions, invoices, bank, req, interrupted, filled>>

\* What a request does once it has begun.
Proceed(p) ==
  \/ \E t \in Tx : \E answer \in {"accepted", "refused", "vbv"} : Ask(p, t, answer)
  \/ SaveVerified(p) \/ ValidateInvoice(p) \/ MakeInvoice(p) \/ Notify(p) \/ Open(p) \/ Close(p)
  \/ \E answer \in {"accepted", "refused"} : Confirm(p, answer)
  \/ Validate(p) \/ Record(p) \/ Raise(p)

Next ==
  \/ \E p \in Request :
       \/ \E u \in Account : \E ip \in Ip : Start(p, u, ip)
       \/ \E u \in Account : Return(p, u)
       \/ Proceed(p)
  \/ \E u \in Account : Disable(u) \/ AdditionalFields(u)
  \/ NextDay

Spec == Init /\ [][Next]_vars

\* Every request in progress goes on: the HTTP clients time out.
FairSpec == Spec /\ \A p \in Request : WF_vars(Proceed(p))

-----------------------------------------------------------------------------
(* Correctness.                                                            *)

\* Type correctness; a request past the bank has a transaction.
TypeOK ==
  /\ day \in Day
  /\ users \in [Account -> [verified : BOOLEAN, once : BOOLEAN, info : Tx \cup {NoTx}]]
  /\ transactions \in SUBSET Row
  /\ invoices \subseteq Invoice
  /\ bank \in [Tx -> [user : Account, answer : {"none", "accepted", "refused", "vbv"}]]
  /\ req \in [Request ->
       [at : {"idle", "ask", "refused", "save", "invoice", "bill", "notify", "open",
              "login", "confirm", "validate", "insert"},
        leg : {1, 2}, user : Account, ip : Ip, tx : Tx \cup {NoTx},
        copy : BOOLEAN, bill : Tx \cup {NoTx}]]
  /\ \A p \in Request : req[p].at \notin {"idle", "ask"} => req[p].tx \in Tx
  /\ interrupted \cup filled \subseteq Account

\* The bank has accepted a payment of u.
Accepted(u) == \E t \in Tx : bank[t].user = u /\ bank[t].answer = "accepted"

\* What verifies an account without a payment is known: the form of additional
\* fields, a request that is at the portal in the verified-by-visa detour, or one
\* that was interrupted there.  Nothing else does, wherever requests raise and
\* however they overlap, and disabling the account undoes each of these.
VerifiedHavePaid ==
  \A u \in Account :
    users[u].verified =>
      \/ Accepted(u) \/ u \in interrupted \/ u \in filled
      \/ \E p \in Request : req[p].at = "login" /\ req[p].user = u

\* An invoice is made for a payment of its user that the bank accepted.  It
\* names what her account names when it is loaded again, perhaps the transaction
\* of another of her requests (account_common.rb:316); that one is hers, and the
\* bank has not refused the card.
InvoicesArePaid ==
  \A i \in invoices :
    /\ bank[i.of].user = i.user /\ bank[i.of].answer = "accepted"
    /\ bank[i.tx].user = i.user /\ bank[i.tx].answer \in {"accepted", "vbv"}

\* The limits are checked before the bank is asked and the transaction counted
\* after, on the next day perhaps: requests served at once exceed each limit
\* by less than their number.
LimitOverrun ==
  /\ Yearly < YearlyLimit + Cardinality(Request)
  /\ \A u \in Account : Cardinality(OfUser(u)) < DailyLimit + Cardinality(Request)
  /\ \A ip \in Ip : \A d \in Day : Cardinality(OfIp(ip, d)) < DailyLimit + Cardinality(Request)

Temporary(u) == users[u].verified /\ ~Accepted(u) /\ u \notin filled

\* "temporarily set the user as verified": an account that has not paid does
\* not stay verified, unless the form of additional fields verified it.
TemporaryEnds == \A u \in Account : Temporary(u) ~> ~Temporary(u)
=============================================================================
