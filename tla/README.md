# A TLA+ model of the OpenWISP User Management System

OWUMS registers the users of a public Wi-Fi network, verifies who they are, and
keeps the tables that the FreeRADIUS server of the network reads. This directory
holds its specification: modules that model the program, the instances TLC
checks, and theorems TLAPS proves.

## The system

Several processes share one MySQL database and nothing else; the pages they
serve have scripts that go on asking them:

| process | code | concurrency |
|---|---|---|
| web workers | `app/controllers`, `app/models` | many processes, one request each |
| SIP daemon | `lib/sip_busy_machine.rb`, `lib/mobile_phone_sip_busy_machine.rb`, `lib/daemons` | one process, a thread per datagram and one per callback |
| house keeper | `lib/workers/house_keeper_worker.rb`, `config/backgroundrb.yml` | one worker; its scheduled jobs run one after the other |
| FreeRADIUS (external) | views in `db/migrate/20120509150547_*` | reads `users`, writes `radacct` |
| browsers | `public/javascripts`, the `.js.erb` views | one thread; effects, timers and requests interleave with the user |
| Gestpay, captive portal, OWMW, mail (external) | called from the models | slow, may fail or raise |

The tables are used through ActiveRecord: a process loads a copy of a row,
decides on the copy, and `save` writes the columns it changed. There is no lock
and no version column. Nearly everything hard about this program follows from
that: a copy is out of date as soon as another process writes.

### Components

* **SIP daemon.** State: the mutex `@serving_m`, the register `@serving_h`, the
  threads. A user proves that she owns a phone number by ringing a verification
  number; each INVITE is served by a thread which registers the call, answers
  *trying*, *ringing* and after 8 seconds *busy*, and runs the callback in a
  second thread. Hard: SIP servers retransmit, so two threads may hold the same
  call; the lock is taken by polling, with a limit, and released by hand; a
  reply may fail; the daemon may be restarted. Correct when one call is served
  by one thread, the register holds the calls being served, and threads end.
* **Account life.** State: `verified`, `verified_at`, `active`, `recovered` and
  the dates of a row of `users`. Written by sign-up, social login, the account
  page, operators, the callback, payments and the house keeper. Hard: each of
  them works from a copy. Correct when an account moves through *pending,
  enabled, disabled, removed* in that sense only, and a password is recovered
  only by somebody whose identity was verified before.
* **House keeper.** State: none but the copies in a running loop. Every minute
  it removes registrations that timed out, every day accounts disabled for long;
  card accounts are deactivated instead. Hard: the loop works from the result of
  one query, and an exception leaves the job. Correct when it removes what has
  expired, and nothing else.
* **Card payment.** State: `credit_card_info`, `credit_card_transactions`,
  `invoices`, and the row of the account. Hard: the bank is asked between
  loading and saving, limits are checked before and recorded after, a mail or
  the captive portal may raise between two saves, and the verified-by-visa
  detour verifies an account for a moment.
* **Configuration cache.** State: `@@cache` of each process, the shared cache,
  the table. Hard: filled and invalidated by several processes and threads.
* **RADIUS accounting.** State: `radacct`. The house keeper closes sessions that
  were never closed and completes the access point of open ones, while
  FreeRADIUS writes the same rows.
* **Social login.** State: `social_auths` and the account made for an identity.
  Hard: user name, e-mail and link are validated by a SELECT before the INSERT,
  in requests that overlap, and the account and its link are two saves. Correct
  when an identity is signed in to the account made for it, and to one only.
* **Password recovery.** State: the perishable and the single access token and
  `recovered`. Hard: a page polls while a callback of the SIP daemon saves the
  same row, and every save anywhere in the program renews the token. Correct
  when a token changes one password, and only after the call or the mail.
* **RADIUS groups, checks and replies.** State: `radius_groups`,
  `radius_checks`, `radius_replies`, `radius_groups_users`. Hard: uniqueness is
  looked up and not enforced, and the links of a removed record are deleted
  after the transaction that removes it. Correct when FreeRADIUS finds an
  account in the groups it was given, and nothing is left of what was removed.
* **Registration, verification and payment pages.** State: the document, its
  effects in their queues, its timers, the requests it waits for; behind it the
  account, which the SIP daemon verifies and the house keeper removes. Hard:
  effects, timers, polls and answers come in any order between what the visitor
  does, masks and messages are toggled and not set, and the detour of a payment
  shows in the polls. Correct when what is seen in the end fits what was chosen,
  an account that was made is not hidden behind errors, a payment locks its form
  and takes back all it raised, and a page that is settled is left.
* **Statistics, users and forms in the browser.** State: graphs that are asked
  for, dates, boxes, the spinner, selected rows; the language of the session,
  which all tabs share; the roles of an operator. Hard: dates go through the
  formats of the server, of the calendar and of a session that may have changed,
  addresses depend on where the program is installed, effects queue, and two
  operators' updates of the same roles overlap. Correct when a graph shows the
  statistic and the dates of its page, dates mean what was picked, and nobody's
  choice of roles gives what no one chose.
* **Mail, other views and helpers, captcha; vendored scripts.** See *Not
  modelled* below.

## The modules

In the order they were written, the most important first.

| module | models | abstract specification | instances | proofs |
|---|---|---|---|---|
| `SipBusyMachine` | the SIP daemon | `CallRegister` | `MCSipBusyMachine`: `MCSip` | `SipBusyMachineProofs` |
| `UserLifecycle` | the state of accounts, and all that write it | `AccountStates` | `MCUserLifecycle`: `MCLife`, `MCLifeStaleSweep` | `UserLifecycleProofs` |
| `CardPayment` | verification by credit card | | `MCCardPayment`: `MCCardSafety`, `MCCardTemporary` | `CardPaymentProofs` |
| `ConfigurationCache` | the settings and their copies | | `MCConfigurationCache`: `MCConfig` | `ConfigurationCacheProofs` |
| `SocialLogin` | signing in with a social network | | `MCSocialLogin`: `MCSocial` | `SocialLoginProofs` |
| `RadiusAccounting` | `radacct` and the jobs on it | `AccountedSessions` | `MCRadiusAccounting`: `MCRadius` | `RadiusProofs` |
| `PasswordRecovery` | both ways to a new password | | `MCPasswordRecovery`: `MCRecovery` | `PasswordRecoveryProofs` |
| `RadiusAuthorization` | groups, links, checks, replies | | `MCRadiusAuthorization`: `MCAuthorization` | `RadiusProofs` |
| `Visitor` | the pages of one who signs up | | `MCVisitor`: `MCVisitor` | `BrowserProofs` |
| `Console` | the pages of one who has signed in | | `MCConsole`: `MCConsole` | `BrowserProofs` |

`Visitor` composes `RegistrationPage` and `VerificationPage` (with `CardFields`)
over `Visit`, what both have in common; `Console` composes `StatisticsPages`
(with `DateRange`), `UsersPage` (with `RemoteActions`) and `Forms` over `Desk`.
Both stand on `Document`, the page the browser shows, and `Effects`, the queues
of jQuery. Modules that are proved about together (`RadiusProofs`,
`BrowserProofs`) name their specification, its parts and their type invariant
after themselves: `AccountingSpec`, `VisitorInit`, `ConsoleTypeOK`.

`UserLifecycle` is the composition: the steps of web requests, SIP callbacks,
payments and the house keeper on the rows they share are disjuncts of its
`Next`. The other modules each look closer at one of these processes and leave
to it the columns it has; where one does, its header says so. A step in a module
is what one process does between two points where another may run: two
statements that load and save at once are one step, everything between which a
bank, a telephone, another query or another thread comes is at least two.
Operators whose comment starts with *Mutant* are plausible mistakes in the
action that follows them; nothing uses them but the tests of the properties.

### Abstract specifications

`CallRegister` is what `@serving_h` promises without lock, retries and replies:
a key is served by one thread, only while registered; an abandoned registration
lasts until a restart. `SipBusyMachine` implements it (`ImplementsRegister`:
`holds` is the key of the threads between insertion and deletion, `stuck` the
keys of threads that gave up). `AccountStates` is the life of an account as its
owner sees it. `UserLifecycle` implements it (`ImplementsAccountStates`): the
status is computed from `verified` and `verified_at`, so that an account can be
disabled and enabled, and never returns to *pending* or from removal.
`AccountedSessions` is what a reader of `radacct` may rely on: a session begins
once, is closed with a length between nothing and the longest that was reported,
perhaps again with another, is never open again, and nothing is heard of one that
was deleted. `RadiusAccounting` implements it without an offset of local time
(`ImplementsSessions`): the state is computed from the row and its
`AcctStopTime`, the length from start and stop; packets that are late and copies
that are stale are steps of it, or do not show. The three refinements are checked
by TLC and proved.

### SipBusyMachine

`pc[t]` runs through `serve_sip_request`; `serving` is `@serving_h`, `mutex` is
`@serving_m`, `retries[t]` is `lock_retry_count`, `callback[t]` is the
callback's thread, `leaked` the keys of line 272.

| actions | code |
|---|---|
| `Receive`, `Dispatch`, `SendCancelOk` | `run`, `parse_*_header`, `send_sip_cancel_ok` |
| `Acquire`, `Retry`, `GiveUpBefore`, `GiveUpAfter`, `Unlock` | the two polling loops around `try_lock` |
| `CheckNew`, `CheckSeen`, `Delete` | the register |
| `Validate`, `ValidateRaises`, `CallbackEnds`, `Join` | `valid_phone_numbers?`, which may raise, `callback`, `cb_thread.join` |
| `SendTryingAndRinging`, `SendBusy`, `SendFails` | the replies; one to an unreachable server raises and `ensure` runs, without the join |
| `Restart` | `TERM`, `kill` and the daemon script |

A thread whose reply raised deletes its key while its callback runs on
(`LeftBehind`), and a retransmission starts a second one. `OneCallbackPerCall`
says that this is the only way to two callbacks of one call.

### UserLifecycle

`rows[i]` is a row: method, `verified`, `verified_at # NULL` (`once`), `active`,
`recovered`, `created_at`, `updated_at`. `work[p]` is a callback or a payment
with its copy, `keeper` the running sweep with its copies. `SetVerified` is
`verified=`; `Update` is `save`, which writes the columns that differ from the
copy. A copy holds only the columns its process looks at (`Copy`, `Found`). Web
requests (`SignUp` to `OperatorDestroy`), `CallbackLoad/Verify/Recover/Dies`,
`PaymentLoad/Accepted/Refused`, `StartSweep`, `NextLoop`,
`KeeperKeeps/Raises/Destroys/Deactivates` each stand for the handler
`PROJECT.json` names. `Raising` accounts are those the sweep raises on, and
`Held(i)` says that one of them stands before `i` (`ExpiredCleaned`).

### CardPayment

`Start` loads the account and checks the limits, `Ask` is the bank's answer,
`SaveVerified`, `ValidateInvoice`, `MakeInvoice` and `Notify` the steps of
`credit_card_identity_verify!`, `Open` and `Close` the two saves of the detour,
`Return` and `Confirm` its second request, `Validate` and `Record`
`transaction.save!`, `Raise` any of the calls that can fail. An invoice is
looked for by the validation (`ValidateInvoice`) and refused by the unique index
on `invoices.user_id` (`MakeInvoice`;
`db/migrate/20130524081315_create_invoices.rb:15`), so an account has one at
most; it names the transaction its account named when it was loaded again, which
is why an invoice here has `tx`, and `of`, the transaction of the request that
made it. `AdditionalFields` is the form that verifies an account without a
payment. History variables: `interrupted`, accounts whose detour was cut short,
and `filled`, accounts that form verified. Operators, who may verify an account
too, and removals are left to `UserLifecycle`. Assumed of what is
outside `src/`: within one request the query cache of Rails 3.0.20 answers a
repeated count, a transaction of MySQL reads a snapshot, and the mails of
`after_create` do nothing else.

### ConfigurationCache

`rows` is the table as committed, `pending` what open transactions wrote, `file`
is `Rails.cache` (the directory `tmp/cache` exists, as README.md:55 asks, so it
is a file store), `cache[p]` is `@@cache`. The threads of the SIP daemon may be
interrupted between any two statements of `get` and `cache`; other processes
have one thread. `Set`, `Forget`, `Delete`, `Commit` and `Rollback` are a save
with its `after_save`.

### SocialLogin

`at[r]` runs through `find_or_create_from_oauth`: `Find`, `Load`, `Name`,
`Validate`, `Insert`, `LinkValidate`, `Link`, `Notify`. `num[i]` is the number
appended to a user name that is taken. Only the user name has a unique index
(`InsertRefused`). `Crash` is a web process that dies between two statements; it
leaves an account without a link, whose e-mail refuses the identity from then
on, so `RetryWorks` leaves those out (`disturbed`). An account that is removed
between the choice of two names may give an identity two accounts, so
`OneAccountEach` is stated without removals.

### RadiusAccounting

A job (`doing`, `todo`, `copied`) selects rows and treats its copies one by one:
`Recalculate` and `Invalidate` close a session, `Convert` puts an access point
in front of `CalledStationId`. `save` writes changed columns only. What the
model has and no property claims: a `Stop` that arrives between the query and
the save is overwritten (README.md:424-439 describes the cleanup without that
case); a NULL `AcctSessionTime` ends the cleanup (line 278) and leaves the rows
after it open; with `local_time_radius_accounting` the stop of a cleaned session
is off by the offset of local time (lines 280, 313-316).

### PasswordRecovery

`row` holds the two tokens and `recovered`; `client[p]` a browser window (`stray`:
its token is gone, the page put the start page it was redirected to into itself,
and goes on asking, with the same answer). `Ask`,
`Poll`, `Edit`, `Update` are the pages of the recovery by telephone, `Mail` of
that by e-mail, `Call` and `Recover` the saves of a callback, `OtherSave` any
other save of the row. Authlogic 3.0.3 is external: a save renews the perishable
token, a token is found for ten minutes. Its persistence token, which logs
sessions out, is not modelled. Two updates that have loaded one token both
succeed and one of the two passwords is lost (`raced`); any save of the row
makes a mailed link useless.

### RadiusAuthorization

`key[x]` is the key of a group, a check or a reply, `member` counts the rows of
`radius_groups_users`, `due[u]` is a history variable: the groups an account was
last given.

| actions | code |
|---|---|
| `Creation`, `Change`, `Validate`, `Insert`, `Update` | `create` and `update` of the three controllers, `validates_uniqueness_of` |
| `DestroyRow` | `destroy` of a check or a reply |
| `Destroy`, `Cascade` | `destroy` of a group or an account in its transaction, `:dependent => :destroy` |
| `List`, `Clear` | the links, after the transaction |
| `SignUp`, `OperatorCreate`, `Register` | `create` of an account with its groups |
| `Edit`, `EditCommit` | `radius_group_ids=` in `UsersController#update` |
| `Fail` | any of these is broken off |

Rails 3.0.20 is external: `destroy` of a record with a `has_and_belongs_to_many`
runs its transaction and then clears the association from the list it loads;
`*_ids=` deletes and inserts the difference to the list it loads. Orphans of a
pair that was removed from both ends stay, and no view shows them.
`default_radius_group` is a constant, and ids are never reused.

### Effects

An element has a visibility and a queue of effects of which the first runs
(jQuery 1.6: `fx` queues, `stop` is never called). `FadeIn`, `FadeOut` and
`SlideToggle` append, `Finish` ends the first and starts the next, `Hide` acts
at once. An effect that starts decides by what is visible then. `TogglePop` and
`ToggleMessage` are the program's own plugins.

### Visitor

`doc` is the document with the state of its scripts, `account` what the server
has, `posts` and `payments` the requests that are under way. `setting` chooses
the page (overlay or mobile phone), whether `enhance_registration_form` is on,
and whether the visitor is *patient*: uses the mouse, lets effects end and
respects masks. One who is not goes on with the keyboard; those behaviours are
explored too, and the properties that fail of them say that they are of a patient
visitor.

| actions | code |
|---|---|
| `Change`, `FillEmail`, `Submit`, `Stop` | the handlers of the sign-up form and the browser |
| `Create`, `Answered`, `Revisit` | `AccountsController#create`, `new`, `require_no_account` |
| `Key`, `KeyReleased`, `Pay`, `Timer`, `Answer`, `AnswerFailed`, `Toggle`, `WindowLoads`, `GoToAccount`, `Proceed`, `Return` | the card form, its overlay, its lock, its messages, the script that answers |
| `PollRead`, `PollLost`, `Poll` | `periodicallyCheckVerification` and `status_json` |
| `Charge`, `EndDetour`, `Called`, `Expire` | what `CardPayment`, `SipBusyMachine` and `UserLifecycle` do, as this page sees it |

A digit goes in with its keydown (`Key`, `KeyDown`) and the focus moves on with a
keyup (`KeyReleased`, `KeyUp`); keys overlap, as `held` says. `nines`, `lost` and
`rolled` are history: the fields a 9 filled, those that lost a digit, and those
that did because the key that filled them was still down.

The part of `gestpay_verify_credit_card.js.erb` for an account that has expired
(lines 23-31, `flash[:expired]`) is never reached: `require_account` redirects a
request without an account before the action runs. It is not modelled.

### Console

`site` is an installation: the path of the routes, `owums.subUri`, whether the
page links to Italian, whether the browser draws graphs, and the pages that are
visited. `session` is shared by tabs: `OtherTab` changes its language or signs
out behind the page (`fresh`). A graph's script is a record (what it asks for,
where it draws); `Path` is `owums.path`, which compares the beginning of the
path as text with `subUri` (`Begins`, with the pairs of names `Beginnings`, of
which one begins with the other), `Served` the routes with
`load_stat_data`. In `DateRange` a date is a number and its text the two numbers
written, day and month in the order of the format; `Localize` and `ServerRead` are
the server's, `Write`, `Read` and `Pick` the calendar's. In `Forms` an update of
an operator's roles reads, writes and commits (`StartUpdate`, `Commit`,
`Rollback`) while a `Rival` does the same; `saw` is what its operator saw
highlighted when it was sent, `group` the choices of the updates that overlapped.

## The runs

TLC needs about two minutes for each at most, with two workers. Where the
configuration says `CHECK_DEADLOCK FALSE` the bounds (transactions, tokens,
days, ids, saves) stop the system in the end; the others check deadlock too.

| run | bounds | shows |
|---|---|---|
| `sip` | 2 threads; a trusted, a trusted unreachable and a foreign server; 2 callers; 1 retry | register and callbacks are exact under retransmission, give-ups, failing checks and replies and restarts; threads end, calls are released (`ThreadsEnd`) |
| `life` | 2 accounts of any method, clock 0..1, timeouts 1; 2 callbacks and 1 payment as long as there has been 1 account (`MaxBusy`) | recovery, removals; refinement; what expires is cleaned up, unless the sweep raises on an account before it |
| `life_stale_sweep` | 1 account, 1 callback | *violation*: the sweep destroys an account verified since its query |
| `card_safety` | 1 account, 2 requests, 3 transactions, 2 days, limits 1 | who is verified has paid or filled in the additional fields; invoices; the overrun of limits |
| `card_temporary` | 2 transactions, limits 3 | *violation*: an interrupted detour leaves the account verified |
| `config` | 2 daemon threads, 1 web worker, 2 keys, 2 saves | only committed values are cached; `get` of a process with one thread does not raise |
| `social` | 2 identities of one name, 2 requests, 2 accounts, 1 crash | own account, one account, coming again works |
| `radius` | 2 sessions (one untimed), house keeper and rake, 3 days | lengths; refinement; stale sessions get closed |
| `recovery` | 2 windows, 2 callbacks, 6 tokens | tokens work once and after the call; the page does not wait for ever |
| `authorization` | 2 requests, 1 account, 2 groups, 2 names, 1 row, 2 attributes | keys, lists of groups, nothing left of what was removed |
| `visitor` | overlay with a patient visitor and with one who is not, mobile page; 2 sign-ups and 2 payments under way (`MaxPosts`, `MaxPayments`), 3 effects waiting (`MaxEffects`), 2 fields of 2 digits, keys 7, 8 and 9 | the form fits its method, made accounts are shown, digits, the lock, the message, the bank's form; settled pages are left |
| `console` | 4 installations, English, Italian and Spanish, a year of 2 months of 3 days, 2 charts, 1 list, 1 heading, 2 toggles waiting (`MaxToggles`), 2 lists, 2 searches and 2 updates under way (`MaxLists`, `MaxAsks`, `MaxUpdates`), 3 effects of the spinner, 2 of the notice (`MaxSpins`, `MaxCloses`), 2 roles | graphs, dates, boxes, spinner, roles |

Why these bounds are enough: every hazard here is between two actors, or between
an actor and a copy of its own, so two of each kind meet in every order, and one
row is what they meet over. Two threads and two callers give retransmission and
two calls at once; timeouts of one with a clock of two instants give *before*
and *at* a boundary, which is where `<=` and `<` differ; limits of one with two
requests give the overrun; three transactions give the one after it; two
accounts give the one that holds the sweep back and the one behind it, while
callbacks and payments meet the sweep over one account (each is of one row, and
the refinement and the safety properties are proved for any number); the digits
7, 8 and 9 are the one beyond the end of the range of key codes, the last within it and another; six tokens
let both windows ask twice and a third save come between. Two months of three
days have dates that read the same, another date or none when day and month are
exchanged; three effects let a
queued one start against what an earlier one left; two requests under way can be
answered in either order. What more actors could do is what the theorems are
for. The properties that are not proved for all
sizes are listed below. `authorization` has one check or reply, so `KeyOnce`
meets its collisions among groups there; the action is the same for all three
tables.

### Fairness

* `SipBusyMachine`: every thread that can go on does, and callbacks end: their
  I/O has timeouts, and the Ruby scheduler preempts threads.
* `UserLifecycle`: time passes, a started sweep goes on, and each sweep is
  started again and again although the other may be running when it is due: that
  is the schedule of `config/backgroundrb.yml` (strong fairness on
  `StartSweep`). Users, operators, callbacks and payments need not do anything.
* `CardPayment`: a request in progress goes on. No one need come back from a
  detour.
* `RadiusAccounting`: the house keeper selects and treats; FreeRADIUS and rake
  need not do anything.
* `SocialLogin`: requests go on, and people come again (`RetryWorks` is about
  them).
* `PasswordRecovery`: the page polls every two seconds
  (`periodicallyCheckVerification`), the user rings again and not every callback
  fails.
* `Visitor`: the browser follows a redirect and the poll goes on as long as the
  page is there (`setInterval`); answers may be lost, but not for ever (strong
  fairness on `Poll`). Nothing is asked of the visitor, nor of the bank.
* `ConfigurationCache`, `RadiusAuthorization` and `Console` have safety
  properties only.

## The theorems

All hold for every value of the constants that satisfies the assumptions of the
module (sets of processes and records of any size, any timeouts and limits).

* **`SipBusyMachine`**: `TypeCorrect`, `MutexHeld`, `CallsServedOnce`,
  `RegisterIsExact`, `CallbacksDoNotOverlap`, and `DaemonImplementsRegister`.
  `RegisterInv` (one thread per call, and the register is the calls of
  registered threads and the leaked ones) is inductive; with `CallbackJoined`
  (who runs a callback is registered, or left it behind when a reply raised) it
  gives that of two callbacks of one call one was left behind.
* **`UserLifecycle`**: `TypeCorrect`, `VerifiedAreStamped`,
  `RecoveredWereVerified`, `RemovalsJustified`, and `LifeOfAnAccount`, the
  refinement. One lemma, `RowChange`, says what any step may do to a row,
  however old the copy. It needs that copies are behind their rows
  (`CopiesBehind`: an account that was ever verified in a copy is so in the
  table) and that the copies of a sweep satisfied its query (`SweepCopies`).
* **`CardPayment`**: `TypeCorrect`, `VerifiedPaid`, `InvoicesPaid`,
  `LimitsNearlyKept`. A request past the bank works on an accepted transaction
  of its user (`Owned`, `AcceptedBefore`), and what an account names is hers and
  not refused, so that an invoice can name nothing worse; transactions counted plus requests
  that may still record one stay below limit plus requests (`Budget`). The
  invariants alone are not inductive: they say nothing of requests that are
  about to save.
* **`ConfigurationCache`**: `TypeCorrect`, `OnlyCommitted`, `AloneNeverRaise`.
  `OneWriter` (an open transaction owns its row), `Committers` and
  `AllCommitted` (whatever is in a copy, or on its way to one, was committed),
  `AloneKeeps` (between two steps of the one thread of a process its `@@cache`
  stays).
* **`SocialLogin`**: `TypeCorrect`, `OwnAccounts`, `UniqueIfAlone`,
  `OneAccountForEach`. `Making` (the account in hand was made for the identity),
  `Alone` (a request that is alone still finds what it validated), `Numbered`
  (numbers behind a name are used in order, while no account is removed: so two
  requests that validate at once choose the same name, and the index lets one
  through).
* **`RadiusAccounting`**: `AccountingTypeCorrect`, `LengthsReported`, `OnePrefix`,
  `ClosedStay`, and `RowsImplementSessions`, the refinement (if
  `LocalOffset = 0`, as with `NeverOverstated`). `NotYetClosed`, `Reported` (no time in a copy exceeds what was
  reported) and `Bare` (a copy in a conversion has no prefix).
* **`PasswordRecovery`**: `TypeCorrect`, `TokensUsedOnce`, `CallsAnswer`,
  `GoodLinksRecovered`. All rest on saves making tokens nobody holds: `Dead`,
  `Late`, `Unanswered`.
* **`RadiusAuthorization`**: `AuthorizationTypeCorrect`, `ListedWhereDue`, `NothingLeftOver`,
  `KeysOnce`. `Free` (a key found free is free or has a rival), `EditsAlone`
  (what an edit has seen is what is there), `RowsInHand` and `Leftovers` (what
  is left is in the hands of a removal, or late). `ListedAsDue` is not
  inductive: that a group in the form and not in the list has no link yet must
  be known for groups that have been removed since, too.
* **`Visitor`**: `VisitorTypeCorrect`, `FormFits`, `NoSecondRequest`,
  `OnlyNinesAndOverlapsLose`, `MaskFollowsPayment`, `TogglesPair`, `BankIsShown`, all from
  `VisitorInvariant`: for any number of requests, payments and effects waiting,
  fields of any width. None of these is inductive: each speaks of what is seen
  when effects have ended, and a step must be judged while they wait. An element
  that fades is closing exactly while its queue begins with `out` (`Fades`); its
  `Fate` is what the last effect in the queue makes of it, and `Finish` leaves the
  fate alone (`FinishFades`), because an effect that would change nothing is
  skipped (`BeginFades`). `RegistrationSound` says that the fates of the form and
  the social buttons fit the method, `VerificationSound` where a digit may be
  lost (`NumberSound`: the focus in a full field means a 9 filled it or the key
  that did is still down), `OnePayment` that of a patient visitor the fates of
  spinner and message, the mask and the timers are those of the one payment in
  `waiting`. `VisitorInv` adds what is on its way between page and server: with
  the mask one sign-up at a time, the one the page waits for (`OneRequest`); and
  of a patient and undisturbed visitor, that a payment under way is of the page
  that is open, with the account in the state that goes with it (`OnThePage`,
  `InStep`).
* **`Console`**: `ConsoleTypeCorrect`, `GraphsLandWhereRouted`,
  `DatesReadAsPicked`, `BoxesFit`, `SpinnerIsTrue`, `RolesChosen`, all from
  `ConsoleInvariant`. An element that slides changes with every effect, so its
  queue is counted instead (`Slides(e, f)`: some sequence of booleans goes from
  what is seen to `f`, turning at each effect that toggles); a box is in order if
  its effects lead to what its heading says, and a list that has come is in it or
  waits in its queue (`BoxSound`). Dates: writing and reading in one order
  are inverse (`WriteReads`, from the arithmetic of `DayAndMonth`), and page and
  server have the same where the format agrees (`OneFormat`), so that
  `DatesSound` carries the picked date from the calendar over the server and
  back. Roles: what the updates that overlapped agree on is held at every commit
  (`GroupSound`), because the roles that were added or removed since a running
  one read them were so by one of the group (`SeenSound`). `GraphsLandWhereRouted` has a
  hypothesis on the installation, `Routed(site)`: the program is at the root of
  its host, with no `owums.subUri` that the name of a page begins with, under one
  segment that `owums.subUri` names, or under `owums`. The
  others are those that `owums.path` does not find, listed below; every site of
  the run is `Routed`.

Assumed in them: the named ASSUMEs of the modules, which TLC evaluates in the
runs; nothing else.

**Only proved**: the type invariants of the modules on the server, that the
verified are stamped (`StampedWhenVerified`), that names stay unique
(`UniqueAlone`), that a called station has one prefix (`PrefixedOnce`) and that
closed sessions stay closed (`ClosedStays`, with any offset) hold for every
instance by these theorems, and no run repeats them.

**Only model-checked**: what is temporal under fairness (`ThreadsEnd`,
`ExpiredCleaned`, `RetryWorks`, `StaleClosed`, `WaitingEnds`,
`LeavesWhenSettled`): it needs `ENABLED`, which is out of the reach of the
prover. Every other property of a run that finds no violation is stated by a
theorem.

## What was found

Two statements of the documents or comments do not hold of the code, each shown
by a run that finds the violation:

1. `life_stale_sweep`: the house keeper destroys an account that was verified by
   a call after its query (`house_keeper_worker.rb:48`), against `user.rb:136`.
2. `card_temporary`: if the captive portal raises, an account that has not paid
   stays verified (`account.rb:342`), against the comment at line 338.

Noticed while modelling, without a run of their own.

On the server:

* `verification_expire_timeout` raises for most methods
  (`account_common.rb:259`): one unverified account of such a method keeps the
  sweep from all unverified accounts behind it, and from the card accounts of the
  second loop, as long as it is there. That is against README.md:49, "deleting
  users when the registration procedure times out". `ExpiredCleaned` in `life`
  has two accounts and makes this one exception (`Held`); without it TLC finds it
  violated.
* `additional_fields` is meant for those who come from a social network
  (`accounts_controller.rb:131`), and verifies any account that is signed in and
  not verified (line 143), one that waits for its card payment included.
  `VerifiedHavePaid` and `TemporaryEnds` name it (`filled`).
* An invoice names the transaction the account names when it is loaded again
  (`account_common.rb:312`), which may be that of another request of the same
  user, even one the bank has yet to finish (`InvoicesArePaid`). A second payment
  of an account raises at its invoice, as `user_id` is unique (`invoice.rb:13`).
* A reply that fails leaves the callback running and the call open to a second
  one (`sip_busy_machine.rb:260`, `LeftBehind`).
* Settings read between the `after_save` of a save and its commit stay in
  `tmp/cache` (`configuration.rb:25`), and a restart does not make the new ones
  effective (README.md:196).
* A save empties `@@cache` of its own process only.
* The daily limit of a user is counted over all days
  (`credit_card_transaction.rb:41`); the warning at line 69 compares with `==`
  and is missed if two transactions are counted at once; a payment the bank
  accepted is not recorded if `verify!` raises (`account.rb:331`).
* A comment at `user.rb:219-222` tells nil from false in `recovered`, and
  `unless self.recovered` does not, so the first verification marks a recovery
  too.
* A key stays registered after twenty failures of the lock
  (`sip_busy_machine.rb:272`, `leaked`).
* `users_controller.rb:109` sets `radius_group_ids` to nil for operators who are
  not allowed to update at all.
* An operator whose roles are all deselected keeps them: the form then sends no
  `roles`, and `roles=` is not called (`NoUpdate`, `Commit`).

In the browser:

* Key codes 57 and 105, the digit 9, do not move the focus on
  (`application.js:374`): what is typed on into a field filled by a 9 is lost. So
  is what is typed before the key that filled the field is up, as the digit goes
  in with the keydown and the focus moves on with the keyup. `DigitsKept` says
  that nothing else is.
* The page that waits for a recovery asks on when its token was replaced: the
  redirect is followed by the request, and the start page is shown within the
  page (`stray`).
* The calendars are told the format of Italian only, and find it by a link of
  the page (`owums.graphs.js:66`): in German, Slovene, Friulian and Spanish, and
  in Italian without the link, they exchange day and month with the server, or
  empty a date they cannot read. In Spanish the printed date has a time, and a
  date without one falls back to the default (`stats_controller.rb:44`).
  `DatesAsPicked` is of the languages that agree.
* The quick search sends nothing: its field's `parent('form')` is empty
  (`application.js:551`). The spinner turns all the same, as after any click
  into the form that sends nothing, until the next answer comes.
* A poll that reads the moment in which the detour verifies the account leaves
  the page, and the bank's page is not opened (`accounts_controller.rb:252`);
  `BankOffered` is of visitors no poll did this to.
* Nothing handles a payment request that fails: the mask stays until the page is
  loaded again (`AnswerFailed`).
* The lock over the overlay is toggled; who pays twice with the keyboard opens
  the form with the first answer while the second payment is asked for.
* `owums.path` finds its prefix only if it is the first part of the path; a
  prefix of two parts, or one Passenger adds without `owums.subUri`, is not
  found. It compares text and not parts (`application.js:570`): at the root of a
  host with `subUri` "acc" the graphs of the account page are asked for under
  `/acc`.
* Rows of a table are highlighted by the server's attributes; checkboxes a
  browser restored after a reload are not (`application.js:605`), and a click on
  such a row shows the opposite of what it does (`Restore`).

## Not modelled

* **Signing in and out, who may open a page.** Authlogic keeps the sessions, the
  permissions are tables in the controllers; in `Console` an operator has the
  roles the pages ask for.
* **Statistics, search, export, online users**: the queries. They change
  nothing; which of them a page asks for is in `StatisticsPages`.
* **Mail, other views and helpers, captcha.** Rendering and delivery. That a
  delivery may raise is in `CardPayment` and `UserLifecycle`.
* **Scripts**: the formatters of labels and the export of the charts, the
  adjustment of menus, notes hidden when scripts run, the effects of the front
  page (Kwicks, accordion), the copying of the phone number into the user name
  (the server sets it again for accounts by mobile phone). None keeps a state
  another script reads.
* **Vendored scripts** (jQuery, jQuery UI, jQuery mobile, Highcharts, jHtmlArea,
  password strength): what the pages rely on is in `Effects`, `UsersPage`,
  `DateRange` and `RemoteActions`.
* **Columns no other behaviour depends on**: profiles, attributes' `op` and
  `value`, priorities, notes.
* **The other jobs of the house keeper** (an external command, stale sessions
  and jobs): single statements.

## What is left

In this order: what a page promises the server, as abstract specifications (one
request to the bank at a time, one sign-up); the details of `UsersController` (the ticket, the notices); a
composition of `SipBusyMachine` with `UserLifecycle` over the two saves of the
callback.
