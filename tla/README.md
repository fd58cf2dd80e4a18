# Matrimony backend: a TLA+ development

The repository is the Django backend of a matrimonial service: members register,
buy a plan, spend the plan's quotas on profiles, contacts, interests, chats and
horoscope reports; staff sell and import on members' behalf, and an office hires
the staff, verifies their sales and pays them. This directory models the parts
whose correctness depends on what happens *between* two statements: payment
fulfilment first, then everything else in which two requests, a crash or a stale
row can meet.

Paths below are relative to `src/`.

## 1. The system

Everything is one Django project served by Daphne (HTTP and the chat sockets;
every synchronous view runs in a thread of its request), with Celery for periodic
work and imports, over one MariaDB database and a Redis cache
(`docker-compose.yml`, `matrimony_backend/settings/base.py`). Four facts about
this setting decide what can go wrong:

* `ATOMIC_REQUESTS` is not set. Each ORM statement outside an explicit
  `transaction.atomic` block commits at once, and other requests run in between.
* The isolation level is READ COMMITTED (Django's default for MySQL and MariaDB;
  the settings do not override it), so there are no gap locks.
  `select_for_update` locks the rows it finds; a query that finds nothing locks
  nothing.
* `request.user` and its related rows are cached objects. A view that reads
  `user.user_plan` twice sees the same object twice.
* `save()` without `update_fields` writes every column, those of a row read long
  ago included.

### Inventory

| part | source | state | operations | hard behaviour | what makes it correct |
| --- | --- | --- | --- | --- | --- |
| plan purchase and fulfilment | `plans/` (payments, webhook, fulfilment, services) | `plans_user_plan`, `plans_transaction`, `plans_razorpay_order`, `plans_service_charge`; orders at Razorpay | create order, verify, webhook, manual purchase, pay remaining service charge, remove plan | verify and webhook race, redelivery, crash between commit and order update, price edits, first purchase without a row to lock | each captured payment recorded once, for its amount; each settled; nothing already bought is lost |
| astrology PDF orders | `astrology/services/razorpay_pdf_orders.py`, `astrology/views.py` | `AstrologyPdfCredit` (protects its transaction) | order, verify, download | as above; a product bought twice | one credit per recorded payment |
| plan limits and unlocks | `plans/services.py`, `plans/models.py`, `profiles/views.py`, `plans/views.py` | usage counters of the plan row, `plans_profile_view` | open profile, unlock contact, counters for interest, chat, report | counters saved from a cached row, renewal in between, two lock orders | nobody pays twice for one profile; allowance never passed; counters of different features independent |
| porutham reports | `astrology/views.py`, `astrology/services/` | `astrology_porutham_result` | run, read | report and its charge are two statements | one charge per pair |
| interests and chat start | `plans/views.py` | `plans_interest`, `plans_contact_view`, conversations | send, respond, cancel, start chat | crossing interests, cancel against accept, block while starting | no pair has two live interests; a chat needs consent and is charged once |
| blocks | `blocks/` | block rows | block, unblock | a block while a chat is open | a blocked member reaches nobody |
| chat | `chat/` | conversations, messages; sockets | REST send, socket send, read marks | the socket checks less than the REST view does | only connected, unblocked members exchange messages |
| accounts | `accounts/` | users, OTP cache and records, pending registrations | send/verify OTP, register, login, tokens | rate limit and attempts are get-then-set on the cache; the code is kept twice | only the newest code is good, once; attempts are bounded; numbers are unique |
| staff desk and cash payments | `admin_panel/staff_payments`, `admin_panel/cash_payments` | payment entries, OTP confirmations, reviews | record, confirm, verify at branch, verify/reject/void at the office | verification reads without a lock; a decision is two statements; a void looks before its transaction | an entry is booked once; a sale needs its confirmation; a void takes only its own sale |
| staff subscriptions | `admin_panel/staff_subscriptions`, `admin_panel/subscriptions` | the same plan rows | activate, extend, edit | another writer of the plan row | as for purchases |
| commissions, payroll | `admin_panel/commissions`, `admin_panel/payroll` | commission and salary rows | approve, pay, cancel; generate payroll, approve, pay | status checked, then saved; existence check outside the transaction | paid stays paid; a commission is in one salary; a month has everybody or nobody |
| horoscopes | `astrology/`, `admin_panel/horoscope_mgmt`, the signal in `astrology/signals.py` | bridge rows polled by a Windows program | edit birth details, push, compute (external), mark | inputs change while the program computes; labels derived from a chart that is gone | the chart is that of the inputs; every complete row gets one |
| bulk upload and legacy import | `admin_panel/bulk_upload`, `profiles/legacy_import` | job rows, validated rows in the cache under a token, Celery tasks | validate, import now or later, report | an import asked for twice, the late "queued" save, the token's expiry, a row or a file that fails half-way | a row becomes one member; the report is what was made; a queued job ends |
| office accounts | `admin_panel/branches`, `admin_panel/staff_mgmt`, `admin_panel/auth` | branch, staff and admin-login rows; codes in the cache | hire, edit, switch, delete, move; switch and close branches; login by code; change of mobile | two rows per person saved one after the other; full saves of stale rows; a branch switched off and on | the rows agree; a branch gets its own people back; a code opens one session |
| enquiries | `admin_panel/enquiries`, `admin_panel/staff_enquiries` | enquiry rows with a status and an assignee | create, assign, note, convert | status checked, then saved | a converted or lost enquiry stays so |
| profile merge | `admin_panel/profile_admin` | all member tables | merge | one transaction | nothing of either profile is lost |
| profiles and photos | `profiles/` | profile tables, files | edit, upload | file and row in two steps | – |
| matches, dashboard, wishlist | `matches/`, `dashboard/`, `wishlist/` | queries; favourites | list, toggle | a favourite added while a block deletes favourites | none is left behind a block |
| notifications | `notifications/` | device tokens, messages | send | fire and forget | – |
| master data, settings, profile reports | `master/`, `user_settings/`, `profile_reports/` | small tables | CRUD | – | – |
| core | `core/`, `matrimony_backend/` | none | phone, permissions, watermark, last seen | – | – |
| administration | the rest of `admin_panel/` (audit log, reports, dashboards, stories, testimonials, newsletter, message and app configuration, master CRUD) | small tables | CRUD, reports | – | – |

Not part of the program: `branches/`, `enquiries/`, `matching/`, `referrals/`,
`staff/` and `subscriptions/` at the top level are empty applications;
`staticfiles/`, `media/` and `ephe/` are vendored or data.

How the parts meet. Everything that a member may do goes through the *plan row*
(`plans_user_plan`, one per member): fulfilment, the desk and the administrators
write it; limits and unlocks read and count on it. Its rules (`PlanRecords`) are
shared by `Fulfillment` and `Quota`; `Desk` keeps of the row which sales are in
it. A sale earns a *commission* (`Desk`, `Fulfillment`), which is approved, paid
and put into a salary (`Earnings`). A *block* reaches into interests, wishlists
and chats (`Connections`). *Codes* open accounts, confirm desk payments and log
staff in (`Accounts`, `Desk`, `Office`). *Birth details* entered in a profile
become a chart (`Horoscope`), which a report needs (`Quota`).

## 2. Modules

```
PlanRecords            rows and pure rules: amounts, quotas, activation
  |-- Fulfillment      orders, captures, verify, webhook, fulfilment, removal
  |     |-- MCFulfillment            instances for TLC
  |     |-- FulfillmentProofs        types; recordings, verdicts, the row lock; Settlement
  |-- Quota            opening profiles, contacts and reports against a plan row
        |-- MCQuota                  instances for TLC
        |-- QuotaProofs              types; nobody pays twice; counters and allowances
Settlement             the abstract promise: payments, books, what is shown
Connections            interests, blocks, wishlists, chats and sockets of two members
  |-- ConnectionsProofs
Accounts               one-time codes and the accounts they open
  |-- AccountsProofs
Desk                   a member's payments at the desk and at the office
  |-- DeskProofs
Earnings               commissions and payroll
  |-- EarningsProofs
Horoscope              birth details, the bridge row and the external program
  |-- HoroscopeProofs
BulkUpload             validated files, tokens, Celery tasks, imports
Office                 branches, staff, staff logins
AdminPanelProofs       proofs about BulkUpload and Office
```

Each state machine has an `MC` module with instances for TLC. In all of them a
request is a record `req[w]` with a program counter, and an action is one
statement (or one transaction) of the code between two points where other
requests can run; a request may also stop for good between any two (`Crash`,
`BreakOff`, `Stop`). Every module has a type invariant, `TypeOK` (in `Office`, which
one proof module shares with `BulkUpload`, `OfficeTypeOK`).

In several modules the first step of a behaviour picks a *mix*: the kinds of
requests made in it (or, in `BulkUpload`, the files). This bounds the state space
without bounding how the chosen kinds interleave; the mixes are listed in the
configurations.

Variables marked "history" record what happened and are read only by properties.
Where the code leaves a window open, a history variable marks exactly the objects
for which two requests were in that window, and the property exempts these: it
then says that the window is the *only* way things go wrong.

### PlanRecords

The amount rules (`compute_plan_purchase_amounts`, legacy repair of
`service_charge_paid`, what remains), the quota rules (`get_effective_limit`,
remaining, unlimited when the plan's limit is 0) and `Activated`, the row that
`activate_plan_purchase` writes: days are added to an active plan, counted from
today otherwise; unused quota is carried as bonus; a renewal keeps the service
charge and what was paid of it. Money is whole rupees, dates are day numbers.

### Fulfillment

| state | code |
| --- | --- |
| `price`, `charge`, `onSale` | `Plan.price`, `ServiceCharge.amount`, `Plan.is_active` and `is_published` |
| `userPlan[u]` | the member's `UserPlan` row, or `NoPlan` |
| `ledger`, `credits`, `commissions` | `Transaction`, `AstrologyPdfCredit`, `Commission` rows |
| `orders[o]`, `captured`, `deliveries` | Razorpay's side: the order with its notes, its captured payment, the events it still delivers |
| `orderRow[o]` | the local `RazorpayOrder.status` |
| `req[w]` | what the request in worker `w` holds in memory, and its program counter |
| `removing` | members whose `MyPlanView.delete` is between its two statements |

A request is a sequence of steps, one per database statement or per statement
that can block inside a transaction:

```
verify   VerifyBegin -> VerifyFetch -> check
webhook  WebhookBegin ---------------> check
plan     CheckPlanPurchase -> ReadPurchaseTerms -> LockUserPlan -> ActivatePlan
charge   CheckServiceCharge -> ReadServiceCharge -> PayRemaining
PDF      CheckPdf -> LockPdf -> GrantPdf
then     ReadOrderRow -> SaveOrderRow      (record_order_outcome)
         or LoseOrderRow, at either        (its except clause)
```

The `check` step is the idempotency lookup (`get_success_txn_by_payment_id`)
with the amount comparison; `ActivatePlan`, `PayRemaining` and `GrantPdf` are the
commits. Around them: three order views, `Capture` (the member pays; external),
`Crash` of a worker, the two statements of plan removal, `AdminEdit`, `NextDay`.
`overlapped` is a history variable: payments for which two requests were past
the lookup and before their commit at the same time. So is `unsaved`:
`record_order_outcome` swallows whatever its read or its save of the order row
raises (`plans/razorpay_records.py:181`) and the webhook answers 200 all the same
(`plans/views_razorpay_webhook.py:230`), after which the event is not delivered
again; `LoseOrderRow` is that, and `unsaved` has the orders whose event was
acknowledged so before they were settled. Which orders it may happen to is a
constant, `Losable`; the theorems leave it open.

What is abstracted:

* An order has at most one captured payment, for the order's amount; the payment
  id is identified with the order id.
* The price and the charge are read in one step where the code reads them in
  consecutive statements, and a legacy repair is one step with the read that
  finds it necessary. The second read of the service charge, which the code
  makes later and which can differ, is a step of its own.
* A Razorpay call that fails changes nothing: the verify request ends, the
  webhook answers 502 and the event stays deliverable. Requests that are refused
  before they touch anything (bad signature, another member's order, wrong plan)
  are left out; they change nothing.
* The service charge depends on the member's gender in the code; here there is
  one charge.
* An administrator's edit of a member's subscription is its deactivation.

### Quota

| state | code |
| --- | --- |
| `userPlan[u]` | the plan row with its usage counters |
| `unlocked[u]` | `ProfileView` rows of the member with `unlocked` set |
| `matched` | pairs with a `PoruthamResult` row |
| `req[w]` | the request: the *cached* plan row (`snap`), its step, and what its open transaction has written (`writes`) |

`OpenProfile`, `UnlockContact` and `Porutham` begin a request by reading the plan
row; every later check (`can_*`) and update (`consume_*`) of that request works
on this copy. `Decide` is the query for an earlier unlock (or report) with the
limit check. Opening then runs `Touch` and `ConsumeView` in one transaction;
a contact unlock runs `ConsumeContact`, `Touch`, `ConsumeView` in one transaction
(so the two take the row locks in opposite orders); a report is `CreateResult`
and `ConsumeMatch`, which are *not* in one transaction. Updates write only the
counter's column, from the cached value plus one. `Abort` is a crash, or the
database ending a deadlock. `Purchase`, `RemoveUserPlan`, `StaffReport` and
`NextDay` are everything else that touches these rows.

History variables: `spent` counts charged actions since the purchase;
`viewCharges` and `matchCharges` count charges per profile and per pair; `raced`
and `renewed` mark the quotas for which two requests were open at once, or one
was open across a renewal, since the last purchase.

Abstracted: `last_viewed_at` updates without an unlock; the target profile that
disappears during a contact unlock; edits to a plan's limits while a request
holds the cached plan (limits are constants); interest and chat counters, which
use the same `consume_*` code, are a step of `Connections` without the limit.

### Settlement

What fulfilment promises to a bookkeeper, without requests, threads, or
deliveries: payments are captured (`Pay`), booked (`Book`), perhaps contested
while they are open (`Contest`), shown in the order list (`Show`), and lost with
a removed plan (`Leave`, `Erase`). `Fulfillment!BooksKept` is its `Spec` under the
mapping in `Fulfillment.tla`; the run `fulfil_charge` checks it and
`FulfillmentProofs` proves it.

### Connections

State: the `plans_interest`, `blocks`, `wishlist`, `chat_conversation` rows of a few
members, the read marks (`unread`), whose plan runs (`subscribed`), and the open
sockets. A request checks the plan, the block and the interest in one query each
(`CheckBlock`, `CheckPlan`, `FindIncoming`, `CheckAccepted`) and then writes
(`CreateInterest`, `Resend`, `Reciprocate`, `Respond`, `Cancel`, `StartChat`,
`SaveMessage`, `Block`, `AddWish`, ...). A socket checks when it connects (`Join`)
and only the block and the plan when it speaks (`BeginSay`). The cached plan row
is what is still true of it (`Snap`). `Respond` and `Cancel` save whatever the
interest has become meanwhile.

Abstracted: plan limits are not counted (`Quota` does that), only their charge is
a step; message texts; who is shown to whom.

### Accounts

State: a one-time code is in the cache and in an `OTPRecord` row; pending
registration details are in the cache; `user` has the account of a phone. A
request is a walk through `check_otp_rate_limit`, `generate_otp`,
`persist_otp_record`, `verify_otp`, `_mark_otp_verified`, `create_user`, one cache
call or query per step. The cache may lose a key at any time (`EvictCode`,
`EvictPending`); time is the events `Expire` and `NewWindow`.

A code is sent under one of two identifiers of a number, `phone:` and `mobile:`,
and the codes of each are numbered in the order sent. A request types a code that
was sent under one of them (`sent`, `code`), or none that was; `VerifyMobileView`
tries it for `phone:` and then for `mobile:` (`NextTry`), so that the
right code of the second is a wrong answer for the first.

Abstracted: the digits of a code; a wrong code is any other. Left out: dummy
numbers, the email channel, password reset, blocked accounts, tokens.

### Desk

One member, several staff and requests. State: transactions, payment entries,
reviews, commissions, the sales whose days are in the plan row, and the cache's
confirmation. A database transaction is one step, except that the sale takes the
lock on the member's row in a step of its own (`LockMember`); a step around it is
one query (`ReadKey`, `DropKey`, `TakeReceipt`, `SetStatus`, `SetReview`,
`ReadRemaining`, `CheckPaid`, `Erase`, ...).

What confirms a payment is the cached mark, or the desk's code typed with the
payment (`TakeCode`), or else, through `validate_otp`, a code sent for the member's
own login (`TakeLogin`; `SendLogin` and `LogIn` are its life in `accounts/`). `given`
counts what was accepted, of either kind. Abstracted: of the checks of a code, which
`Accounts` has, only that it is accepted once and may be refused. Left out: dummy
numbers, signup at the desk, exports.

### Earnings

State: commission rows, salary rows, the staff, the month. Approve, pay and cancel
are two steps, reading (`Open…`) and saving (`Save…`). Generating a month's
payroll asks for existing records, reads the staff, inserts row by row inside a
transaction (other requests see nothing of it, but wait on the unique key), and
commits.

### Horoscope

State: the member's date of birth and profile details, the bridge row's inputs
and chart, the labels derived from it and `is_calculated`. The chart is
represented by the inputs it was computed from. The signal on a profile save
(`SyncRead`, `SyncWrite`), the birth details service (`BridgeRead`,
`BridgeWrite`), `push_to_exe_bridge` and `mark_horoscope_done` are read-then-write
pairs. A bridge row is ready when it has a date, a time and a place of birth
(`Ready`). The Windows program (external) reads a row that is not calculated
(`ExeTake`), writes its chart (`ExeWrite`), or is stopped (`ExeStops`).

### BulkUpload

State: the job rows, the validated rows under their token in the cache, the tasks
at the broker, the members made from each row, and what each web thread or Celery
process is doing. A file is a sequence of phone numbers (or `None`) with two
flags: legacy (the old site's format) and big (imported by Celery). Steps:
`Validate`, `IssueToken`, `RequestImport`, `Enqueue`, `NoteQueued`, `TakeTask`,
`FetchRows`, `StartImport`, `ImportRow`, `Complete`, `DropToken`; failures:
`RowRaises`, `FileRaises`, `Stop`, `Expire`. Celery acknowledges a task when it
takes it, so a stopped process loses it.

Which numbers keep a row out depends on who looks. A registration stores a number
with its country code and an import without, so the unique column refuses only
numbers of imported members (`Imported`). Validation looks for all forms
(`Taken`), and the legacy importer lists the numbers of all members once, when it
starts (`known`). A number registered after that is not refused: the member
imported then has it too.

Abstracted: checking the rows and creating the job is one step; an e-mail that is
taken is a statement that fails (`RowRaises`); one member of staff; the branch of
the members; column checks other than the phone.
`admin_panel/bulk_upload/services.py` is an earlier copy of the importer of which
only `normalize_mobile` is called.

### Office

State: the `StaffProfile` and `AdminUser` rows of a person, the branches, the
login codes, the caches that count wrong answers and hold the offered new mobile.
Hiring, switching and closing a branch are transactions (one step each, but for
the lists they read first); everything else is one step per query or save, and
an edit saves all columns of the rows it read.

Abstracted: members' numbers in `personal_mobile_in_use`; a rate limit may refuse
any request; the attempts at a new mobile's code are the loss of the offer
(`LoseOffer`). Left out: employee numbers (two hirings that take the same number
answer an error: the `IntegrityError` leaves the transaction unusable, so the
five retries of `StaffSerializer.create` cannot help), scoping by manager,
tokens and logout, name and email of the profile, `branch_sync`.

## 3. What is model-checked

Runs that pass:

| run | instance | shows |
| --- | --- | --- |
| `fulfil_charge` | 1 member, 2 orders (a purchase, a service charge), 1 removal | `LockedSnapshotIsCurrent`: under the row lock the snapshot *is* the row, against repair, service charge, removal and an unlocked first purchase; `BooksKept`: the whole implements `Settlement` |
| `fulfil_upgrade` | 2 plans, 2 orders, 3 days | `LockedPurchaseAddsUp`: upgrade, downgrade and renewal, on both sides of expiry, add their days and carry quota |
| `fulfil_live` | 1 order for a plan or a PDF, both payment options, 2 crashes, 1 admin edit, any number of lost saves of the order row, fairness | `TypeOK`; `AtMostOnceUnlessOverlap`: a payment is recorded once outside the overlap window; `PlanOnlyAmountExact`: the recorded amount is the captured one although it is compared once and computed again later; `FulfilledHasTransaction`: an order never claims a fulfilment the ledger lacks; `AcknowledgedIsNoted`: an event answered 200 has left a verdict, whatever crashes or races with it, unless its own save was lost; `CapturedSettles`: every captured payment reaches "fulfilled" or "skipped" without the client's help, with the same exception |
| `quota` | 1 member, 2 requests, 1 profile, 1 pair, 2 days, 2 purchases | `MetersHold`: stale counters of different features do not disturb each other, and allowances hold, but for counters two requests had open at once; `ChargedOnce`: an opening and a contact unlock racing for one profile charge once; `UnlockIsCharged`: unlock and charge are one step, whatever fails |
| `connections` | 2 members, 2 requests, 8 mixes | `BothPendingOnlyIfCrossed`, `BlockClearsWishes`, `ChatChargedOnce`; `BlockHolds`: nothing that begins behind a block gets through, sockets included; `ChatNeedsConsent`. Deadlock is checked |
| `accounts` | 2 phones, 2 requests, 7 mixes, 2 codes each | `LimitsHold`: attempts and rates are bounded although cache and row take turns; `NewAccountFits`; `AcceptsNewestOnce`: also when one typed code is tried for both identifiers; `VerifiedStays`: a signup deletes no verified account |
| `desk` | 1 member, 2 staff, 2 requests, 6 mixes, up to 3 sales | `ConfirmedSales`: each sale has a code of its own accepted from the member, of the desk or of a login; `OneFreshEntry`, `BookedOnce`, `ReviewAgrees`, `SaleKeepsPlan`: a void takes no other sale's days; `PaidCommissionKept` |
| `earnings` | 2 staff, 2 commissions, 2 months, 2 requests, 3 mixes | `CountedOnce`: a commission is in one salary; `PayrollWhole`: a month has records of everybody or nobody; `PaidStays` |
| `horoscope` | 1 member, 2 dates, 2 time zones, 2 requests or commands, fairness | `ChartMatchesInputs`; `CalculatedMeansDone`; `ReadyIsCharted`: once changes end, a complete row has its chart |
| `bulk_upload` | 3 pairs of files, 2 web threads, 1 Celery process, 1 failure, fairness | `RowImportedOnce`; `ReportAddsUp`; `CompletedStays`; `JobsEnd`: a queued job completes or fails, unless its worker was stopped |
| `office` | 2 persons, 2 branches, 3 mobiles, 2 requests, 14 mixes | `LoginFollowsStaff`; `CodeLimits`: one session and a bounded number of wrong answers per code; `BranchRestores`: a branch gets back whom it took out itself |

One run shows a violation, of a sentence the repository says of itself:
`race_idempotent` checks `Idempotent` (`plans/razorpay_fulfillment.py:4`). Verify
and webhook both find no transaction, both record one: the plan is extended twice
for one payment.

More disagreements between what the repository says and what it does are stated as
formulas in the modules. They are not among the runs; each is found violated by
TLC with the configuration named here.

| formula | says | configuration | what happens |
| --- | --- | --- | --- |
| `Fulfillment!WebhookFulfills` | `plans/views_razorpay_webhook.py:1` | as `fulfil_live`, purposes plan and plan_only, events `payment.captured` and `order.paid`, no crash | the price is edited after checkout; every delivery is answered 200 and skipped; the captured payment is never fulfilled |
| `Fulfillment!AcknowledgedLeavesTrace` | `plans/razorpay_records.py:163` | as `fulfil_live`, checked as an invariant | the webhook records or skips the payment, its save of the order row fails, it answers 200: the row still says "created" and no delivery follows |
| `Fulfillment!RemovalRemovesTransactions` | `plans/views.py:904` | 2 orders, plan and PDF, product `jathakam`, `MaxRemovals` 1 | a PDF credit protects a transaction: the plan row is gone, the transactions stay |
| `Fulfillment!RowLockSerialisesPurchases` | `plans/services.py:514` | as `fulfil_upgrade` with `MaxDay` 0 | two first purchases lock no row; the second overwrites the first's days |
| `Quota!ConsumeMovesCounter` | `plans/services.py:144` | as `quota` with 2 profiles, no pairs, `MaxDay` 0, 1 purchase | two profiles opened at once are charged as one |
| `Connections!CancelOnlyPending` | `plans/views.py:686` | mix send, accept, cancel | an interest accepted after the check is cancelled |
| `Earnings!SalaryHasMonthsCommissions` | `admin_panel/payroll/models.py:28` | 1 of each, mix approve, pay, generate | a commission paid after the month's generation is in no salary |
| `Accounts!NextIdIsNew` | `accounts/models.py:11` | `SixNines` 8, mixes `IdMixes` | the largest id is found among strings: `AM999999` stays the largest, and `AM1000000` is given out again |
| `Desk!DeskCodeConfirms` | `admin_panel/staff_payments/services.py:68` | as `desk`, mix `CounterLogin` | the desk's code is not given; the code sent for the member's own login is, and confirms the payment |
| `Horoscope!ClearedWhenInputsChange` | `astrology/services/horoscope_profile_service.py:33` | as `horoscope` | details are saved by endpoints that do not send the profile signal (`profiles/serializers.py:1130`, `profiles/views.py:662`) |
| `Office!RestoresOnlyItsOwn` | `admin_panel/branches/views.py:156` | as `office` | a person switched on and off again by the office while the branch is off keeps the branch's mark and comes back with it; and a person one branch took out, who is moved to another meanwhile, comes back when the other is switched off and on |

### Bounds, and why they are enough

* Two workers: every hazard listed is a meeting of two requests. Redeliveries
  and retries are unbounded, so a third request follows the first two.
* Two orders let two purchases of one member meet, and a purchase a service
  charge; where the question is about one payment, one order is used.
* `MaxAdminEdits = 1` puts one edit at any point between checkout and commit;
  `MaxCrashes = 2` lets both requests die at any point, together (they are threads
  of one process) or one after the other; `Losable` is the one order of `fulfil_live`,
  whose row may fail to be saved any number of times, and empty where the question is
  not about order rows; `MaxRemovals = 1` one removal at any
  point. `MaxDay = 2` reaches the day before, of and after expiry with durations
  1 and 2. In `quota`, `MaxDay = 1` with a plan valid today only gives expiry in
  the middle of a request, and `MaxPurchases = 2` a renewal in the middle of one.
* The contact limit of 2 (others 1) lets a counter move twice; the last unit of
  an allowance is reached for every quota.
* Mixes put together the kinds of requests that touch the same rows. A kind
  occurs in several mixes when it has several partners to meet; kinds that share
  no row are never put together.
* `AttemptLimit`, `FailLimit` and `MaxCodes = 2` allow a code to be used up, a
  second one sent while the first is tried; `RateLimit = 1` lets a window fill.
  `SixNines = 99` keeps the last id of six digits out of reach in `accounts`.
* `MaxSales = 3` is a sale, its void and a third sale between them.
  `MaxMonth = 1` has a month and the one after it: a commission can be paid in
  one and again in the other.
* `MaxChanges = 2` lets birth details change twice, or once around a command;
  the program may be caught between reading and writing by each.
* `MaxJobs = 2`, `MaxRequests = 2`: an import asked for twice, or two files with
  the same number; `MaxFaults = 1` fails one statement or stops one process at
  any point.
* Symmetry (of workers, orders, profiles, members, mobiles) is used in safety runs
  only, never where a liveness property is checked.
* `CHECK_DEADLOCK FALSE`: the systems rest when the bounds are used up.
  `connections` has no such bound and is checked for deadlock. That two lock
  orders meet in `Quota` does not show as a state without successors, because
  the database ends one of them (`Abort`).
* `TypeOK` is in the run `fulfil_live`. Those of the other modules are left out of the
  configurations to keep the runs short; they are proved, for all instances (section 4).

### What is exempt

A property with a history variable says: outside this window, always. The windows
are `overlapped` (two requests past the lookup for one payment), `unsaved` (an event
answered 200 although the save of its verdict failed), `raced` (a quota, a
commission or a rate bucket two requests had open), `renewed` (a quota open across a
renewal), `crossed` and `stray` (interests sent at once; a wish saved behind a
block), `late` (a request that read a row before it was paid), `muddled` (an
identifier on which requests overlapped or broke off, or whose signup the desk or an
old code overtook), `shared`, `rebooked`, `contested`, `squeezed` (a confirmation
two requests saw; an entry two managers had open; two decisions at once; a sale
during a void), `lost`, `overtaken` (a chart or a mark written from an old reading),
`broken`, `again` (an import that stopped half-way; an import during or after
another), `mixed`, `relit` (a person two requests worked on; a person the office
switched on while the branch was off). A run in which these stay empty would show
nothing: the mutants of `PROJECT.json` are found in states outside the windows.

### Fairness

`Fulfillment!LiveSpec` assumes weak fairness of `Progress(w)`: a request that a
worker has accepted runs on (a crash may still end it). And strong fairness of
`WebhookBegin`: an event not answered with 200 is delivered again, and some
delivery reaches a free worker; this is Razorpay's retry policy, under the
assumption that an outage is shorter than its retry window. That a save succeeds is
not assumed: one that is lost over a 200 ends the redelivery, which `CapturedSettles`
exempts. Nothing is assumed
of members: they need not pay, nor call verify.

`Horoscope!LiveSpec` assumes that accepted requests and commands run on, and that
the Windows program keeps polling: "up to 24 hours"
(`astrology/horoscope_api.py:27`). Nobody is assumed to run a command.

`BulkUpload!LiveSpec` assumes that what a thread or a Celery process has taken up
runs on, and that an idle Celery process takes the next task. A process that is
stopped (`Stop`) takes its task with it, since Celery acknowledges early; such
jobs are exempt in `JobsEnd`.

## 4. What is proved

Every property of every passing run is a theorem, except the three that need
fairness. The theorems hold for any sets of
members, plans, orders, staff, branches, files, birth details and workers, any prices,
and any number of crashes, edits, codes and redeliveries. They assume of the constants what the
modules state, and TLC evaluates in every run:

| assumption | beyond the types of the constants |
| --- | --- |
| `PlanAssumption`, `FulfillmentAssumption`, `QuotaAssumption` | nothing (the losable orders are some of the orders) |
| `AccountsAssumption` | finitely many phones, and finitely many members outside the model |
| `ConnectionsAssumption` | nothing (a mix is a set of kinds of requests) |
| `EarningsAssumption` | the staff are finitely many and have numbers, for the order they are read in |
| `HoroscopeAssumption` | the default time zone is a time zone |
| `BulkUploadAssumption` | every job has a file; a web thread is not a Celery process |
| `DeskAssumption` | finitely many workers; no member of staff and no worker is `None` |
| `OfficeAssumption` | the staff there are at the start have mobiles of their own; a tombstone is nobody's mobile; at least one wrong code is allowed; no branch has the name of one of the other two who switch people off ("office", "nobody") |

A proof module begins with types, always with a strengthening, `TypeInv`: `TypeOK`
alone does not say which kind of request is at which step. Then come the kinds of
steps: each action is shown, once, to be one of a few things seen from a row or
from a request (it goes on, it ends, another one starts, a row is written), and the
invariants are proved from these, without the actions.

About `Fulfillment`:

* **`TypeCorrect`**: `Spec => []TypeInv`, and **`TypesKept`**: `Spec => []TypeOK`.
  `TypeOK` alone is not inductive: a step that reads the order of a request
  needs that the order exists, and the payment of a service charge that the row
  it remembers is a row. `TypeInv` adds `TablesLinked` (captures, events and
  transactions refer to placed orders) and `RequestsLinked` (a request serves a
  captured order; its snapshot is a row where it is used as one). Two families
  of lemmas carry the proof: what the rules of `PlanRecords` return (the first
  lemmas of `FulfillmentProofs` and of `QuotaProofs`), and that
  `Serve`, `Finish` and `Fail` keep requests typed; then one lemma per action.
* **`AtMostOnce`**: `Spec => []AtMostOnceUnlessOverlap`. The strengthening
  `OverlapInv` says that two requests in flight for one payment, or a request in
  flight for a recorded one, mark the payment as overlapped. Each action is
  shown to be one of three kinds: `Quiet` (nobody enters, nothing is recorded),
  `Enters(w)` (a request passes the lookup, which found nothing, and overlap is
  noted), `Records(w)` (a request in flight commits one transaction and leaves).
  `OverlapStep` then needs no knowledge of the actions. So the double recording
  of `race_idempotent` is the *only* way to record a payment twice: a unique
  constraint on the payment id, or a lock held from the lookup on, closes it.

* **`FulfilledIsRecorded`**: `Spec => []FulfilledHasTransaction`. An order row may
  be shown as fulfilled by a save that happens long after the commit, in a thread
  of its own, or again by a redelivery. `FulfilledInv` adds that a verdict on its
  way to the row is as true as one that has arrived (`VerdictsTrue`), that
  members between the two statements of a removal are counted
  (`RemovalsCounted`) and that only placed orders have rows (`RowsFollowOrders`).
  Requests up to their verdict take one kind of step, `Serving`, for which the
  invariant is shown once.
* **`Settles`**: `Spec => BooksKept`, the refinement of `Settlement`. Every action is
  shown to map to one abstract step (capture to `Pay`, entering a contested window
  to `Contest`, a commit to `Book`, a save to `Show`, the removal's statements to
  `Leave` and `Erase`) or to none. The abstract guard of `Book`, that a booked
  payment is contested, is `OverlapInv`; the guard of `Show` is `VerdictsTrue`.

* **`SnapshotHolds`**: `Spec => []LockedSnapshotIsCurrent`. `LockInv` adds that a lock is
  held only by a plan purchase about to write and by one request per member
  (`OneHolder`). Every write of a plan row is shown to be by the holder, who lets go
  in that step, or while nobody holds it.
* **`AddsUp`**: `Spec => LockedPurchaseAddsUp`. With `SnapshotHolds` the row in the table
  is the argument of `Activated`; the rest is arithmetic about `Activated`
  (`ActivatedAddsUp`).
* **`AmountExact`**: `Spec => []PlanOnlyAmountExact`. `PriceAgreed` says that the price a
  plan-only request carries from the comparison on is the captured amount; the
  second computation reads the charge anew, and a plan-only amount does not depend
  on it (`PlanOnlyPays`).
* **`Acknowledged`**: `Spec => []AcknowledgedIsNoted`. The order row is read in one
  statement and saved in another. `RowsRead` says of a request between the two that a
  row it did not find has not been created since, and that a verdict it found still
  stands: so the save, or its omission, leaves a verdict. The exemption `unsaved` is
  needed, and enough: an event acknowledged over a failed read or save puts its order
  there, unless that is settled already.

About `Quota`:

* **`TypeCorrect`**: `Spec => []TypeInv`. `TypeOK` is not inductive here either: the row
  an unlock has half written must still be a row. `HeldAlive` says that only a contact
  unlock keeps a row waiting and that purchase and removal wait for it. Every step is
  one of four kinds: a request starts (`Starts`), goes on (`Continues`), commits some
  counters (`Commits(w, Q)`), or something happens `Outside`.
* **`PaidOnce`**: `Spec => []ChargedOnce`, and **`UnlockCharges`**: `Spec => UnlockIsCharged`.
  `ChargesNew` says that a request about to be charged is about a profile not yet open
  (a report not yet paid for), and no other request is about to be charged for the
  same. For profiles this is the recheck under the lock of the profile view row, for
  reports the unique key.
* **`Metering`**: `Spec => []MetersHold`. Each request writes its cached counter plus one.
  Four facts make this right: a key is never given again, so a request whose row was
  removed and bought again writes nothing (`KeysFresh`); two requests that may both
  still write one counter are marked as racing (`RacesSeen`); where no race or renewal
  is marked, the cached counter, plan and bonus are the row's (`SnapsAgree`); and
  whatever will be charged was checked against the cached row (`LimitsChecked`, with
  `ChargesNew` for the contact unlock, which skips the check of the view counter when
  the profile is open already). So two open requests for one counter, and a renewal
  in the middle of a request, are the *only* ways to lose a charge or pass an allowance.

About `Connections`:

* **`LaterFindsEarlier`**: `Spec => []BothPendingOnlyIfCrossed`. Two members' interests can
  both wait only if the two requests overlapped. `InterestInv` adds `SendsCross`
  (two sends of one couple at once are on record as crossing) and `IncomingSeen` (past
  its look at the other direction, a send that would still find an interest there
  has crossed it).
* **`BlocksClear`**: `Spec => []BlockClearsWishes`, inductive once types are known.
* **`ChatCostsOnce`**: `Spec => []ChatChargedOnce`. `ChargeDue`: a request about to
  charge a started chat has created the conversation, which is not charged yet, and it
  is the only one for its couple (`get_or_create` answers "created" to one).
* **`BlocksHold`**: `Spec => BlockHolds`, and **`ChatsHaveConsent`**:
  `Spec => ChatNeedsConsent`. `SeenInv` says what a request that has passed a check
  must have seen: a moment without a block (`FreeSeen`), a moment of connection
  (`ConnectionSeen`), and of a socket that its two members were connected once
  (`OnceConnected`).

About `Accounts`, invariants that rest on one another. Most speak of identifiers and
phones that are not `muddled`: what overlaps, breaks off or is overtaken by the desk or
an old code is exempt from `LimitsHold`, `AcceptsNewestOnce` and `NewAccountFits`, and
the proofs say that nothing else needs to be.

* **`TypeCorrect`**: `Spec => []TypeInv`. `CodesSent` and `Formed`: a code that the cache,
  the row or a request holds was sent to that identifier; a kind of request is only at
  its own steps; a request about to activate an account has read a key.
* **`LimitsAlwaysHold`**: `Spec => []LimitsHold`. For the rate, `RateInv`: in a window nobody
  raced in, the counter is at least the number let through, and whoever has read it
  is alone at it and has read what it is now, or a count of a window gone by, in
  which case it is zero. For the attempts, `SoloInv` (a request that met no other is
  alone on its phone, and one that met another has muddled it) and `CodeInv`, which
  says for each step of a request what the cache, the row and its own payload hold:
  at rest the row counts every wrong answer and the cache, unless empty, agrees
  (`Sound`); in the middle of a wrong answer both lag by one (`Missing`); while a new
  code is stored, the row may still be the old one (`Sending`).
* **`NewestAcceptedOnce`**: `Spec => AcceptsNewestOnce`, from the same invariant: a code
  accepted before is either out of date, or marked used in the row and gone from the
  cache (`Peace`). A code is accepted for the identifier it was sent under
  (`Matches`), whichever of the two the request began with.
* **`VerifiedAccountsStay`**: `Spec => VerifiedStays`. `UnverifiedInv`: accounts are inserted
  verified, so that an unverified one is older than the signups now running for its
  phone, and none of these has come past its delete; and the row a request is about to
  delete has not become a verified one unless the request was overtaken.
* **`NewAccountAlwaysFits`**: `Spec /\ []SixDigitsLeft => []NewAccountFits`. That the phone
  is free is `PendInv`: details pending for a phone with an account are those of a code
  used up, and a request between its code and its insert knows that the phone
  has no account. That the id is free is `IdInv`: an id chosen is free until another
  account is inserted, which is where the hypothesis is used. `SixDigitsLeft`
  (`SixNines \notin Ids`) is needed: from `AM999999` on the largest id among strings
  is given out again (`Accounts!NextIdIsNew`, section 3), and the insert clashes.

About `Earnings`, all from one invariant, `EarningsInv`:

* **`CommissionCountedOnce`**: `Spec => []CountedOnce`. A salary counts a commission when its row
  is written inside a transaction that others cannot see, so `CountedIsPaid`
  speaks of the rows of open transactions too: what they count is paid, in the month
  of the salary. That a paid commission keeps its month of payment is `OpenUnpaid`:
  outside a race, whoever holds an open commission holds it alone, and it is not paid.
* **`PayrollIsWhole`**: `Spec => []PayrollWhole`. `ListsCovered`: everybody on the list
  that a generation works through is yet to come, inserted by it, or has a record
  already. `RowsReserved`, the unique key, keeps two transactions apart.
* **`WhatIsPaidStaysPaid`**: `Spec => PaidStays`, from `LateKnown`.

About `Horoscope`: **`ChartIsOfItsRow`** (`Spec => []ChartMatchesInputs`) and
**`MarkedIsDone`** (`Spec => []CalculatedMeansDone`) from `ChartInv`, which adds
**`OnlyCompleteCharts`**: a chart, its labels, and what the program works on come from
complete birth details, so that clearing a row never passes for a chart.

About `BulkUpload`, from an invariant of each job, `JobInv(j)`:

* **`RowOnce`**: `Spec => []RowImportedOnce`. Before its token is saved a job belongs to
  one request (`TokenFirst`); only rows that validation accepted are imported
  (`Chosen`), and what validation refused in a legacy file is refused again
  (`Refuses`), registered and imported numbers only becoming more; a second member of one
  row needs a second import, and a row without a number (`OnceFor`), since a number is
  unique among imported members.
* **`ReportsAgree`**: `Spec => []ReportAddsUp`. For a job imported once: one process
  or one task has the import in hand (`Single`); it starts from a job nothing was
  made of (`Fresh`); while it runs, the file's rows are those made into members, those
  failed and those left, and its counter is the size of the first (`Counted`); so
  the completed job adds up (`Adds`). The counting is about finite sets of any size.
* **`CompletedKept`**: `Spec => CompletedStays`, from the same invariant.

About `Desk`, one invariant per property, each on top of the types (transactions are
numbered without a gap, and what refers to a sale refers to one that was made):

* **`DuplicateRefused`** (`OneFreshEntry`), from `FreshInv`: who sells holds the member's
  lock, and saw no fresh entry of his since.
* **`EntrySoldOnce`** (`BookedOnce`), from `BookInv`: an entry without a receipt is the
  one left to the branch, and one request is booking it, unless two managers had it open.
* **`ReviewsDecide`** (`ReviewAgrees`), from `ReviewInv`: while a decision is between its
  two statements one request makes it, and the transaction already says what the
  review is about to.
* **`SalesAreConfirmed`** (`ConfirmedSales`), from `CodeInv`, a count for each member of
  staff: sales made, requests that have used a confirmation and not yet sold, and the
  confirmation in the cache are together no more than the codes the member gave, the
  desk's or login codes.
* **`PlanStays`** (`SaleKeepsPlan`), from `PlanInv`: pending sales have no days in the
  plan; a void that took its sale to be the last one is right about every other
  sale but those made or decided on since.
* **`PaidStays`** (`PaidCommissionKept`), from `PaidInv`: without a plan row there is
  no commission, and a void about to take them all knows which were paid since it looked.

About `Office`, two invariants on top of `OfficeTypeCorrect` (`Spec => []OfficeTypeOK`,
from `OfficeTypeInv`: a request is of the shape of its kind and about rows there are).
Each action is first shown to do what it does to rows and requests (the lemmas that end
in `Does`), and the invariants are proved from that.

* **`CodesHold`**: `Spec => []CodeLimits`. `CodesInv`: a code is one person's
  (`OneBearer`), in the row of his login or in requests about him that have read it. Of
  the codes that are not `shared`: a request that has yet to use one finds it in the
  row still, on the mobile the request began with, and nobody overlaps with it
  (`Sole`); one that is in a row has opened no session, and the count of its mobile is
  no less than its wrong answers, whoever may reset that count having come before
  them (`Current`, `Trying`); and a mobile whose count has reached the limit is
  locked (`Unlock`).
* **`LoginsFollow`**: `Spec => []LoginFollowsStaff`. `RowInv(s)`, for every person nobody's
  requests overlapped on: one request is at work on him (`OnlyOne`), and what it has
  saved so far accounts for what his two rows differ in (`Halves`: after the login of an
  edit is saved, the login agrees with the row of the staff as the edit will leave it);
  without one the rows agree (`Left`). An edit saves rows it read at its start: these
  are still the rows. A branch request lists whom it will find when it commits
  (`ListedRight`), since a person who comes or goes in between is `mixed`.
* **`BranchesRestore`**: `Spec => BranchRestores`, from the same invariant: a switch does what
  the branch needs when it commits (`SwitchRight`), and the mark `deactivated_by_branch` is
  on whom a branch took out and who was not switched on since (`OffRight`). The property
  speaks of the branch that took him out; the mark does not say which that was, and
  whoever is moved with it comes back with his new branch. The
  exemption `relit` is needed: without it the formula is `RestoresOnlyItsOwn`, which TLC
  refutes (section 3).

What the proofs found out about the model: `Desk` had to say that workers are
finitely many (a member's codes are counted against the requests that use them) and
`BulkUpload` that a batch gives every job a file of phone numbers; `Connections`
what a mix is. In `Accounts` the invariant `PendInv` was not inductive at first, and
the counterexample was real: when a verified account was deleted under a signup that
came late, `VerifyMobileView` may open the next account with an old code of the mobile
while a newer signup's details are pending; the newer code then finds the phone
taken. The history variable `muddled` now notes that case as it did the desk's.

In `Office` two properties were false, in states the run did not reach. Wrong codes are
counted by mobile (`admin_panel/auth/views.py:288`), and a request keeps the mobile it
began with: after a change of mobile, requests of two logins may count for one number
at once. `shared` now marks such codes too (`Overlap`). And a deleted row
that is switched on again (`status=inactive` finds it, `admin_panel/staff_mgmt/views.py:328`,
and `toggle_status` does not look at `is_deleted`) is left on when
its branch is closed, which releases only staff that are not deleted but closes every login of
the branch (`admin_panel/branches/views.py:209` and `:221`): `LoginFollowsStaff` allows
a deleted row to be on with its login off, and the run got a mix in which it happens. The
count of wrong codes had a bound that the code has not, and is a number now; and
`OfficeAssumption` says what unique mobiles and tombstones are. No other property had to
be changed.

Model-checked only: the liveness properties (`CapturedSettles`, `ReadyIsCharted`,
`JobsEnd`), which are out of the prover's reach.

## 5. Not modelled, and why

`PROJECT.json` lists every component with its status.

* `PlanPurchaseView` and `PayRemainingServiceView`: activation without a gateway;
  the same functions are called from `Fulfillment`'s requests and `Desk`'s sales.
* Signup at the desk, which combines what `Accounts` and `Desk` have.
* Profile merge: one transaction, run by one administrator at a time.
* Enquiries: "Cannot revert a converted or lost enquiry" is tested before a full
  save as commissions' statuses are, an assignee is checked against the branch when
  an enquiry is assigned and not when it is created, and a deleted member of staff
  keeps his enquiries; single rows that nothing else depends on.
* The columns of an uploaded file, except the phone, and its parsing.
* Email codes, dummy numbers, password reset, session and refresh tokens.
* The astronomical and porutham computations, charts and PDFs: pure functions of
  their inputs. Their tables and loops were read, not modelled. What was met:
  `_dasa_sandhi_text` (`astrology/porutham.py:507`) never looks at the end of the dasa
  at birth, although "the first dasha boundary after today" may be that, and "the
  next 70 years" (`:493`) are 70 years from birth.
* Single-row administration, queries, notifications and file handling, in which
  nothing depends on an order of steps that a model checker would find.

## 6. Plan

Done: everything in section 2. Left, in order:

1. The amount owed when an administrator changes the plan of a member who is paying
   the service charge.
2. The porutham computations as pure operators against reference tables.
3. Enquiries, next to `Office`.
