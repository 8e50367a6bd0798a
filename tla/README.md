# TAMAM in TLA+

Formal models of the core of TAMAM, an on-demand platform for rides, deliveries, home
services and hourly chalet rentals. The models are written from the code of the API
(`src/apps/api`, a NestJS modular monolith on PostgreSQL, Redis and BullMQ) and of
`src/packages/shared-types`. They are checked on small instances with TLC and, for the
results that matter most, proved for every instance with TLAPS.

```
cd tla
tlc -workers 4 -config MCSearch.cfg MCDispatch      # any run of PROJECT.json
tlc -workers 4 -config MCPayments.cfg MCPayments
tlapm DispatchProofs.tla                            # any module *Proofs
```

| Module | What it is |
| --- | --- |
| `JobStates` | the table of legal status changes of a job |
| `Dispatch` | the dispatch engine, with the parts of the job lifecycle and of partner availability that share its state |
| `JobOwnership` | what the dispatch engine promises, without offers and queues |
| `HomeService` | quotes, work and confirmation of a home-service job, on `JobStates` |
| `Payments` | the payment of a job: capture, refunds, webhooks |
| `Wallets` | a wallet, its top-ups, withdrawals and ledger account |
| `Postings` | what the ledger promises of a wallet: every key moves it once |
| `Settlement` | the double-entry rules: which accounts a job's settlement debits and credits |
| `JobMoney` | promotions, final totals, settlement and referral reward of a customer's jobs, on `Settlement` |
| `Idempotency` | the guard of `@Idempotent` routes, whatever their handlers do |
| `Disputes` | the disputes about a paid job, behind `Idempotency` and on `JobStates` |
| `ChaletBooking` | the calendar of a chalet |
| `DispatchProofs`, `DispatchApartProofs`, `HomeServiceProofs`, `PaymentsProofs`, `WalletsProofs`, `JobMoneyProofs`, `DisputesProofs`, `ChaletBookingProofs` | the theorems about them, and their proofs |
| `MC*.tla`, `MC*.cfg` | instances for TLC |

`PROJECT.json` holds the components, runs, seeded faults, the map from definitions to source
lines, findings, hazards and theorems.

## 1. The system

### Inventory

Paths are under `src/apps/api/src/modules` unless they say otherwise.

| Component | State it keeps | Operations | What is hard | What makes it correct |
| --- | --- | --- | --- | --- |
| Job state machine (`packages/shared-types/src/job-state-machine.ts`) | none: a table `from, to, job types, actors` | look-up by every status change | 21 statuses, 3 job types, 4 actors | a partner is named exactly in the statuses of a trip; what is over stays over |
| Dispatch (`dispatch/`) | `job_assignments`, `jobs.dispatch_deadline_at`, the BullMQ queue `dispatch` | `start`, `runWave`, `onOffersExpired`, `onTimeout`, `cancel`, `respond`, `releaseByPartner`, `manualAssign`, `retry`, redispatch | 10 workers and HTTP requests on the same rows; nearly every handler reads, then writes by id; timers outlive their search; a process may die between two operations | one partner per job and one job per partner; a search always ends; nobody is left busy |
| Job lifecycle (`jobs/`) | `jobs.status`, `version`, `partner_id`, histories, the queue `jobs` | create, cancel, enRoute, arrive, start, complete, work steps, adminTransition, waiting timer | side effects (freeing the partner, cancelling payments) follow the commit | a status changes only by the table and with its side effects |
| Partner availability (`partners/partner-availability.service.ts`) | `partner_availability` (status, current job, heartbeat) | online/offline, setBusy, heartbeat sweep | a check of `current_job_id` and the update it guards are two statements | BUSY exactly while on a job |
| Job quotes (`quotes/`) | `service_quotes` | submit, decide, response timeout, inspection-only close | a timer against a decision; two decisions | the approved quote is the price |
| Payments (`payments/`) | `payments`, `refunds`, processed webhooks | create, capture, refund, webhooks, retries | external gateway, late and repeated webhooks, refunds at once | never captured or refunded twice; books agree with the gateway |
| Ledger and commission (`ledger/`) | append-only entries, cached balances | `postInTx`, settlement, refund, reversal | idempotency keys, rounding | every transaction balances; the cache is the sum |
| Wallets and withdrawals (`wallet/`) | wallets, withdrawal requests | top-up, request, decide | two decisions on one request | money leaves once |
| Chalet booking (`chalet/chalet-booking.service.ts`, `domain/booking-state.ts`, `prisma/sql/002_chalet.sql`) | `chalet_bookings`, `chalet_booking_events` | hold, confirm, cancel, extend, createExternal, checkIn, checkOut, expireHolds | status checks outside the update; a sweep that updates what it read before | no double booking; a hold is kept and ends; statuses follow the table |
| Chalet availability (`chalet/chalet-availability.service.ts`, `domain/availability.ts`) | none | checkWindow, free windows | advisory answer, decided by the database | never contradicts the constraint |
| Chalet catalogue, search, offers, pricing, occupancy | chalets, offers | queries, price arithmetic | time zones, clamping | advertised prices are charged |
| Promotions and referrals (`promotions/`) | codes, redemptions | validate, reserve, release | per-user and total limits under concurrency | a limit is never exceeded |
| Disputes (`disputes/`) | disputes | open, reply, decide | a decision of four operations, any of which may fail; updates by id | what a decision says is booked |
| Authentication (`auth/`) | sessions, OTPs | login, refresh rotation, revoke | reuse of an old refresh token, two refreshes at once | a revoked family stays revoked |
| Idempotency, guards (`src/common/`) | stored responses per key | interceptor | the same key twice at once, a crash after the handler | one effect per key |
| Notifications, tracking, chat, ratings, support | messages, positions, threads, scores, tickets | records and fan-out | none that other components depend on | |
| Pricing, catalogue, zones, vehicles, partners, customers, users, campaigns, admin, rbac, audit, analytics, risk, config, media, maintenance, metrics, health | records, snapshots, schedules | administration, calculation, sweeps | | |
| Infrastructure (`src/infrastructure`) | Postgres (READ COMMITTED), Redis locks, BullMQ queues | transactions, `LockService`, retries | stalled jobs run again; a lock may expire | |
| Clients (`apps/admin-web`, `apps/customer-mobile`, `apps/partner-mobile`) | none that is authoritative | HTTP and websocket requests | retries, stale screens | |

### How the modelled parts interact

* A customer creates a job (`JobsService.create`, itself an `@Idempotent` route); a promotion
  evaluated before is reserved in the same transaction. After the commit a `wave` entry goes
  to the dispatch queue. A worker runs the wave: it moves the job to SEARCHING, sets the
  deadline, adds the `timeout` entry, chooses partners who are online and on no job,
  inserts `OFFERED` rows and adds an `expire` entry. Expiry closes the rows and schedules the
  next wave; the last wave, or the deadline, ends in NO_PARTNER_AVAILABLE.
* A partner accepts under a Redis lock and a transaction which claims the row, locks the
  job, closes the other rows and marks the partner BUSY; after the commit `cancel()`
  sweeps rows and queue of the job. Customers cancel, partners release, dispatchers
  assign by hand, all through `JobsService.transition*`, which consults the table of
  `JobStates`.
* At a home-service job the partner sends quotes that the customer answers before a timer of
  the `jobs` queue does; the work is confirmed by the customer or by another timer.
* Completing or cancelling a job frees its partner (`setBusy`), releases a promotion, captures
  the payment and notifies the referral listener, each in operations after the commit.
* A capture talks to the provider, then writes payment, settlement and receipt in one
  transaction. Webhooks reach the same rows through the `finance` queue. Refunds give money
  back at the provider or to the wallet and post in the ledger.
* Every posting passes `LedgerService.postInTx`: an idempotency key, row locks, a cached balance.
* A dispute is decided behind an idempotency key: a refund through the payments, a posting in
  the ledger, the decision, and the job handed back.
* The heartbeat sweep and the partner's own OFFLINE write the same availability row.
* The chalet calendar is separate: `chalet_bookings`, its trigger and its exclusion
  constraint, the booking service, and the sweep of the maintenance queue.

## 2. The models

### JobStates

`JOB_TRANSITIONS` row by row as a set of `<<from, to, type, actor>>`; RIDE and DELIVERY
share every row and are one type, MOBILITY. `CanMove` is `findTransition`.

### Dispatch

State and what it stands for:

| Variable | Column or structure |
| --- | --- |
| `status`, `holder` | `jobs.status`, `jobs.partner_id` |
| `search` | how often the job entered SEARCHING; tells rows and timers of successive searches apart, as uuids do |
| `deadline` | `jobs.dispatch_deadline_at`, as the search it was set for and whether it has passed |
| `offers`, `accepted`, `released`, `spent` | `job_assignments` rows by status: OFFERED (with how far an accept of it has come), ACCEPTED, REASSIGNED; of EXPIRED, REJECTED and CANCELLED rows only whom they are for |
| `avail`, `current` | `partner_availability.status`, `current_job_id` |
| `queue` | entries of the BullMQ queue, waiting or delayed |
| `waitTimer` | the queue job `wait-<jobId>` |
| `calls` | handlers in flight; `at` is the next operation, the other fields what was read earlier and is still used |
| `crashes` | deaths of the process so far |

A handler is as many actions as it has database or queue operations that another handler
can come between:

| Code | Actions |
| --- | --- |
| `runWave` | `PickUp`, `KickOff` or `LeaveWave` or `ChooseWave`, `CreateOffers` |
| `onOffersExpired` | `ReadExpired`, `ExpireRows`, `ResumeSearch` |
| `onTimeout` | `ReadTimeout`, `CancelTimedOut`, `GiveUp` |
| `respond` (accept) | `CheckOffer`, `ClaimOffer`, `CommitAccept` or `RefuseAccept`, then `cancel` |
| `respond` (reject) | `Reject` |
| `cancel` | `ReadOpenOffers`, `CancelOffers`, `Unqueue` |
| `releaseByPartner` | `Release`, `ReleaseJob`, `ReleasePartner`, then `runWave` |
| `manualAssign` | `ManualAssign`, `ReleasePrevious` or `BeginByHand`, then `cancel`, `AssignByHand` |
| `retry`, redispatch | `Retry`, `Redispatch`, then `runWave` |
| `create`, `cancel`, `complete` of the lifecycle | `Create`, `Enqueue`; `Cancel`, then `cancel` of dispatch and `Free`; `Complete`, `Free` |
| `enRoute`, `arrive`, `start`, `onWaitingCustomerTimeout`, `adminTransition` | `EnRoute`, `Arrive`, `Start`, `WaitTimeout`, `ForceStatus` |
| `setAvailability`, `markOfflineStale` | `GoOnline`, `GoOffline` and `WriteOffline`, `MarkOfflineStale` |
| time, faults | `Lapse`, `DeadlinePasses`, `Crash` |

What is merged or left out, and why that is sound for the properties:

* Steps merged although the code has two operations: `KickOff` (transition and timer),
  `ReleasePartner` and `ReleasePrevious` (row and availability), `setBusy` (read and
  write), `ManualAssign` of a job that is held (reading the partner and the transition, which
  the client's version guards; that of an idle job has no version and is `BeginByHand`), the
  deletes of `retry`. Fewer interleavings than the code has; a violation found is real.
* The queue is a set: identical entries are one. Entries differ in everything a worker
  looks at.
* `wait-<jobId>` is used once for ever. BullMQ would forget the id after a thousand newer
  completed jobs (`removeOnComplete`).
* BullMQ gives up after five attempts; `Throw` re-queues without counting. Loss of
  Redis's data is not modelled.
* Distance, score, zone and heartbeat freshness decide who is a candidate; the model lets
  a wave choose any set of at most `WaveSize` candidates, so every ranking is included.
* The actions are those of rides and deliveries; home-service work is `HomeService`.

`MaxSearches`, `MaxRequests`, `MaxWorkers` and `MaxCrashes` bound the model and nothing in
the code; `MaxWaves` and `WaveSize` are configuration (`dispatch.max_waves`,
`dispatch.wave<n>.size`).

### JobOwnership

A job is open, held, being worked on, or over. A partner takes an open job, may give it back
only before the work begins, and keeps it when it is over. `Dispatch!OwnershipSpec`
instantiates it with `phase` computed from `status` (`Phase`) and `partner <- holder`.

### HomeService

One home-service job from the partner's arrival to its end.

| Variable | Column or structure |
| --- | --- |
| `category` | `workflowConfig`: is a quote required, is a confirmation |
| `status` | `jobs.status` |
| `fresh` | `jobs.version`, as the set of handlers whose read of it is still current |
| `quotes` | `service_quotes` by revision; `agreed` is what `job_events` tells of the customer's answer |
| `queue` | delayed entries `quote-timeout-<id>` and `autoconfirm-<jobId>` |
| `fare` | which quote `finalTotalMinor` was computed from |
| `completions`, `busy` | the completed-jobs counters, `current_job_id` of the partner |
| `act`, `crashes` | handlers in flight, deaths of the process |

| Code | Actions |
| --- | --- |
| `start` | `Start`, `SkipInspection` |
| `submit` (quotes) | `SubmitQuote`, `AddTimeout` |
| `decide`, `respond` (quotes) | `ReadQuote`, `Decide` or `DecideRefused`, `RemoveTimeout` |
| `onResponseTimeout` | `OnTimeout`, `RejectQuote`, `CloseJob` |
| `closeInspectionOnly` | `CloseInspectionOnly` |
| `startWork`, `waitForParts`, `resumeWork`, `completeWork` | `StartWork`, `WaitForParts`, `ResumeWork`, `CompleteWork` with `AutomaticConfirmation` or `Await` |
| `confirmWork`, `onAutoConfirmWork` | `ConfirmWork`, `OnAutoConfirm` with `AutomaticConfirmation`; then `Complete`, `Count`, `Free` |
| `cancel`, `adminTransition`, opening a dispute | `Cancel`, `AdminTransition`, `Dispute` |

A request that carries the version it read, and does nothing before the versioned update, is
one step: another write in between makes it fail. What follows without the version is a step
of its own. `Categories` has every combination of a required quote and a required confirmation.

### Payments

| Variable | Column or structure |
| --- | --- |
| `payment` | the `payments` row: status, version, captured and refunded amount, whether a provider reference is stored |
| `refunds` | `refunds` rows in order of creation |
| `settled`, `posted`, `expense` | is there a ledger transaction `settle:<jobId>`; those `refund:<refundId>`, and the sum of the latter |
| `receipt` | the job has one |
| `gateway` | what the provider was asked, did and gave back: its own state, not ours |
| `events` | `webhook_events` with their entries in the `finance` queue and their attempts |
| `act`, `crashes` | requests and workers in flight, deaths of the process |

| Code | Actions |
| --- | --- |
| `captureForJob`, `captureViaGateway`, `attempt` | `StartCapture`, `CheckBalance`, `Authorize`, `CaptureAuthorized`, `AwaitCustomer` |
| `completeCapture`, `markFailed` | `CompleteCapture`, `MarkFailed` |
| `refund` | `StartRefund`, `CreateRefund`, `GiveBack`, `PostRefund` |
| `handleWebhook` | `StoreEvent`, `EnqueueEvent` |
| `processWebhook`, `apply*Webhook` | `ProcessWebhook`, then the steps of the capture or `ApplyRefundWebhook`, `MarkProcessed` |
| the provider's page | `CustomerActs` |
| retries of the queue, faults | `Throw`, `Crash` |

The provider may charge and lose its answer, decline, ask the customer to act, report late,
twice or out of order. Its idempotency key charges once. An update guarded by the version is refused
when the row has changed since it was read; one by id is not. A handler captures its own amount: a
request the total of the job (`Due`), a webhook the amount of its event (one of `Amounts`). What the
settlement moves is not here: `settleJobInTx` reads it from the job (`Settlement`, `JobMoney`), and
posts nothing for a job without a total, a discount and a fee (`Settles`). A failed answer of the
provider may name no reference; `markFailed` then writes the one it read before. Merged:
`ApplyRefundWebhook` finds the refund and writes it in one step. Left out: currencies, lists, fees
of the provider. Whether a wallet can pay is a nondeterministic answer, since other jobs spend from
it as well.

### Postings and Wallets

`Postings` has a set of keys that are applied and a balance, and one action: apply a key that
was not. `Wallets` implements it (`PostingsSpec`, with `applied <- posted`, `balance <- ledger`).

| Code | Actions of `Wallets` |
| --- | --- |
| `topUp` | `TopUp`, `Charge`, then the posting |
| `adjust` | `Adjust`, then the posting |
| `requestWithdrawal` | `RequestWithdrawal`, `AssertWalletIntegrity`, `CheckBalance`, then the posting with the row |
| `decideWithdrawal` | `DecideWithdrawal`, `WriteDecision`, then the posting of a rejected one |
| `postInTx` | `FindKey`, `SelectForUpdate`, `Commit` |

`postInTx` looks for the key, then takes the row locks and the balances in one statement, then
writes. At READ COMMITTED a statement sees what was committed when it began: `SelectForUpdate`
reads the balance then and may commit long after. The lock itself orders commits, and the unique
key makes a twin's commit fail. Amounts are all equal; adjustments are debits. `Crash` rolls an
open transaction back. `overtaken` is history: the withdrawals whose status had changed between a
decision's read and its write (`WriteRow`).

### Settlement and JobMoney

`Settlement` is `settlementEntries` and `refundEntries` as functions from an input to the debit
and the credit of seven accounts; lines of one account are added up. `JobMoney` lets each of a
customer's jobs go through

| Code | Actions |
| --- | --- |
| `evaluate`, `create` with `reserve` | `Evaluate`; `Create` or `CreateRefused`, with `Claim` of one use |
| `complete`, `confirmWorkInternal`, `applyPromoAndTax` | `Complete` with `FinalTotal` |
| `cancel` | `Cancel` with its fee; later, or never, `Release` of the promotion |
| opening a dispute, `restoreJob` | `Dispute`, `Restore` |
| `settleJobInTx` | `SettleJob`, from the columns as they are then |
| `job.completed` of `transitionInTx` | `Emit`, inside `Complete` and `Restore` |
| the referral listener | `Consider`, `Grant` with `Insert`, `Lose` |

Every change to COMPLETED emits `job.completed`, the one that ends a dispute too, so that a job may
have several listeners at work; `Deliveries` bounds how many. The posting of a reward is part of its
insert (one transaction), its fraud signals are a choice between GRANTED and BLOCKED. Taxes and
percentages are left out: fares, commissions and fees range over small sets that have a commission
above the fare and a discount above the fare.

### Idempotency and Disputes

`Idempotency` has a row per key: `rows` is `idempotency_keys`, `call` how far each guarded
request has come. `returned` and `lapsed` are history: keys whose handler returned within the 24
hours of their row, and keys whose row outlived them. The hash of the body in the row is left out: a
repeated key has the body it had.

| Code | Actions |
| --- | --- |
| `acquire` | `Acquire` (the read, and every refusal or replay), `DeleteExpired`, `CreateKey` |
| the handler, as the interceptor sees it | `Succeed`, `Fail` |
| `complete`, `release` | `Complete`, `Release`: after the client has its answer |
| 24 hours, faults | `Expire`, `Crash` |

`Disputes` puts `decide` in the place of the handler; opening and replying have no key.

| Code | Actions |
| --- | --- |
| `open` | `Open`, `CreateDispute`, `MoveJob` |
| `addMessage` | `Reply`, `TakeUp` |
| `decide` | `Decide`, `Refund`, `Adjust`, `WriteDecision`, `RestoreJob`, or `Throw` before any of them |
| the lifecycle | `ConfirmWork` |
| faults | `Die`, `GiveUp` |

`payments.refund` is one step here (its interleavings are in `Payments`); so are reading a job and
its versioned transition. What a provider that refuses does is kept: the refund is FAILED and
`decide` goes on. `refunds` and `asked` are history, by dispute: the amounts the provider paid or
refused, and the adjustments that were sent to the ledger, which posts the first.

### ChaletBooking

| Variable | Column or structure |
| --- | --- |
| `row[b]` | a row of `chalet_bookings`: status, `start_at`, `end_at`, `hold_expires_at` (0 for NULL), whether the owner recorded it |
| `call[q]` | the update a request has computed from what it read and not yet made |
| `swept` | ids `expireHolds` has read and not yet updated |
| `now` | the clock, in quarters of an hour |

| Code | Actions |
| --- | --- |
| `hold`, `createExternal` | `Hold`, `CreateExternal`: one step, because the insert is ordered by the exclusion constraint and uses nothing read outside |
| `confirm`, `cancel`, `extend`, `checkIn`, `checkOut` | `Confirm`, ... : the read with its refusals; then `Commit`: the update by id, refused only by the constraint |
| `expireLapsedHolds` | `ExpireLapsed`, inside `Hold`, `CreateExternal` and the commit of an extension |
| `expireHolds` | `SweepRead`, `SweepWrite` |
| trigger and `chalet_bookings_no_overlap` | `Fits`, `Accepts` |

Totals and overstay fees are left out, since no guard reads them; so are guests, offers,
deposits, refunds of money (none is moved by this code) and booking events. Opening hours and the booking grid are the constant set `Starts`. The cleaning time
is one constant, though the code freezes it per booking. Owner blocks are not modelled: no
code writes `chalet_blocks`. The statuses DRAFT, AWAITING_PAYMENT, CHECK_IN_READY,
IN_PROGRESS, CLEANING, COMPLETED, NO_SHOW and DISPUTED are in the table, but nothing writes
them. `confirm` of a lapsed hold marks it EXPIRED and throws inside the transaction: the
update is rolled back, and the action does not exist.

## 3. What is checked

Runs that must pass:

| Run | Instance | Question |
| --- | --- | --- |
| `search` | 1 job, 2 partners, 2 waves of 2, 2 searches, 1 request and 1 worker at a time | Types; `HolderIsBusy`, `BusyIsExplained`, `AcceptanceExplained`, `SearchAlive`, and the refinement `OwnershipSpec` |
| `races` | 1 job, 2 partners, 1 wave of 2, 1 search, 2 requests and 1 worker, a crash | `HolderIsBusy`, `BusyIsExplained` with two accepts, accept against cancel, accept against going offline, and a death of the process at any point |
| `by_hand` | 1 job, 2 partners, 3 searches, dispatchers and forced statuses, a crash | `HolderIsBusy`, `HolderMatchesPhase`, `OwnershipSpec` under manual assignment and reassignment |
| `progress` | 1 job, 1 partner, 2 waves, 2 searches, 1 request and 1 worker, fairness | `SearchEnds`, `PartnerFreed` |
| `home` | every kind of category, 2 requests, 1 worker, 2 revisions, a crash, fairness | Types; `OnePending`, `CountedOnce`, `FareStands`, `WorkEnds`: customers, staff and timers answer, confirm, cancel and dispute at once |
| `payments` | cash, wallet and card; 2 requests, 1 worker, 2 refunds, 1 event of 3 attempts that reports the total or less, versions to 3, a crash, fairness | Types; `PaperworkAgrees`, `LedgerIsBacked`, `ProcessedIsPosted`, `RefundedIsPosted`, `QueuedIsSettled`: what is captured has its paperwork, the ledger is backed by the provider |
| `wallets` | 2 requests, 2 top-ups, 1 adjustment, 2 withdrawals | Types; `HoldsAgree`, `CreditIsCharged`, and the refinement `PostingsSpec` |
| `money` | 3 jobs, 1 listener of each at a time, a promotion of one use, a commission and a discount between the two fares | Types; `SettlementsBalance`, `PartnerEarnsFare`, `UsageIsLive`, `OneReward` |
| `disputes` | 2 requests, 2 keys, 1 dispute, 2 decisions with different adjustments, a crash, fairness | `OncePerKey`, `DecisionIsBooked`, `KeyIsFreed` |
| `chalet` | 2 bookings, 2 requests, 2 starts, stays of 1 and 2, the sweep, instants 0 to 7 | Types; `NoOverlap`, `HoldProtected`, `EarlyAtMost` |

Each property of a passing run has a seeded fault in `PROJECT.json` (a dropped guard, a
missing reset, a late sweep, a swapped order) under which the same run fails. The definitions
marked as seeded faults in the modules serve only that.

Why the bounds are enough.

* Dispatch: every race that we know needs at most two partners (a winner and a loser, or a
  previous and a next holder), two waves (so that the one does not end the search), two searches
  (so that timers of the first are stale) and two handlers at once beside the queue's worker;
  three searches let a partner be released twice with somebody else in between, and let a
  dispatcher reassign twice. Jobs share nothing but partners.
* Home service: two revisions give a pending and a superseded quote and a change order; two
  requests and a worker give a customer, staff and a timer at once.
* Payments: a stale write needs a reader and a writer that came between, hence two requests and a
  worker; with a total of 2, two refunds are two halves, or one and one too many; three
  attempts let an event be refused by the version, die with its worker, and end. An event of 1
  reports less than the total, one of 2 the total. Versions stop new handlers at 3, not those that
  have begun.
* Wallets: two requests are twins of one key, a request and a decision, or two decisions.
* Money: one promotion, its use, and two jobs that lose it; the third lets a released use be
  claimed again. Two jobs and a dispute are what it takes to have two listeners count a single
  completed job: one job is considered and disputed, the other completed and considered. A second
  listener of one job is left to the proof.
* Disputes: the second key is a retry with a new intent, the second request a double click; the two
  decisions differ in their adjustment, one has a refund.
* Chalets: two bookings are enough for every pairwise property. The instants were chosen so that
  two stays fit exactly (2 to 4 and its cleaning, then 5 to 7), an extension of the first
  collides with the second, the check-in window of the second opens during the first, and a hold
  lapses before its stay.

One death of the process is enough to stop one handler between any two operations; the
recoveries are the queue's and the next request's, which have no state of their own to lose. The
proofs remove the bounds for the properties they cover.

Deadlock is checked in every run of `Dispatch`: the system can always do something, since
partners come and go. The others end: a chalet's clock, a payment whose versions are used up, a
wallet without further keys, a job that is over, a decided dispute. They say `CHECK_DEADLOCK
FALSE`.

Fairness. A handler that has begun proceeds (the event loop is fair, and the operations are
asynchronous calls that return), and BullMQ serves its queue. Nobody is obliged to act: no
customer confirms, cancels or retries, no partner answers, no provider reports, and no crash is
assumed away other than by its bound or by the property's own premise `crashes = 0`.

* `SearchEnds`, `PartnerFreed` (`Dispatch!Fairness`): weak fairness of the next operation of some
  HTTP handler and of some worker of each job. An entry of the queue that is due again and again is
  picked up: strong fairness, since the queue is first in, first out, and a worker that is busy now
  becomes free later. An accept in progress finishes, offers expire and deadlines pass.
* `WorkEnds` (`HomeService!FairSpec`): weak fairness of each request's next operation and of each
  worker.
* `QueuedIsSettled` (`Payments!Fairness`): weak fairness of each process and of some worker taking
  each event. An attempt is used up when another writer changed the row between the worker's read and its
  update. With a single attempt the property fails; with two or three it holds on this instance,
  whose versions allow few such writers. The queue gives five.
* `KeyIsFreed` (`Disputes!FairSpec`): weak fairness of what a guarded request does next.

### Findings

Runs of one property each that TLC violates; the property says what a comment says of the code.

| Run | What happens | Statement |
| --- | --- | --- |
| `wallet_cache` | a posting that waits for another one's row lock computes its balance from the snapshot its statement began with: the cached balance of the wallet forgets the other posting, though the entries are right | `ledger.service.ts:389` "so `balance_after_minor` is a true running balance" |
| `quote_lost` | the response timeout reads a SUBMITTED quote, an approval commits, and the timeout rejects the quote by its id; the job goes on and the finished work is billed as an inspection | `job-lifecycle.service.ts:637` "with the approved quote as the final fare" |

Seen while modelling, without a run of their own. Dispatch:

* The expiry of a wave reads the open rows, an accept of one commits, and the expiry overwrites the
  row with EXPIRED: the assigned job has no ACCEPTED row (`docs/TESTING.md:97`).
* A wave creates its rows after the job was taken, and the sweep that would close them has gone by
  (`docs/TESTING.md:98`).
* A release sent twice takes the job from the partner who accepted it in between; that partner stays
  BUSY on a job he does not have (`dispatch.service.ts:519`).
* One partner accepts two jobs at once: each transaction reads, unlocked, that the partner is free
  (`dispatch.service.ts:418`).
* An accept commits, the partner releases the job, and only then does the accept sweep the queue
  (`dispatch.service.ts:474`): it removes the wave and the timeout of the new search, and the job is
  SEARCHING for ever, although a search ends by "total-timeout → `NO_PARTNER_AVAILABLE`"
  (`FINAL_IMPLEMENTATION_REPORT.md:94`).
* `manualAssign` empties the queue of a search and only then looks whether it can assign: if the
  partner has been taken by then, the search goes on with nobody.
* `manualAssign` of an idle job passes no version to its transition (`dispatch.service.ts:610-619`),
  which reads the status anew: a job that was redispatched and accepted since goes back to SEARCHING
  without a REASSIGNED row, and its partner stays BUSY. His ACCEPTED row keeps anybody else from
  having one. `by_hand` has a single request and no worker, so no run reaches this; the theorems
  exclude it by `AssignsUntaken`.
* Closing a job by the admin transition to COMPLETED leaves the partner busy
  (`docs/OPERATIONS.md:190`); one to ASSIGNED connects no partner. The latter is the one thing that
  breaks `OwnershipSpec`; `by_hand` leaves it out of `ForcedTargets` and the theorems assume so.
* A timer of a first search ends the search of a retry early (`dispatch.service.ts:279` compares no
  deadline). A wave entry left in the queue restarts a job that has ended in NO_PARTNER_AVAILABLE.
* `wait-<jobId>` is used once per job: after a reassignment the second arrival starts no timer
  (`job-lifecycle.service.ts:300`).
* `runWave` run twice at once can offer a job to a partner who has just refused it, although
  `dispatch.service.ts:100` calls it idempotent.

Home service:

* The response timeout asks for a transition the table does not give SYSTEM: the quote is rejected,
  the job stays QUOTE_SUBMITTED (`quotes.service.ts:286`).
* `closeInspectionOnly` never frees the partner; `startWork` is accepted from INSPECTION_STARTED
  without a quote; after a rejected change order two quotes of a job read APPROVED.

Money:

* The cancellation fee is written as the fee and as the final total, and the settlement charges
  both: "charged to the customer" (`ledger.rules.ts:141`), but twice
  (`job-lifecycle.service.ts:111`, `settleJobInTx`).
* A discount above the final fare pays the partner the whole discount. That is why
  `PartnerEarnsFare` has its premise.
* A cancellation releases the promotion (`job-lifecycle.service.ts:170`) and then captures the fee
  (188), whose settlement debits the discount all the same (`ledger.service.ts:600-607`): the
  platform pays for a promotion whose use was given back.
* A captured webhook captures the amount it reports, while the settlement follows the job: payment
  and settlement may differ in amount, by the provider's report, or by the fee of a cancellation.
  One that arrives after a refund captures the payment again; if it reports less than was refunded,
  the row has more refunded than captured (the exemption of `RefundedIsPosted`).
* A failed answer without a reference writes back the reference read before
  (`payments.service.ts:451`), which may be null: a captured event then finds no payment and is
  marked as processed without effect (the exemption of `QueuedIsSettled`).
* Two decisions on a withdrawal check a status and update by id: a rejection that races an approval
  or a payment leaves it APPROVED or PAID with its hold given back, or PAID and then REJECTED, against
  `wallet.service.ts:469`, "APPROVE keeps the hold, REJECT reverses it". `HoldsAgree` exempts the
  withdrawals this happens to and no others.
* Two refunds read the refunded amount outside the transaction that writes it: more than the
  captured amount may be given back, in spite of `payments.service.ts:586`. What holds is
  `RefundedIsPosted`: the row never claims more than the books.
* The process dies between the row of an event and its queue entry: the repeated delivery finds the
  row and is acknowledged without effect (`payments.service.ts:801`).
* The log of `job-lifecycle.service.ts:192` says that the finance queue will retry a capture;
  nothing enqueues one.
* A late `refund.failed` turns a posted refund FAILED while the ledger keeps it.
* A top-up is charged and its posting lost if the process dies between the two.
* The limit of a promotion per customer is read outside the transaction
  (`promotions.service.ts:136`). Two first jobs completed at once both count two: neither earns
  the inviter's reward (`referrals.service.ts:189`).
* The reward is "only for the *first* completed job" (`referrals.service.ts:192`), but what is
  counted is the jobs that are COMPLETED now: while the first is DISPUTED the second counts as the
  first, and the end of the dispute emits `job.completed` for the first again.

Disputes and idempotency:

* `disputes.service.ts:328` relies on the ledger key and the guard, and
  `admin-web/src/lib/idempotency.ts` says that a retry "never issues a refund twice". A `decide`
  that fails after its refund releases its key; the retry refunds again, as far as the payment
  allows. So does a second decider with a key of his own.
* `decide` does not look at what became of its refund: a dispute is RESOLVED although the
  provider refused. `DecisionIsBooked` says "paid or refused" for that reason.
* The first of two deciders' adjustments stands, because the key is the dispute's and `post` answers
  a known key with its posting (`ledger.service.ts:225`), while the row may show the other's: with -1
  and -2 the ledger may hold -1 and the row -2. `DecisionIsBooked` exempts a dispute for which
  another adjustment was sent to the ledger than the one it shows.
* `addMessage` by staff takes a dispute that was decided since it was read back to UNDER_REVIEW.
* Two disputes opened at once are both live, although "only one may exist per job"
  (`dispute-decision.ts:17`). Opening while another is decided leaves a job DISPUTED with no live
  dispute.
* An expired key is deleted by its name, whatever it has become: after 24 hours two retries can
  both run. A crash leaves a key locked for 24 hours. The hash of a request covers its body, not
  the id in its URL.

Chalets:

* A lapsed or cancelled booking comes back as CONFIRMED, and a confirmed one is EXPIRED by the
  sweep: no update compares the status or the `version` it read (`schema.prisma:3026`,
  `booking-state.ts:4`). `HoldProtected` speaks of rows that are still HELD and `NoOverlap` of
  those that are live: neither catches it.
* `booking-state.ts:161` says that the calendar guarantees no check-in before the previous
  booking's cleaning is done. It does not: check-in opens thirty minutes before the start.
  What holds is `EarlyAtMost`: at most those thirty minutes.
* An extension between the read and the update of check-out (or the reverse) is lost from
  the total, or the fee is (`chalet-booking.service.ts:677`). Seen by reading: the model has no totals.

## 4. What is proved

| Theorem | Statement |
| --- | --- |
| `DispatchProofs!TypeCorrect` | `Spec => []TypeOK` |
| `DispatchProofs!Implements` | `Spec => OwnershipSpec`, if `"ASSIGNED" \notin ForcedTargets` |
| `DispatchProofs!HolderAlways` | `Spec => []HolderMatchesPhase`, under the same assumption |
| `DispatchApartProofs!HolderIsBusyApart` | `Spec /\ []PartnersApart => []HolderIsBusy` |
| `BusyIsExplainedApart` | `Spec /\ []PartnersApart /\ AssignsUntaken => []BusyIsExplained`, if neither SEARCHING nor COMPLETED is forced |
| `AcceptanceExplainedApart` | `Spec /\ []PartnersApart /\ AssignsUntaken => [](crashes = 0 => AcceptanceExplained)`, if SEARCHING is not forced |
| `SearchAliveApart` | `Spec /\ []JobsApart => [](crashes = 0 => SearchAlive)`, if SEARCHING is not forced and nobody assigns by hand |
| `HomeServiceProofs!TypeCorrect`, `OnlyLatestPending`, `AlwaysCountedOnce`, `FareAlwaysStands` | `TypeOK`, `OnePending`, `CountedOnce` always; `FareStands` |
| `PaymentsProofs!TypeCorrect`, `PaperworkAlwaysAgrees`, `LedgerAlwaysBacked`, `ProcessedAlwaysPosted`, `RefundedAlwaysPosted` | `TypeOK`, `PaperworkAgrees`, `LedgerIsBacked`, `ProcessedIsPosted`, `RefundedIsPosted` always |
| `WalletsProofs!TypeCorrect`, `HoldsAlwaysAgree`, `CreditAlwaysCharged` | `TypeOK`, `HoldsAgree`, `CreditIsCharged` always |
| `WalletsProofs!ImplementsPostings` | `Spec => PostingsSpec` |
| `JobMoneyProofs!MoneyTypeCorrect`, `EverySettlementBalances`, `PartnerAlwaysEarnsFare`, `UsageAlwaysLive`, `OneRewardOnly` | every property of `money` always |
| `DisputesProofs!KeyRunsOnce`, `DecidedIsBooked`, `TypeCorrect` | `OncePerKey`, `DecisionIsBooked`, `TypeOK` always |
| `DisputesProofs!GuardIsImplemented` | `Spec => GuardSpec` |
| `ChaletBookingProofs!TypeCorrect`, `NeverDoubleBooked`, `HoldsLast`, `CheckInBounded` | every property of `chalet` |

They hold for any sets of jobs, partners, requests, workers, keys and bookings and any values of
the other constants that the `...Assumption` of each module allows.

**Typing of Dispatch.** `TypeOK` alone is not inductive: `CreateOffers` uses the job and
the rows its handler read, `AssignByHand` the partner, and so on, and the type `Call` allows
`NoJob` and `NoPartner` there. `TypeInv` adds `HandlersOK`: every handler in flight has
what its next operation uses. There is one lemma per group of actions (`*Typed`), and each
splits into the parts of `TypeOK` that the action can disturb.

**Refinement of JobOwnership.** `MobilityMoves` sorts the rows of the table for mobility jobs by
what they do to the phase: stay, give up, begin, close; it is the only place where the table is
expanded. `StepMoves` shows that every step changes `status` and `holder` of at most one job,
and only through `Transition` (to anything but ASSIGNED) or `TransitionToAssigned`.
`TransitionOwned` and `AssignmentOwned` show that each of these is a step of `JobOwnership`
or changes neither variable. `HolderAlways` follows because `PartnerMatchesPhase` is
inductive for `JobOwnership` (`OwnershipKeepsPartner`).

**What Dispatch guarantees, and what it needs for that.** With two requests at once
`HolderIsBusy`, `BusyIsExplained`, `AcceptanceExplained` and `SearchAlive` are false: section 3
lists the races. The theorems say which races these are. `PartnersApart` says that no two requests
decide about one partner at the same time, where a request decides from its read to its last
write: an accept with its transaction open, a release, a cancellation or completion that has yet to
free the partner, an assignment by hand. It is what a lock on the partner would give. `JobsApart`
says the same of the requests about one job, and leaves workers, accepts in their transaction and the clock free.
Both are hypotheses about the execution, not about the constants, and neither is idle. In
`MCSearch.cfg` with one partner, waves of one and `MaxRequests = 2`, TLC finds `SearchAlive`
violated; with one wave, `ManualDispatch = TRUE` and no worker, `HolderIsBusy`; with a second partner and
a third search there (`-simulate`), `BusyIsExplained` and `AcceptanceExplained`. Under
`Init /\ [][Next /\ JobsApart']_vars` and `Init /\ [][Next /\ PartnersApart']_vars` the first
two instances pass. `AssignsUntaken` is the one race that no lock on a partner excludes, since the
dispatcher's request is about another one: the unversioned transition of `manualAssign` takes a job
back from whoever accepted it after the read. It says that this transition takes a job from nobody, as the
client's version would see to if it were passed on; releases and reassignments are not
restricted by it. Without dispatchers (`~ManualDispatch`) it holds of itself.

* `HolderInv` (no condition on crashes or forced statuses): `OpenUnheld`, a job that is open has no
  partner; and `Undisturbed`, while a partner has a job he is recorded as being on it, no accept of
  his is open, nobody is about to free him, and nobody assigns him to another job or gives back
  another one of his. `PartnersApart` is what keeps a second request from disturbing him.
* `ReleaserHolds`: a release that has passed its check is by the partner of the job as long as
  nobody else decides about him. It carries `BusyInv` and `AcceptInv`, which add
  `BusyIsExplained` and `AcceptanceExplained`: whoever leaves a job (through `Transition`, the only
  place that does) leaves behind a handler that frees him, `BeginByHand` excepted, which
  `AssignsUntaken` keeps from making anyone leave. An administrator who forces SEARCHING or
  COMPLETED leaves none, hence the conditions; a crash takes the handler, hence `crashes = 0`.
* `SearchInv`: a SEARCHING job is carried by `Work` (an entry of the queue or a worker, which BullMQ
  runs to its end) or by a request that goes on to a wave (`Carries`). A request that is to sweep
  the queue (`Sweeping`) is about a job that is not open: what would reopen it is another request
  about that job. A request whose wave will be refused by a row of another (`Refused`) leaves
  the work of that other behind. An assignment by hand sweeps a job that is SEARCHING, and may
  then find the partner taken: TLC shows that `SearchAlive` fails there even with one request,
  hence `~ManualDispatch`.

**Home service.** `Inv` is `Ordered` (types, `HandlersOK`, `OnePending`) and `Closing`. `HandlersOK`
says that a handler that answers or times out a quote names an existing revision. `Closing` is what
makes the counting work: a fare is only there once the job has ended, the table leads from a job
that has ended only to COMPLETED or DISPUTED and never for SYSTEM (`MovesFromEnded`), so one handler
at most is about to count, and only if nobody has. `FareStands` follows, since quotes are sent only
in statuses that come before.

**Payments.** `Inv` is `TypeOK`, `HandlerOK`, `Money`, `Rows`, `Distinct` and `Unsent`. `HandlerOK` is what a
refund relies on although nothing is locked: what it read was captured, the amount fits that read,
the refunded amount it read is within what the ledger has posted by now, and the row it created is
still open. `Money` is the receipt with what must be there beside it: the settlement, an amount that
the job or an event named, and `RefundedIsPosted`. `Rows` says that only
posted refunds carry the provider's reference, so that a webhook, which finds rows by it, cannot
write an open one; `Distinct` that no two handlers carry out the same refund. `LedgerAlwaysBacked`
compares what was posted with what the provider took and gave back: the sum of a set of
refunds is taken as the cardinality of the set of pairs of a refund and a unit of its amount, so
that it moves by `FS_AddElement` and its like, and the argument is that a handler that has given
money back has not posted it yet.

**Wallets.** `Inv` is `TypeOK`, `ActOK` (what a request may rely on: a top-up posts when it is
charged, a hold is of a withdrawal that does not exist yet, a decision of one that does and was
not rejected when it was read), `Exclusive` (a withdrawal row is written by one open transaction), `HoldsAgree` and
`CreditIsCharged`. The refinement has one real step, `Commit`: it applies a key that
the unique index has not refused.

**JobMoney.** `Inv` is `MoneyTypeOK`, `Columns` (the columns of a job follow its stage, and what was
settled is what they say), `Holds` (a job with a discount holds its promotion until it is cancelled),
`UsageIsLive` and `Rewards` (a listener that is to write a reward, and every reward, is for a
finished job with the total it takes: a job that is finished stays so, and the unique invitee does
the rest). The balance of a settlement is arithmetic over the five
cases of method and kind, a lemma about `Settlement` alone. Cardinality of the live redemptions
moves by one by `FS_AddElement` and `FS_RemoveElement`.

**Disputes.** Two layers. `GuardInv` is inductive for `Idempotency` alone: within the life of a row
an active request owns its key (`Exclusive`), and the row of a request that returned stays
(`Kept`). `StepIsOfTheGuard` shows that every step of `Disputes` is a step of the guard or
leaves its variables alone, so `GuardInv` carries over, and `Spec => GuardSpec`. `BookInv` adds
what a decider relies on at each operation: in its handler, its dispute known, and what precedes
the operation booked (`BooksFirst`), which nobody takes back because the books only grow; that a
decision was asked of the books as it stands (`DecisionAsked`); and that the ledger has one of the
adjustments it was asked for (`LedgerAsked`), which is the decision's when it was the only one.

**Chalets.** `Inv` is `TypeOK`, `Disjoint` (no two slot-holding rows overlap: what the
constraint checks for the row written, stated of all), `CallsOK` and `SweptOK`. The last two
are what a request or the sweep may still rely on although nothing is locked: the booking
exists and keeps its start; only updates that clear the deadline can meet a hold; a hold the
sweep has read has lapsed, and holds are never renewed. They are needed because `TypeOK` is
not inductive (an extension written over a hold would give an EXPIRED row a deadline, or a
window that ends before it starts). `Ages` is the relation every write satisfies (no booking
vanishes, moves its start, or becomes a hold); `AgingKeepsInv` shows once that it preserves
what requests and sweep rely on, and each action is a short lemma on top. `NoOverlap` then
follows because every status the service writes is either slot-holding or over.

Only model-checked:

* `races` as such: its two requests may decide about one partner at once, which `PartnersApart`
  excludes. It passes because it has one search only.
* Liveness: `SearchEnds`, `PartnerFreed`, `QueuedIsSettled`, `WorkEnds`, `KeyIsFreed`. The prover does
  neither fairness nor `ENABLED`. Nor does it do induction over data or recursive operators; no
  module uses the latter.

## 5. Plan

Done: the modules above. What would come next, in this order:

1. A condition weaker than `PartnersApart` that covers `races` and still excludes the lost
   releases.
2. `Sessions`: refresh rotation, reuse detection and revocation of a family (`auth/`).
3. The ledger's reversals and reconciliation.
4. Penalty points and suspension of partners and customers, which follow cancellations.
5. Advertised chalet offers, whose price depends on the free window.

## 6. Not modelled

* Reversals, statements and reconciliation of the ledger; the fee policy and penalty points of
  cancellations; fraud scoring of promotions; previews of prices: not yet, or read-only.
* Authentication, sessions and one-time passwords: access control is taken as given; an action is
  taken by an actor the guards admit.
* Notifications, realtime, tracking, chat, ratings, support, campaigns, analytics, audit,
  media: no other modelled component reads what they write.
* Price and distance arithmetic, search and ranking: pure functions whose results are inputs
  here.
* Catalogue, zones, vehicles, users, rbac, configuration: records that administrators edit;
  the models take them as constants.
* Postgres, Redis and BullMQ are assumed to do what they document; the models use
  row-level serialisation of single statements, the unique and exclusion constraints, and
  re-delivery of unfinished queue jobs after a crash. Loss of Redis's data is not modelled.
* The clients: their screens hold no authoritative state. That they send a key again is
  modelled; when they do is not.

Most of the repository's lines are clients, translations, DTOs, seeds, administration and
read-only queries, which is why the map covers a small part of its lines.
