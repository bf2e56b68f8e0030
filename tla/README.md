# Verification of the AuriX Telegram bot

TLA+ models, TLC runs and TLAPS proofs for the AuriX bot: how an order is
placed, paid, reviewed, approved, refunded and swept; how the access it pays for
is provisioned on an Outline server, repaired, moved and taken away; and the
services around that: free keys, capacity, staff confirmations, notifications,
receipt reading, droplets and their enrollment, releases.

- [The system](#the-system)
- [What can go wrong](#what-can-go-wrong)
- [Modules](#modules)
- [How the models correspond to the code](#how-the-models-correspond-to-the-code)
- [Runs](#runs)
- [Proofs](#proofs)
- [What the checks found](#what-the-checks-found)
- [What is not modelled](#what-is-not-modelled)
- [Plan](#plan)

## The system

One process sells VPN keys through Telegram. It runs two threads that share one
database (SQLite today, PostgreSQL as the target of a migration):

- the **Telegram thread** (`telegram_transport.py`, `run`) takes updates one at
  a time. An update is recorded as seen, then handled; a handler is almost
  always one call of the order service, which is one transaction;
- the **maintenance thread** (`telegram_maintenance.py`,
  `_run_maintenance_pass`) runs a pass of stages every interval: quota, sweeps
  of expired holds, orders and subscriptions, the job worker, key repairs,
  migrations, notifications, receipt extraction.

A second process must not run beside it on SQLite
(`docs/FINAL_ARCHITECTURE.md`, `deploy/README.md:151`).

| Component | State | Operations | Talks to | Hard because | Correct when |
|---|---|---|---|---|---|
| Orders (`commerce_service.py`) | `orders`, `payments`, `payment_evidence` | create, top up, replace, cancel, pay, submit, verify and reject a receipt, approve, reject, refund, expire | wallet, paid access, receipt storage | a receipt is uploaded between two transactions; sweeps run on the other thread; staff and customer act in any order | one open order per customer; an order ends once; payment activity is never expired away |
| Wallet (`commerce_service.py`) | `wallets`, `wallet_ledger`, `wallet_reservations` | credit, reserve, capture, release, reversal | orders | money moves are made idempotent by ledger keys, and four handlers and a sweep settle the same hold | the balance is what the ledger says; a hold is settled once; no order creates money |
| Paid access (`commerce_worker.py`) | `subscriptions`, `paid_vpn_keys`, `provisioning_jobs`, keys on the Outline server | claim, provision, revoke, expire, enforce quota, retry | Outline server (`outline_adapter.py`) | remote calls between transactions, ambiguous time-outs, crashes, retries, refunds meanwhile | no live key without a right to it or a revoke outstanding; a key given out exists; a revoked key is gone |
| Free and promo keys (`entitlements.py`) | `keys`, `free_provisioning_intents`, campaigns | claim, give away, terminate, warn | Outline, orders (promo blocks paying) | intents executed by both threads | one free key per customer, slots not exceeded |
| Notifications (`commerce_worker.py`, `telegram_maintenance.py`) | `notifications` | queue, claim, sent, failed | Telegram | lease, retry, dead letter | each is sent or visibly dropped |
| Receipt extraction (`receipt_llm.py`, `receipt_rules.py`) | `receipt_extraction_jobs` | claim, finish, fail | a language model | late results, reclaim | never changes an approval |
| Key repair and endpoint migration (`commerce_worker.py`) | repair and migration jobs | claim, recreate, switch, delete | Outline | several passes, against expiry and quota | no key lost, none left behind |
| Connectivity registry (`connectivity_registry.py`) | endpoints, profiles, credentials | sync, bind, revoke, rebuild | the worker | a shadow of the key tables | agrees with them |
| Staff actions (`access_control.py`, `telegram_callbacks.py`) | roles, admin challenges | add, remove, confirm | orders | a confirmation outlives what it was shown for | consumed once, for the state shown |
| Capacity (`commerce_service.py`, `entitlements.py`) | `outline_servers`, `server_plan_allocations`, reservations | select a server, reserve, inventory, policy | orders, free claims, worker | counts lag behind the keys; reservations lapse and revive | no more sold than the owner allows |
| Fleet (`infrastructure.py`, `fleet_enrollment.py`, `deploy/`) | infrastructure jobs, enrollment tokens, manifest | queue, create, reconcile, enroll, remove orphans | a cloud provider | billed, ambiguous creations; a manifest written in steps | one droplet a job, budget kept, no node in use removed |
| Releases (`deploy/digitalocean_autodeploy.py`) | release directories, current link, recorded commit | build, link, restart, watch, roll back | git, CI, systemd | killed between any two steps | a release that failed is not served |

The rest (schema migrations, start-up, backups, deployment checks, rendering)
is listed with its reason in `PROJECT.json`.

## What can go wrong

The hazards are in `PROJECT.json` with the line where each bites and the
properties that would notice. The ones this project is built around:

1. the worker reads a subscription, talks to the Outline server, and writes
   much later, while a refund, an expiry or a crash happens in between;
2. a receipt is uploaded between two transactions, and the second one does not
   look at what the first one read;
3. several ways to pay one order, several receipts, and several handlers that
   settle one hold;
4. on PostgreSQL a sweep selects rows without a lock and writes them later;
5. money moves keyed by the order: approval, rejection, sweep and refund must
   together never create any;
6. a key may be repaired, moved, ended and its server retired by jobs of two
   threads, each of which reads a row long before it writes it;
7. what is decided on a count, a listing, a preview or a lease (slots, orphans,
   confirmations, notifications, readings) is carried out when the count, the
   state or the lease may be another.

## Modules

| Module | What it is |
|---|---|
| `PaidAccess` | subscriptions, jobs, keys, the Outline server and the workers |
| `OrderLedger` | orders, payments, receipts, wallet, sweeps; extends `PaidAccess` and composes with it |
| `OrderLifecycle` | the abstract order: opened once, perhaps held, ended once, refunded at most once |
| `AccessLifecycle` | the abstract paid access: asked for once, given at most one key, taken back for good |
| `MCOrderLedger` | values of the function constants for TLC |
| `KeyCare` | one issued key on two servers: inventory, repair, migration, quota, expiry, refund, server life cycle, connectivity registry |
| `FreeClaims` | daily keys and gifts: intents, slots, winners, terminations, the clean-up of a paid upgrade |
| `Capacity` | server selection, reservations, inventory counts and health, the owner's limits |
| `Fleet` | infrastructure jobs, orphan cleanup, enrollment tokens, manifest and reconciliation |
| `Staff` | updates, confirmation challenges and the actions they confirm, staff roles |
| `Outbox` | notifications: preferences, quota alerts, leases, failures, dead letters |
| `Readings` | receipt extraction jobs and what their results may change |
| `Releases` | the deployer: build, link swap, readiness, rollback, interruption |
| `MCServices` | the seven modules above from `FreeClaims` on, explored in one run |
| `PaidAccess_proofs` | type correctness, the three access safety theorems; the worker implements `AccessLifecycle` |
| `OrderLedger_proofs` | one open order, access is paid, the system implements `PaidAccess` and `AccessLifecycle` |
| `OrderMoney_proofs` | types, receipts, holds, decisions, wallet and value of orders; the system implements `OrderLifecycle` |
| `KeyCare_proofs` | every safety property of `KeyCare` |
| `Staff_proofs` | confirmations (`Staff`), receipt readings (`Readings`) and notifications (`Outbox`) |
| `Operations_proofs` | droplets, enrollment and orphans (`Fleet`), served releases (`Releases`) |
| `Supply_proofs` | free keys and their slots (`FreeClaims`), the owner's limits (`Capacity`) |
| `Services_proofs` | the composition `MCServices` implements each service specification, and has their properties |

`OrderLedger` extends `PaidAccess` rather than instantiating it: an approval
conjoins `OpenAccess(o)` and a refund `CloseAccess(o)` to its own assignments,
because the code does both in one transaction. `PaidAccess` has a next-state
relation of its own, in which an order is approved and refunded at any time, and
`SystemImplementsAccess` proves that the composed system never does more to the
access tables than that. `OrderLifecycle` is the abstract specification of
`OrderLedger`: `StageOf` computes the abstract stage of an order and
`KeepsLifecycle` says the refined specification implements it. `AccessLifecycle` is
the abstract specification of `PaidAccess`, what the customer was promised without
jobs, workers or servers: `PhaseOf` computes the phase of an order's access from the
subscription and key rows, and `KeepsPromise` says that the worker, its failures,
crashes and retries included, implements it.

`KeyCare` starts where `PaidAccess` ends, with a key that was issued, and has the
jobs that work on it afterwards. The seven service modules are specifications of
their own (`FreeSpec`, `FleetSpec`, ...). They share no variables: where one meets
another (an order and its place on a server, a plan and the free keys it replaces)
the other side is an action of the module. `MCServices` chooses one of them at the
start (`focus`) and leaves the others as they begin, so a run of it is seven
explorations, not their product.

## How the models correspond to the code

`PROJECT.json` maps each definition to its lines. Conventions:

- **A transaction is a step.** A handler is one action whose guards are its
  early returns, in a state where the Telegram thread is free (`Ready`).
  `submit_receipt` is two transactions around an upload: `SubmitReceipt` or
  `RetryUpload`, then `UploadDone` or `UploadFails`, and the thread is busy in
  between.
- **The worker** runs a job as `Claim`, then one step per Outline call and per
  transaction. What it read stays in its program counter; the guards of later
  steps are only what the code checks again. `Undo` is the exception handler of
  `_provision`: it deletes the key this run created and fails the job.
- **Sweeps.** The rows of a sweep are independent, so a sweep is written one row
  per step. On SQLite `BEGIN IMMEDIATE` excludes other writers, so a row is
  selected and written at once. On PostgreSQL rows are selected without a lock
  (`SweepSelect`) and written later (`SweepWrite`), handlers interleaving. Sweeps
  and jobs share a thread: a sweep starts when a worker rests, and no job runs
  while one is open.
- **Time** is four facts: an order or a hold is older than 24 hours, a
  subscription is due, a running job's lock is older than five minutes. Retry
  delays and oldest-first order become: any pending job may be claimed.
- **Identity.** Subscription, key, both jobs, reservation and ledger events are
  unique per order in the schema, so they are functions of the order. The Outline
  key id is derived from the subscription id, so the server holds at most one key
  per order. The POST fallback of servers without PUT is abstracted to the same.
- **Payments** are a sequence of rows, because approval and verification look at
  the latest live one. A receipt image is its hash; `newest` is the last
  submitted. References are (provider, normalized reference) pairs, unique over
  all rows as in the schema.
- **Failures** of the Outline server: a call raises with or without its effect.
  A crash forgets what the worker had in hand. `WorkerCrash` also stands for a
  `_job_failed` whose own write fails.
- **Attempts** saturate at the limit: beyond it every count behaves alike.
- **Promo keys** are an environment: the set of customers who hold one changes
  at will.
- **Staff.** `RejectUnstored` says whether staff reject receipts that the review
  queue hides (their upload failed). The service allows it and the order panel
  offers it: `system` and `reopened_order` set it to `TRUE`; the other runs model
  staff who work from the review queue (`FALSE`).
- **Left out** of the modelled operations: currency, capacity and server choice,
  payment method, perceptual fingerprints, extraction, notifications, audit rows.
  `verify_receipt` and `reject_receipt` read the evidence before they lock the
  order; with one handler thread that is the same moment.

### Key care and the services

- **`KeyCare`.** The maintenance thread holds one job at a time (`hand`); the
  Telegram thread may list a server's keys and write the comparison later
  (`listing`). A transaction is a step and a remote call is a step. Attempts are
  abstracted: a job that fails is tried again or parked. Passes take their stages
  in any order. A recreated or moved key is counted from zero by the server; that
  is the Outline server's behaviour and is assumed. The reading of the metrics and
  the transaction of an inventory are one step. A ledger row that an upgraded database
  holds as missing without a count, which the code counts twice at once
  (`commerce_service.py:1574`), is no state of the model.
- **`FreeClaims`.** The Telegram thread reserves an intent and carries it out; the
  maintenance thread carries out what is left and ends keys. Key ids are digests
  of the customer and the last claim, so a create adopts what is there. Days are
  the clock; the monthly trial, which is the daily claim with another period, and
  the traffic budget are left out.
- **`Fleet`.** One worker pass at a time (`pass`), each provider call, file write
  and transaction a step; two callers queue jobs; the operator may declare a node
  or run the reconciler; the hour between two sightings of an orphan is a step.
  The transaction of `queue_provision` is atomic as on SQLite; on PostgreSQL
  `begin_write` takes no lock and two callers may both queue.
- **`Staff`.** Telegram keeps updates until a poll with a higher offset; an update
  is recorded as seen before it is handled. A snapshot is the state of its subject
  (an order with its receipt, or a server); its fingerprint is that state. The
  conversation state of a chat and the other commands are left out.
- **`Outbox`.** A claim pushes `next_attempt_at` forward; sending is a step in
  which Telegram may take the message and the answer be lost. `doubts` counts, for
  the property, the moments after which nobody can know whether it arrived.
- **`Readings`.** A job is claimed, the model is called outside any transaction,
  and its answer or error arrives at any later time. Writing an answer down is two
  steps: `FinishReads` reads the review state and compares the readings of other
  orders, `FinishWrites` writes the row by its id. On SQLite no other transaction
  writes in between (`Writable`); on PostgreSQL any may, and `late` and `overtaken`
  record, for the property, who writes what was judged on something since changed. A
  reading is the transaction it read, whether it names the wallet by an alias, and its
  verdict. The verdict resolves aliases and the comparison of `Duplicate` does not, as
  in the code; the other rules that lead to the verdict are a choice.
- **`Capacity`.** Selection counts what the code counts: the last inventory, live
  reservations, subscriptions without a key. Limits are `max_keys` less
  `reserved_keys`, and the plan slots of a server; a server without `max_keys` always
  has room and is weighed as if it had one place. A sale keeps its server: endpoint
  migration, which puts a key on another server without a capacity check and leaves
  the subscription on its old one (`commerce_service.py:801`), is not an action. Strict allocation is the guard
  it is in the code; the traffic budget, `capacity_snapshot` and its scale advice
  are left out. `blind` records, for the property, what was admitted without the
  code seeing all there was.
- **`Releases`.** One deployer at a time; CI verdicts and pushes are the
  environment; a run may be killed between any two steps. The release directories
  are a set, and `younger` holds for each commit the directories made after its
  own, which is all the clean-up asks of their modification times.

## Runs

All runs set `CHECK_DEADLOCK FALSE`: the system stops when every order is
decided, which is a proper end.

| Run | States | Shows |
|---|---|---|
| `access` | 8,868 | one order, one worker, three attempts, two crashes, one operator retry, under fairness |
| `ledger` | 188,106 | SQLite, two orders of one customer, two images, two references, surplus 0 or 1, promo keys, under fairness |
| `system` | 1,816,039 | PostgreSQL sweeps, no receipt storage, a plan order and a top-up with the worker, failing clean-up |
| `keycare` | 5,506,786 | one key, two servers, one move, one crash, quota of two units, retirement, both threads |
| `services` | 3,074,600 | the seven service modules, one at a time |
| `quota_reset`, `moved_key` | violated | see [What the checks found](#what-the-checks-found) |
| `cleanup_raises`, `overpaid_refund`, `reopened_order`, `unlocked_sweep`, `wallet_after_receipt` | violated | see [What the checks found](#what-the-checks-found) |

**Bounds.** Jobs of different orders share only the worker, so one order is
enough to see every interleaving of its two jobs with refund, expiry, quota,
crash and reclaim; the theorems cover any number of orders. Three attempts
are a first, a repeated and an exhausting one; two crashes allow one during the
recovery from another. Two orders of one customer are what the one-open-order rule, replacing,
shared images and references and the shared wallet need; two images and two
references let a receipt be rejected and replaced and a reference be taken. Prices
are one unit and the opening balance is one unit: enough to pay one order, so
that the second has to be topped up, refunded or overpaid first. A surplus of one
unit can pay for another order. `MaxRetries = 0` in the order runs keeps operator
retries to the access run.

In `keycare` one key is enough because a repair job belongs to one key and server
and a migration to one credential; keys share only the thread. One move and two
servers let the key be repaired before, during and after the move on either; a
quota of two units tells a spent quota, a part and the whole apart.
`DeleteCutShort = FALSE` keeps out of the passing run the `moved_key` finding, a
deletion of a moved key that ends by a crash or by an error outside its own `try`, and `CarefulStaff` the retirement of a server that an open migration
moves to, which the code does not refuse.

In `services` the bounds of each module are a small set of scenarios, so that each
reaches its hazards without multiplying those of the others: `Markets` (who claims
daily keys, gifts and plans, how many slots, whether the owner changes the promotion;
two customers, two intents, two days, one crash), `Growths` (one job with a crash and
an operator's edit, or two jobs with a crash), `Desks` (an order under approval and
refund, a receipt, a server being drained, with and without a crash), `Shops` (two
servers and two plans with room, without, with failing inventories, with a change of
policy, with a server that has no limit), and small constants for the other three (two
senders, two rows, one crash; two receipts paid by one wallet on PostgreSQL, whose
behaviours include those of SQLite, two workers; three commits, two killed runs). Two
customers, receipts or orders are what it takes to compete for one place or one
transaction; one crash at any step leaves every kind of job half done.

**Properties of `keycare`.** `EndedKeyIsBeingRevoked`: no repair or move settles a
revocation. `EveryKeyIsOnRecord`: no key works on a server without the database
naming it, through every crash and failed call. `FinishedMeansGone`: a completed
move and a revoked row mean the keys are off the servers. `RegistryAgrees`: the
registry names the row's key and nothing else. `ServerEnforcesQuota`: the limit
set on the server never exceeds what the row has left to sell. `RepairMeansMissing`:
no repair of a key nobody lost, however stale a listing. `RetiredServerHasNoKey`.

**Properties of `services`.** `NoOversell`: slots and gifts of a window are not
sold twice by claims under way. `OneLiveDailyKey`: never two valid daily keys of
one customer, however late a claim is carried out. `FreeKeysMatchRows`: keys on
the server and rows agree, or an intent or a recorded end explains the difference.
`OneDropletPerJob`, `WithinBudget`: an ambiguous creation is never paid for twice
and the droplets never exceed the budget. `NodeInUseIsKept`: orphan cleanup takes
no node in service or awaited. `EnrolmentIsAllOrNothing`: a failed enrollment
leaves manifest and pinned hosts as they were; a completed job's node is in
service. `ConfirmedActionIsCurrent`: an action confirmed once runs once, by whom
it was shown to, on the state it was shown for. `SentOnceUnlessUnsure`: a row
marked sent arrived, and nothing arrives more often than its delivery was in
doubt. `ReadingsStand`: a decided receipt keeps the reading it was decided on, and
receipts of two orders that show one transaction never both read as clean unless a
model named the wallet by an alias; readings written on PostgreSQL after what they were
judged on had changed are excepted. `SoldWithinLimits`: what is sold and promised stays
within the owner's limits on the server it was sold on. `FailedReleaseIsNotServed`:
the bot runs a release that CI passed and that came up. Where the code leaves a
gap, the property names the exception and the gap is described under
[What the checks found](#what-the-checks-found).

**Properties of `access`.** `ClosedKeyIsBeingRevoked`: a live key of a refunded
or ended subscription has its revoke queued, running or parked.
`RevokedKeyIsGone`: a revoked row means the server lost the key. `KeepsPromise`: the
access of an order is asked for once, given one key at most and taken back for good,
whatever failed calls, undos, adoptions and crashes the worker goes through; a key that
was given stays on the server until the order is closed (`IssuedKeyExists`, which
`cleanup_raises` checks by itself, follows). `ClosedAccessEnds` and
`ApprovedAccessIsDecided`: closed access ends, and approved access is activated, closed
or parked for an operator. The types of these tables are part of `TypeOK` in `system`.

**Properties of `ledger`.** `HoldSettlesOnce` relates the reservation row to the
capture and release events and their amounts. `HoldIsUnderReview`: money on hold
belongs to an order staff can decide, with its wallet payment and no competing
receipt. `OneReceiptCounts`: only the newest receipt is pending or verified, and
no image serves two orders. `ActivityIsProtected`: an order with a payment or a
receipt is cancelled only by giving back its expired hold. `KeepsLifecycle`: the
refinement, here with staff who use the review queue (`RejectUnstored = FALSE`);
the other case is a finding. `HoldsEnd`, `UntouchedOrdersEnd`: the sweeps reach
every hold and every untouched order.

**Properties of `system`.** What must hold under any interleaving, PostgreSQL sweeps and
failing clean-ups included: `OneOpenOrder`, `WalletMatchesLedger` (the balance is the
opening balance plus what the ledger says, the mismatch `consistency_report` looks for),
`ApprovedIsFunded` (an approved plan has its capture and its subscription, an approved
top-up its exact credit and no subscription), `DecisionsStand` (no step rewrites a
wallet movement, a verdict, a verified amount or a decision), `AccessIsPaid` (a
subscription, key or job exists only for a plan whose price was captured),
`LossIsBounded` (an order gives more than was paid for it in no other way than the two
findings `unlocked_sweep` and `overpaid_refund`, and each gives at most its amount, once).

**Fairness.** A maintenance pass runs every interval and carries a job it holds
to its end (`_maintenance_loop`, `process_jobs`), so worker steps, sweeps and the
passing of time are weakly fair. Claims and expiry are strongly fair: they are
disabled while another job is in hand and enabled again and again, and the claim
takes the oldest due job, so none is passed over for ever. No customer, staff
member, operator or Outline call is assumed to act or succeed: a failing call
takes the failing step and counts an attempt. `KeyCare` and the services are
checked for safety only.

**Mutants.** Beside the code's definitions stand mutants of them, each marked
with a comment naming the bug it plants; every property of a passing run is
violated under one of them.

## Proofs

`tlapm` proves every obligation of the eight proof modules, for every value of the
constants: any orders, customers, prices, servers, moves, jobs, slots, limits,
crashes and delays. Every safety property that a run checks has its theorem,
listed in `PROJECT.json`.

**Assumptions.** The named `ASSUME`s of the modules: they type the constants, say
that the sets of orders, droplet jobs, customers, intents, sales, gifts and
notification workers are finite (each is counted or summed over, and is a table or a
set of threads), that there is a customer, that staff are only offered commands, and
that `NoImage` is no image. TLC evaluates them on every run. A theorem that needs
more says so in its statement, and [What the checks found](#what-the-checks-found)
shows what happens without it:

| Hypothesis | Theorems | Without it |
|---|---|---|
| `OneWorker`, `~CleanupFails` | the three access properties, `KeepsPromise` | a second worker's loser deletes the winner's key; `cleanup_raises` |
| `Backend = "sqlite"` | `HoldSettlesOnce`, `HoldIsUnderReview`, `ActivityIsProtected`, `NoFreeValueUnlessOverpaid`, `KeepsLifecycle` | `unlocked_sweep` |
| `~RejectUnstored` | `KeepsLifecycle` | `reopened_order` |
| `CarefulStaff` | `RetiredServerHasNoKey` | a retired server receives a key moved to it |
| `~DeleteCutShort` | `ServerEnforcesQuota`, `FinishedMeansGone` | `moved_key` |
| `Backend = "sqlite"` | `LockedReadingsSafety`: no reading is `overtaken`, so `ReadingsStand` holds without that exception | a decided receipt's reading is replaced, and two workers miss a duplicate |

**How the proofs are built.** Hardly any property is inductive. For each, a proof
module states the invariant that is, shows that the first state satisfies it and
every action keeps it (one step per action), and derives the property. The candidate
invariants were first checked with TLC on the instances of the runs. Where one
action's effect is needed by several invariants it is stated once, as a predicate
of the rows before and after (`OrderStep` for an order, `JobBecomes` for a
job, `IntentMoves` for the intents), so that the invariants are proved over the kinds of
step and not over every handler again.

### Access and orders

- `TypeCorrect`: the access tables keep their types. The invariant adds
  `HeldJob`: a busy worker holds a row of the job table of the kind its step
  belongs to, without which `JobDone` could write outside the table.
- `ClosedKeySafety`, `IssuedKeySafety`, `RevokedKeySafety`, with one worker. They
  are not inductive by themselves. `AccessInv` adds: the job in hand is the only
  running one the worker can finish (`HeldIsRunning`); a key row means the
  provision job is done, so no other provisioning is under way
  (`KeyMeansProvisioned`); an ended subscription with a key has a revoke job that
  no later step removes (`ClosedHasRevoke`, `RevokeIsFinal`); a worker about to
  commit has the key on the server (`CreateInHand`); a finished revoke job means
  no live key (`DoneRevokeMeansNoKey`); a worker about to record a revoke has
  really deleted (`DeleteInHand`); a live key without revoke job is remote
  (`LiveKeyIsRemote`). With a second worker the loser of a race deletes the
  winner's key, and with a clean-up that raises the worker deletes its own
  finished key, so both assumptions are needed.
- `AccessKeepsPromise`: `PaidAccess` implements `AccessLifecycle` under `PhaseOf`.
  `PromiseInv` is `AccessInv` with `SubHasKey`: a subscription that was activated has
  its key row, and one that is cancelled belongs to a refunded order. Each action either
  keeps the phase of every order (`KeepsPhase`) or moves one order as the abstract
  specification does (`MovesPhase`). `SystemKeepsPromise` carries it over to the
  composed system.
- `OneOpenOrderSafety`, on either database and with any number of workers. The
  invariant `OrdersInv` adds that a refunded order is closed and that, while a
  receipt uploads, no other order of that customer is open: handlers that open
  one run on the uploading thread. This is why the late second transaction, which
  may reopen a closed order, still never gives a customer two.
- `SystemImplementsAccess`: every step of the composed system is a step of
  `PaidAccess` or leaves its variables alone. An approval never meets a refunded
  order, which needs `OrdersInv`. `SystemClosesAccess` carries the three access
  theorems over to the composed system.
- `AccessIsPaidSafety`: access of any kind exists only for plan orders whose
  price was captured. `PaidInv` adds that a job in hand belongs to an order with
  access (`HeldExists`); `CaptureIsKept` shows no step takes a capture back, and
  `WorkersOpenNothing` that the workers never create access where there was none.
- `SystemTypeCorrect`: `TypeOK` of the whole composition; the payment rows are
  sequences that handlers append to and mark.
- `OneReceiptSafety`, on either database. `ReceiptInv`: a receipt not turned down is
  the newest (`ReceiptFacts`), an upload under way is of a receipt on record, and an
  image serves one order, which the first transaction alone checks.
- `HoldSettlesOnceSafety`, `HoldIsUnderReviewSafety`, `ActivityIsProtectedSafety`, on
  SQLite. `PaymentInv` (either database): a wallet payment is the order's last row,
  and with one no transfer is live and every receipt was turned down. `HoldInv` adds
  that the reserve, capture and release events say what the reservation row says, and
  that a hold is reserved exactly while its wallet payment is submitted and the order
  under review. `ActivityIsProtected` is an action property, proved from `HoldInv`:
  the only step that cancels a touched order is the release of its expired hold.
- `DecisionsStandSafety`, on either database, an action property: no step rewrites a
  wallet movement on record, the verdict on a receipt, a verified amount, or the
  approval or rejection of an order. `DecisionInv` says that a verified amount has its
  verified receipt, that only the price is ever captured and that an upload under way
  is of an order nobody has decided. The rows that an unlocked sweep of PostgreSQL has
  selected are excepted for the last of these: its late write closes what staff decided
  meanwhile (`unlocked_sweep`). The reservation row is not part of the property for the
  same reason.
- `NoFreeValueSafety`, on SQLite (`NoFreeValueUnlessOverpaid`). `ValueInv`: a credit
  needs an approval and is no more than was paid; a reversal needs a refund and is the
  price unless more was verified; an order refunded before its approval had been paid.
- `LossIsBoundedSafety`, on either database: what remains of the previous theorem where
  its hypothesis fails, and the property the `system` run checks. `LossInv` builds on
  `FundInv` and `DecisionInv` and says that what is held, captured or given back was
  reserved (`SweptIsReserved` for the rows a sweep has selected, which nothing else
  remembers), that a plan is credited only with its capture, that a wallet payment is
  verified only by one (`WalletIsCaptured`), and that an order refunded without a
  capture had been paid. `TransferStays` and `PaidStays` show that no step makes what
  was paid smaller.
- `ApprovedIsFundedSafety`, on either database. `FundInv`: an approved plan has its
  captured price and a subscription, an approved top-up its exact credit and no hold.
  It rests on `PaidInv`, `PaymentInv` and on sweeps never holding a top-up.
- `WalletSafety`, on either database: the balance of a wallet is its opening balance
  plus what the customer's orders gained less what they spent. The property sums over
  a set of orders. `MapThenSumSet` is a fold whose recursive function is chosen, so
  the proof shows that such a function exists on a finite set (`SumExists`, by the
  least cardinality for which none would), that the fold is one (`SpentSum`,
  `GainSum`), and that changing one summand changes the sum by as much
  (`SumsDiffer`). Each step moves one customer's wallet by what its order's events
  gain and spend (`MoneyMoves`).
- `LifecycleRefinement`: `Spec => KeepsLifecycle`, the refinement of `OrderLifecycle`
  under the map `StageOf`, for staff who decide only what the review queue shows.
  `LifeInv` adds that an order with a verified payment is not closed and that an
  upload is of an open order whose receipt was not turned down; `OrderStepMoves` shows
  that each kind of step of an order is a move of its stage, `OneOrderMoves` that a step
  moves one order or replaces one by another, and
  `StepIsLifecycleStep` puts them together.

### Key care

`CareTypesSafety` and, over the types:

- `EndedKeySafety`, `RegistrySafety`. `RevokeInv`: an ended key has its revoke job,
  which repair and migration leave alone, and the registry follows every row change.
- `OnRecordSafety`. `HandsInv`: moves are queued in the order of their ids and start
  from a key given out before (`Numbered`), the row holds the newest key given out
  (`RowIsNewest`), and the thread's hand agrees with the rows at each step of a job,
  although the other thread wrote meanwhile. `RecordInv` then says of each key on a
  server that it is the row's, the source of a move that is not over, or the target of
  one that has not cut over or starts again after a crash.
- `RepairMissingSafety`. `LostInv`: a key the row has and nobody lost is on its server,
  and a listing under way that overlooks it is older than its arrival and has nothing
  to count as a second miss; a target is there from its creation to the cutover.
- `RetiredServerSafety`. `RetireInv`: no move that is not over points at a retired
  server.
- `EnforcedQuotaSafety`, `FinishedGoneSafety`. `QuotaInv`: a move whose target was given
  out owes only its deletion (`NoRestart`, which a crash in that deletion, or an error
  outside its `try`, breaks); the
  limit a job has set is no more than what it is about to record (`LimitInHand`), and
  what it is about to record as deleted is gone.

### Services

- `SentOnceSafety`: for any number of workers, leases, errors and crashes, a row
  marked sent has reached Telegram, and no message arrives more often than its
  delivery was in doubt. The property bounds what has arrived and says nothing of
  what is about to be sent, so it is not inductive. `DeliveryInv` counts both:
  messages that arrived plus workers that may still send the row never exceed the
  doubts by more than one (`Balanced`), and not even by one while the row may be
  claimed afresh or its worker got an error (`Settled`), which leaves room for the
  next claim; what is being marked sent has arrived (`SentArrived`). A row in
  several hands needs the cardinality of its claimers, hence finitely many workers.
- `ConfirmedActionSafety`. `RanOnce`: a challenge runs at most once, when consumed, for
  its holder and on what it showed, or raced. `AskedOnce`: no update asks twice, for
  updates are recorded as seen before they are handled. `TapInHand`: what the tap being
  handled has read is still the state, or the action counts as raced.
- `ReadingsStandSafety`, on either database, for any number of workers and late
  answers. `HeldIsCurrent`: a row about to be written, unless `late`, is of a receipt
  still pending and repeats no reading written since it was compared.
  `LockedReadingsSafety`, on SQLite: one worker at most is between reading and writing
  (`OneHolds`), so none is ever late and nothing is overtaken.
- `ServedReleaseSafety`. `ServedInv`: between link and verdict the previous release is
  one that may be served and the run's own is not yet trusted; a run never rebuilds the
  release that is served.
- `OneDropletSafety`, `BudgetSafety`, `NodeInUseSafety`, `EnrolmentSafety`, all from
  `FleetInv`. `NodeInHand` ties the pass to the status of its job; `CreatedInv` and
  `BudgetInv` keep a create that was only asked for below the limit; `KeptInv` says
  that what is protected exists and what is being deleted is not protected;
  `FilesInHand` what manifest and pinned hosts hold at each stage of an enrollment that
  may still be undone; `ManifestKnown` which declared nodes a job stands for.
- `SoldWithinLimitsSafety`. The limits in force are never above the widest there were
  (`WidestInv`), so what selection admits, having counted everything, fits those. Each
  step is shown to leave the counted sets no larger, or to add the one member that
  selection had room for.
- `OneLiveDailyKeySafety`. A customer's daily claims are a day apart, each fixed by the
  one before, at most one of them unfinished (`DailyInv`), and a key's end counts from
  the day of its claim, not of the step that writes it (`ClaimInv`). An intent is in one
  thread's hand at a time (`HasIntent`, `HeldInv`).
- `FreeKeysMatchSafety`. `RowInv` follows each key through create, commit, delete and
  mark: a key on the server has its live row or its unfinished intent, and a live row
  has its key, a recorded end, or was deleted by name. `PassKnown` ties the thread that
  ends a key to its row and events.
- `NoOversellSafety`. A place is taken by a claim under way or by a claim whose key is
  live (`Takers`, `Winners`); `SoldInv` bounds those that never failed. Live keys and
  recorded winners are then matched one to one with claims (`WonInv`, `ClaimInv`), so
  the counts of the property compare as cardinalities.
- `StaffTypesSafety`, `ReadingsTypesSafety`, `OutboxTypesSafety`, `ReleasesTypesSafety`,
  `FleetTypesSafety`, `FreeTypesSafety`, `CapacityTypesSafety`: the types on which all
  of it rests.

- `ServicesImplementEach`: `MCServices` chooses a module and leaves the others as they
  begin, so each step of it is a step of the chosen specification and stutters for the
  rest: the composition implements all seven. `ServicesTypesSafety` (`ServicesTypeOK`)
  and `ServicesSafety` (every property of the `services` run) follow from it and the
  theorems above.

### Only model-checked

Liveness (`ClosedAccessEnds`, `ApprovedAccessIsDecided`, `HoldsEnd`,
`UntouchedOrdersEnd`) needs fairness, hence `ENABLED`, which the prover does not
handle; and what happens outside the hypotheses of the table, which the `violation`
runs show.

## What the checks found

Each is a run whose single property is a sentence of the repository.

- **Clean-up inside the try block** (`cleanup_raises`): removing a customer's free
  key after an activation may raise, because it writes to the database even to
  note a failure; the exception handler then deletes the paid key that was just
  activated. The comment at `commerce_worker.py:1244`: "This is best-effort
  cleanup; the paid key remains authoritative". The access run and the access
  theorems therefore assume `~CleanupFails`.
- **Overpaid and refunded** (`overpaid_refund`): approval leaves the surplus in
  the wallet, refund returns the whole verified amount, so the surplus is
  returned twice. `docs/REFACTOR_PHASE0_BASELINE.md:97`: "reverses wallet value
  exactly once".
- **Reopened order** (`reopened_order`): the second transaction of a receipt puts
  an order that was closed during the upload back into review.
  `docs/FINAL_ARCHITECTURE.md:256` knows no such transition. It takes a receipt
  rejected after a failed upload, a wallet payment, and the same image resent
  while the hold expires.
- **Unlocked sweep** (`unlocked_sweep`), PostgreSQL only: the hold sweep releases
  what an approval captured between its select and its write.
  `docs/SYSTEM_AUDIT_2026-09-01.md:35`: "releases exactly once".
- **Wallet after receipt** (`wallet_after_receipt`): once an order has any
  receipt, its wallet payment is accepted and can never be approved.
  `docs/REFACTOR_PHASE0_BASELINE.md:89`: "or an already reserved wallet payment".

- **Quota handed out again** (`quota_reset`): quota enforcement records zero bytes
  for a key that the metrics do not name, as a fresh sample; once inventory finds
  the key missing, its repair trusts that sample and hands the whole quota out.
  `docs/MANAGED_KEY_REPAIR_RUNBOOK.md:15`: "no automatic quota reset is allowed".
- **Old key of a move kept** (`moved_key`): a claim sets a migration that only has
  its source deletion left back to `creating`. After a crash, or when making the client or
  writing the outcome raises (`commerce_worker.py:657`, `664`, `666`, caught at `830`),
  the job starts over, is refused at the cutover, and ends as failed with the old key
  alive; on the eighth attempt it fails at once. The repository's `README.md:479`: "retries old-key deletion
  until verified".

Also seen, each a consequence of the modelled code without a run of its own:

*Orders and access.* With `CleanupFails = TRUE`, `ClosedKeyIsBeingRevoked` fails as
well, because the repeated provision job closes a due subscription without queueing
its revoke (`commerce_worker.py:1106`). A refund during provisioning leaves the
subscription row `active` although its key is revoked (`commerce_worker.py:1195`).
On PostgreSQL `ActivityIsProtected` fails in the same way as the hold sweep.

*Key care.* A repair whose worker dies on its last attempt stays `pending` with no
attempts left. A migration copies the quota when it is queued, so one queued before
a repair raises the quota back. Retiring the target of a queued migration is not
refused. The owner's override of a repair is lost after a failed attempt. The
runbook's "endpoint healthy" is not checked by the worker. A target whose cutover
fails stays on the server, on record only in the parked job.

*Free keys.* A failed intent gives its slot and its place among the winners up and
comes back without asking again, so both can be exceeded and winner numbers repeat
(`NoOversell` names it). A limit may be set below the open reservations. The
clean-up of a paid upgrade deletes keys by name while the Telegram thread creates
one (`swept`). Of two termination events of one key the second stays `retrying`, or
lowers the server's key count twice. An old intent carried out late gives a key that
has already expired, and one is carried out although a gift or a plan started
meanwhile.

*Capacity.* Paid provisioning does not adjust `remote_key_count`; until the next
inventory the key is counted nowhere. A lapsed reservation is revived by a receipt or
a wallet payment without a second look at the capacity. The selection for free
claims ignores paid reservations and pending subscriptions, and the one for plans
ignores free intents, although `entitlements.py:171` speaks of shared headroom.

*Fleet.* A crash between the `running` transaction and saving the droplet id leaves
a job that asks for droplet "None" for ever and blocks the queue; its droplet can be
removed as an orphan. A job that awaits verification is later handled without its
address, so a manifest declared then never activates it. A crash after the manifest
write makes every later pass refuse the node as already existing. A token that
expires during reconciliation leaves the manifest and a job that never completes.
The queue counts nodes without the provider, so droplets it does not know can take
`AURIX_MAX_VPN_NODES` past its limit; the worker asks the provider again, but for the
budget only. The rollback of a failed enrollment overwrites what the operator edited
meanwhile. An orphan is protected by unfinished jobs only, where the docstring says
any job.

*Staff.* `/addadmin` and `/removeadmin` can never be confirmed: their snapshot looks
the account up as an order, finds none, and the challenge is refused
(the repository's `README.md:485` tells the owner to use them). A crash between recording an update and
handling it loses it, and one between consuming a confirmation and running it loses
the action. What maintenance does to an order between the last read and the action
(it is provisioned, expires, or its hold is released) is the `raced` exception.

*Notifications and readings.* `finish_receipt_extraction` looks for a duplicate by
comparing the provider the customer selected for the earlier receipt with the provider as
the model wrote it (`commerce_service.py:3871`), while the verdict goes by aliases
(`receipt_rules.py:76`): where the model writes "Wave Money" for a `wavepay` order, one
transaction sent for two orders reads as clean twice. `verify_receipt` still refuses a
verified transaction that is used again. On PostgreSQL the review state and the other
readings are read without a lock (`commerce_service.py:3843`) and the reading is written
by id (`3896`): a decision in between is followed by a reading it was not made on, and two
workers who compare at once miss a duplicate. `mark_notification_failed` can overwrite
`sent`. The
backfill skips staff who opted in later. A reading reclaimed after a crash is not held
to the limit of attempts; a late error sets a finished job back to pending; the job of
a receipt decided meanwhile stays pending once its worker is gone.

*Releases.* A run killed between the link swap and the readiness check, or a first
release that fails with nothing to go back to, leaves the link on a release nobody
saw come up, and the next run finalizes it, although the comment at
`digitalocean_autodeploy.py:390` takes it to have passed. "Already current" trusts the
recorded commit even if the link points elsewhere. A failed release is rebuilt and
tried at every timer tick.

## What is not modelled

Inside modelled components: `choose_payment_method`, `credit_wallet` and the
start-up reconciliation of duplicate orders; the monthly trial and the traffic
budget; capacity snapshots, scale observations and usage views, which only record or
report; legacy backfill of the connectivity registry; the conversation state of a
chat, routing and rendering; the arithmetic of receipt rules, quota percentages and
image fingerprints; retirement of a droplet. Whole components: schema migrations,
start-up and configuration, receipt object storage, backups, and the read-only
deployment checks and DNS records: sequential input and output without shared state.

The service modules are not composed with `OrderLedger` and `KeyCare`: each meets the
others through an action of its own. Two Telegram threads or two worker processes on
one database, which `deploy/README.md:151` forbids, are explored only where a restart
overlaps them (`Outbox`, `Readings`).

## Plan

1. `PaidAccess`, `OrderLedger`, `OrderLifecycle`, `KeyCare` and the seven service
   modules, with a theorem for every safety property: done.
2. `MCServices` implements each service specification, so that the theorems hold of
   the composed run as well; `PaidAccess` implements `AccessLifecycle`: done.
3. Action properties as theorems: `ActivityIsProtected` and `DecisionsStand` are; left
   are a completed move that stays so and a consumed challenge that never returns.
4. What of the SQLite theorems survives on PostgreSQL, where the two halves of a sweep
   lose them: the value of orders is bounded (`LossIsBounded`); left are the life cycle
   and the reservation row.
5. Liveness of repair, migration and notifications under the fairness of the
   maintenance pass, once their state spaces are reduced.
