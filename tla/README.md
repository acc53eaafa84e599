# Verification of CashCount

CashCount imports bank data from an aggregator (Pluggy) into PostgreSQL,
classifies it and serves it. The parts that are hard to get right are the ones
in which several processes meet in the database: the job queue, the workers,
the webhook inbox, reconciliation, and the import and correction of
transactions. This directory holds TLA+ models of them, the TLC configurations
that check the models on small instances, and TLAPS proofs.

## Inventory

| Component | State | Operations | Talks to |
|---|---|---|---|
| job queue (`packages/db/src/job-queue-*.ts`) | table `job_queue`: status, lease, attempts | enqueue, claim, heartbeat, complete, fail, reclaim | everyone who has work to do |
| queue worker (`apps/worker/src/queue-worker.ts`) | loop position, tasks in flight, heartbeat timers, stop flag | run, fill capacity, process, request stop | job queue, handlers |
| sync operations (`sync-operational-repository.ts`) | – | request a manual reconciliation, retry a dead letter | job queue, connection |
| webhook inbox (`webhook-inbox-repository.ts`) | table `webhook_event` | ingest | job queue |
| webhook processing (`webhook-processing-repository.ts`, `webhook-event-handler.ts`) | `webhook_event`, `provider_connection`, advisory lock | load, resolve, mark syncing / deleted / processed / failed | provider, imports, discovery upsert |
| reconciliation (`reconciliation-repository.ts`, `scheduled-reconciliation.ts`, `manual-reconciliation-handler.ts`) | `provider_connection`, two advisory locks | refresh at the provider, wait, import, confirm | provider, imports, discovery upsert |
| discovery (`discover-connections.ts`, `provider-connection-repository.ts`) | `provider_connection` | list and upsert, without a lock | provider |
| full import (`full-import.ts`) | – | accounts, then transactions, then bills | provider, the three imports |
| account import (`account-import-repository.ts`) | accounts, their history bounds and coverage | read target, list, write; store page, complete account | provider, connection |
| transaction import (`transaction-import-repository.ts`) | `sync_run`, transactions, revisions, duplicate review | start, page, delete, complete, fail | provider, connection lock |
| bills (`bill-import-repository.ts`, `bill-reconciliation-repository.ts`) | bills, payments, links, reconciliations | import, generate candidates, resolve | provider, transactions |
| replacement (`transaction-replacement-repository.ts`) | identity links | detect, confirm, reject, transfer | sync runs, user state |
| user state (`transaction-user-state-repository.ts`) | overrides, tags, versions | correct, suggest a rule, audit | transactions |
| advisory locks (`advisory-lock.ts`) | a pooled client per holder | lock, try, run, unlock | PostgreSQL sessions |
| classification management (`classification-management-repository.ts`, `classification-rule-repository.ts`) | categories, merchants, rules | create, change, deactivate, merge, confirm | every transaction that refers to them |
| rule evaluation (`rule-evaluator.ts`) | decisions, hit counters | evaluate a transaction | rules, transactions |
| merchant resolution (`merchant-resolution-repository.ts`) | merchants, aliases | resolve, create canonical, confirm alias | imports, owner |
| role detection (`financial-role-detection-repository.ts`) | roles, pairs, decisions | detect | transactions, reconciliations |
| recurring series (`recurring-repository.ts`) | series, audit | detect, answer, move with a merge | purchases, owner, merges of merchants |
| provider client (`packages/provider-pluggy`) | cached API key, refresh in flight | request with 401 recovery and retries | Pluggy |
| reports (`packages/analytics/src/index.ts`) | a repeatable-read snapshot | summarise, compare periods | views over transactions |
| transaction list (`transaction-api-repository.ts`, `transaction-route.ts`) | a cursor at the client | read a page | transactions |
| REST API, other read models | – | parse, authenticate, query | repositories |

What is hard: statements of several processes interleave at every `await`;
callers bring their own clocks; workers die between a commit and its answer;
leases expire under handlers that go on; webhooks are duplicated, reordered or
arrive before the connection they are about; two commands work without the lock
that the handlers take; snapshots are fetched before and applied after someone
else's change. `PROJECT.json` lists every hazard at its line.

## Modules

| Module | Models |
|---|---|
| `JobLifecycle` | what the queue promises: bounded attempts, settled jobs stay settled (abstract) |
| `JobQueue` | the table and every statement on it; implements `JobLifecycle` |
| `QueueWorker` | worker processes over the table of `JobQueue`, with time, faults, stop and death |
| `QueueWorker_proofs` | the theorems about both |
| `ConnectionSync` | one provider connection with the inbox, the handlers, the lock, the commands and the provider; uses jobs through `JobLifecycle` |
| `Null` | the constant that both use for what has no value |
| `LockPool` | the advisory locks and the pool of clients they are taken from |
| `ProviderClient` | the shared API key and the attempts of a request |
| `MCSyncLive_proofs` | the theorems about `ConnectionSync`, `LockPool` and `ProviderClient`, in the run that joins them |
| `TransactionImport` | sync runs, pages, deletions and duplicate review of one connection |
| `TransactionImport_proofs` | the theorems about it |
| `AccountHistory` | accounts of several connections, their history bounds and coverage |
| `CardBills` | bills, their purchases and the reconciliation of their payments |
| `Replacement` | identity links between deleted and new transactions, their review and the transfer of user data |
| `VersionedState` | what `transaction_user_state` promises: a versioned register (abstract) |
| `UserState` | corrections by users beside the other writers; implements `VersionedState` |
| `RoleDetection` | transfers, refunds and bill payments among the transactions of a workspace |
| `RuleEvaluation` | the evaluator of rules and its application to transactions |
| `MerchantResolution` | merchants and aliases, under locks and unique indexes |
| `RecurringSeries` | detection of series, the owner's answers, and the merges that move series |
| `ClassificationCatalog` | categories, merchants and rules, changed by concurrent transactions |
| `ClassificationCatalog_proofs` | the theorems about it |
| `SpendingReport` | the effects of a transaction and the reports made of them, while rows change |
| `TransactionPages` | the list of transactions, page by page, while rows change |
| `Periods` | the ranges that a comparison compares |
| `MC*` | constants for TLC |
| `MCImports_proofs` | the theorems about `AccountHistory`, `CardBills` and `RuleEvaluation` |
| `MCLedger_proofs` | the theorems about `UserState`, `Replacement`, `RoleDetection`, `MerchantResolution`, `RecurringSeries` and the types of all five |
| `MCReports_proofs` | the theorems about `SpendingReport`, `TransactionPages` and `Periods` |
| `FiniteFacts` | lemmas about finite sets that several of these need: least numbers, sorting, sums |

`QueueWorker` EXTENDS `JobQueue`, so a worker's step contains the very statement
whose theorems are proved. `ConnectionSync` instantiates `JobLifecycle`: what it
assumes of jobs is what `JobQueue` is proved to implement. `MCConnectionSync`,
`MCSyncLive`, `MCImports`, `MCLedger` and `MCReports` put several modules into one run. Each of those
models keeps its own tables, so their interleavings show nothing that the single
ones do not: a variable `part`, chosen at first, says which of them a behaviour
runs, and the others stay where they began. Where one part needs another (an
import resets a heuristic role, a transfer writes user state, a deleted
transaction loses its reconciliation, a reviewer's confirmation is evidence of a
role) the step of the other component is an action of the module itself.

### JobQueue

One variable, `queue`, maps row ids (in order of creation) to rows or `NoRow`.
One action per statement; each statement is one transaction. `now` is an
argument, as in the code, where it comes from the caller's clock: the instants
of different calls are not ordered, and every call may bring any instant, by any
worker, about any row. Only the WHERE clauses protect a row, and the theorems
hold under exactly that freedom. Calls whose WHERE clause matches nothing (lost
lease, dedupe conflict, nothing to claim) leave the table as it is and are
stutters. `SKIP LOCKED` lets a reclaim take any subset of the expired rows. Left
out: payloads, error texts, `locked_at`, `started_at`, `updated_at`. The dedupe
key stands for the triple (workspace, type, key) of the index. A system job
(without a workspace) can be retried here although the operator's query would
not find it; this only adds behaviours.

### QueueWorker

Per worker: `loop` (where `run()` and `#fillCapacity()` are suspended),
`stopping`, `claimed`, and the `tasks` in flight, each with its attempt, its
step, its heartbeat timer and whether it has noticed the loss of its lease.
Instants are relative to the present: `Tick` moves all of them into the past,
which keeps the state space finite. `complete()` and `fail()` carry the instant
at which the handler ended and arrive up to `MaxDelay` units later. Faults are
counted: a failing claim, a claim that commits and whose answer is lost, a
failing heartbeat, reclaim or report, a process death. A worker is stopped or
dies only while another remains, as the platform replaces it.

### ConnectionSync

One connection, of one workspace. A *run* is one execution of a handler or
command; its `pc` moves at every awaited call, so that other runs come between
any two calls. `Resolve`, `Syncing`, `Delete` model the functions of both
repositories that do the same thing, and say where they differ. Attempts of a
job are separate runs, and may overlap: an attempt whose lease is lost goes on
until it notices. `withAdvisoryLock()` is `Acquire` and `Unlock`; `LosesLock`
drops the session that holds the lock, which the code cannot rule out. The
commands `full-import-cli` and `discover-cli` take no lock, as in the code.
Statuses that ask the user for something are one value, and an import is its
target checks and the activation of the accounts; what it stores is in
`AccountHistory`, `TransactionImport` and `CardBills`. The Item at the provider
changes freely. Snapshots are never `DELETED`: `getConnection()` passes no event
to the lifecycle mapper, and a missing Item is a 404. Nothing in the code writes
`DISABLED`; it is a possible initial status.

### ClassificationCatalog

A *session* is one transaction, in four steps: `Begin`, `Lock` (its `for update`
query), `Check` (what it requires of other rows) and the write, which commits.
PostgreSQL runs them READ COMMITTED: a check reads what is committed and locks
nothing, so others may commit before the write. Row locks are `Locked(s)`; a
foreign key takes the referenced row FOR KEY SHARE, which waits for a FOR UPDATE
holder (`Referable`); a merge waits for every rule. `Rollback` is any error,
including the deadlock detector's. A rule assigns at most one category and one
merchant; its conditions, aliases, names, tags and the user state are left out.
The category table is any forest at first. `Request` has one set per method; a
missing field is `Keep`. `MCCatalog` runs one of three scenes: one session with
every request, two that arrange three categories, or two that change merchants
and rules.

### LockPool and ProviderClient

A *task* of `LockPool` runs one locked section after another. It keeps the
client of its lock and takes further clients of the same pool for its queries;
pg-pool serves those who wait in order (`pending`). A client released with an
error ends its session, and with it its locks. `LockFails`, `Refused`,
`AfterFailedUnlock` and `SessionLost` are the error paths. A section has one
lock. `reconcile-cli` takes two, the workspace's with `tryWithAdvisoryLock()` and
inside it the connection's, and so keeps two clients: it is not a task of this
model, and counts as two where the size of the pool matters.

In `ProviderClient` the code between two awaits is one step. A key is fresh,
aging (inside the refresh skew) or dead; the provider may revoke it early. An
attempt may be answered, time out or break off, after the provider acted on it
or not; `renewed` is the one recovery from a 401 and `retries` the others.

### TransactionImport and AccountHistory

A run of `TransactionImport` is a full import, a page event or a deletion event.
Its `pc` follows the code from `startSync()` over the accounts and pages to
`completeSync()` or `failSync()` and `detectForSync()`. A page takes two steps,
because the rows it reads are not the rows it writes when another run waits for
the same account lock. The provider lists, changes, removes and relists
transactions; its next cursor is what it is, including one that leads nowhere. A
commit may lose its answer (the run then fails although its row succeeded), and a
process may die between any two steps. A transaction's facts are its
fingerprint, from which its revision and duplicate review follow. `LastPage` bounds
the pages of the provider. A row remembers its `inserter`, `deletions` records which
run deleted which row, and each run has counters of its own (`sync_run`'s columns),
so that what a run reports can be compared with what it did.

`AccountHistory` has `importAccounts()` in three steps (read the connection, ask
the provider, write), the widening of the history bounds by pages, the coverage
of a completed account, and the warning `getForRange()` derives from both.

### CardBills

Importers store bills, pages store purchases, reviewers confirm or reject; both
`importPage()` and `resolveCandidate()` have a lock between what they read and
what they write. Amount and date of a payment are one number, compared within a
tolerance. Finance charges are left out: no code matches them.

### Replacement, UserState, VersionedState

`Replacement` has the runs whose windows hold deletions and creations, the
policy's verdict on each comparable pair (`Score` is a constant), the unique
index on confirmed predecessors, the transfer in a transaction of its own, and
the reviewer. `UserState` has `applyCorrection()` as the code has it: a read
that joins the state row but waits for the transaction's lock, the comparison of
versions, the write, then the rule suggestion and the audit event in
transactions of their own, each of which may fail, and the user who repeats.
`VersionedState` says what a reader of the table may rely on.

### RoleDetection, RuleEvaluation, MerchantResolution, RecurringSeries

Each has the decision procedure of its repository as operators and the
transactions around it as actions, next to the writers that do not take its
lock. `RoleDetection` loads rows by day as the query does and applies both
detectors to what it loaded. `RuleEvaluation` evaluates nested conditions in the
order of the rules with conflicts and stops, records decisions once per
fingerprint and counts hits; two evaluations that both share and then update a
rule deadlock, and one is aborted. `MerchantResolution` follows `resolve()`
through its lookups, the insert that may conflict and the lookup of the winner,
canonical creation under its two locks, and aliases. `RecurringSeries` computes
median and deviation (doubled, to stay integral) from histories of days and
amounts. Its detection takes three steps, because a merge of two merchants
(`mergeMerchants()`) takes no lock of the detection: what the query found, the
insert, whose foreign keys wait for a merge and fail on a merchant that is gone,
and the commit. A merge waits for the rows others hold, gives the series of its
source to its target, whatever that has, and lets the target's purchases be any.
`of` remembers for which merchant a series was proposed; no column does.

### SpendingReport, TransactionPages, Periods

A report of `SpendingReport` is `summarize()` or `comparePeriods()`, one action
per statement; `Writes` commits any other content of a row between any two of
them, and `Seen` is what the isolation level lets a statement see. The statements
are functions of the rows: effects as in the views of `0005_initial_views.sql`,
beside those of the domain. A breakdown cut at its limit may break ties either
way. The merchant filter is left out (the two others have its form), and so are
the warnings that come from other tables.

`TransactionPages` has `list()` as one statement per page and the cursor of the
route, which names the filters it was made for; a request with other filters is
refused (`INVALID_CURSOR`), which changes nothing. `Periods` has the arithmetic
of `normalizeComparisonInput()` on day numbers, where a day past the end of a
month is one of the next month, as in `Date.UTC()`.

## Runs

| Run | Shows | Bounds | States |
|---|---|---|---|
| `queue_worker` | a healthy handler keeps its lease, slots are respected, a stop leaves no lease behind; with one slot a stale attempt settles nothing; every job settles, every stop ends | 2 workers with 1 slot, 1 job, 2 attempts, 1 fault, reports up to 3 units late (longer than a lease) | 150,000 |
| `connection` | dedupe, budget and lease rules of the table; its refinement of `JobLifecycle`; success means handled, processed and closed stay so, nothing premature | 2 rows, 2 workers, 4 instants, lease 2, 3 attempts per row; eight scenarios of a connection, below | 269,000 |
| `sync_live` | events settle, lock waiters and requests go on, sections exclude each other, unsafe requests act once | 1 event with 2 attempts and 1 fault; 2 tasks that wait for the lock, with 1 query each, and 1 that tries it, with 2, over 1 key, pool of 4, 1 fault; 2 requests, 2 keys, 1 revoked, 1 retry | 42,000 |
| `catalog_reports` | no two categories are each other's parents, only overtaken writes lose the forest, a rule's merchant or the active category of a reference, activations audited once; reports are of one moment and count what the domain counts; pages miss and repeat nothing that stays; ranges follow the policy | 3 categories, 2 merchants, 1 rule; 1 session with all requests, 2 with those about categories, or 2 with those about merchants and rules; 3 transactions of 9 contents, 4 requests, 1 change; 3 rows of 6 contents, 3 filters, pages of 1 and 2, 2 changes; 24,544 requested ranges around the ends of months of 2023-2025 | 1,115,000 |
| `imports` | counters, completeness, duplicates and deletions of runs; links, payments and decisions of bills; accounts of closed connections and history bounds; hits and results of rules | 3 runs, 2 transactions on 2 pages, 1 change, 1 fault; 2 bills, 2 payments, 2 outflows, 1 purchase, 2 reviewers; 1 account, 2 connections, 2 imports, 2 runs, 3 days; 2 rules of 3 contents, 2 transactions | 905,000 |
| `ledger` | user state is a versioned register and only what was shown is replaced; links match transfers; pairs are mutual and explained | 2 corrections of a row, 1 fault, 3 versions; 2 x 2 replacements, 2 runs, 1 death; 3 transactions in 2 accounts, 2 detectors | 381,000 |
| `merchants` | keys and identities are unique, resolutions of one input agree, an alias stays with its merchant; a cadence is proposed and answered once, a series moves only with a merge, cadences are regular | 2 merchants, 7 sessions: 3 resolutions (2 of one input), 2 canonical creations, 2 confirmations of one alias; renames and merges; 3 histories, 2 detectors, 2 reviewers, 3 series, 1 change or failure | 649,000 |
| `queue_worker_slots` | *violated*: with two slots a stale report settles a newer attempt of its own worker | 1 worker with 2 slots, 1 job, 2 faults | |
| `catalog_cycle` | *violated*: concurrent changes of parents close a cycle | 2 sessions, 3 categories | |
| `roles` | *violated*: a transfer is confirmed although its counterpart has two | as `ledger` | |
| `replacements` | *violated*: a run leaves its comparable pairs without candidates | as `ledger` | |
| `rules` | *violated*: an applied category has no selected decision | as `imports` | |

`connection` runs the table, or a connection in a scenario chosen at first, because all
actors at once are too many. *webhooks*: a deletion and an update event with two attempts each and a
fault, from ACTIVE or DISABLED. *revived*: a deletion alone with a third attempt,
which only `retryDeadLetter()` grants. *reconcile*: a deletion, a manual and a scheduled
reconciliation at once. *scheduled* and *requested*: a deletion beside one of
them and a fault. *pages*: a transactions and a deletion event beside the
full import, the lock lost once. *commands*: a deletion beside the full import and
discovery, from before the first discovery or SYNCING, the lock lost once.
*discovered*: a transactions and a deletion event while discovery maps the
connection.

Why the bounds are enough: the rules of the queue are about one row or about a
pair of rows with one key, and two workers are what a takeover needs (the
theorems lift the bound altogether). The lease is longer than the heartbeat
interval by one unit, the tightest the constructor admits, and a report may be
later than a lease. In `ConnectionSync` every property is about one connection
and the scenarios differ in who meets whom. In `ClassificationCatalog` three
categories are the shortest cycle that row locks do not exclude. Two transactions
on two pages are what a duplicate, a moved cursor and a deletion between pages
need, and a full run beside a page and a deletion event is every kind of run
once. A third transaction is the second candidate of a transfer; two
predecessors and two successors are every shape of competing links; two reviewers
or detectors are what a double decision needs; an alias is contended by two
owners and a provisional merchant by two imports while canonical ones are made, and a
third import of another input shares a key with theirs; two merchants with a history each
are what a merge beside a detection needs.
Three transactions fill one group twice beside another group, or three groups, one
more than the totals may have; the list needs two rows of a day and a page that
ends between them. Days 0..2 with a window of 2 have histories shorter than, and as long as, the
maximum. Where one number of a table is a *count* (versions, faults, changes,
keys, edits), its bound only ends the counting. Runs of a replacement, detectors and reviewers are interchangeable, as are the two
resolutions of one input and, with the confirmations of their aliases, the two merchants;
none appears in a liveness property of its run, so these runs use symmetry. `CHECK_DEADLOCK FALSE` is set where the
bounded system really stops: everything that could happen has.

### Fairness

`WorkerFairness`: the loop's pending promise is resolved, timers fire, handlers
end, reports are answered. This is what the Node event loop and the timeouts of
the HTTP and database clients give. Nothing is assumed about faults, stops,
deaths or the environment. `SyncFairness`: workers claim what waits (which
`EveryJobSettles` shows of the workers), each run's next call is answered, the
lease of a run that is over expires, and PostgreSQL grants a lock that is free
again and again (strong fairness of `Acquire`: waiters queue). `LockPool`: the
pool hands a free client to the first in line, queries are answered, and the lock
is granted as above. `ProviderClient`: a request's own steps are taken, a sleep
ends, and an attempt ends through its timeout; the provider need not answer. The
call of `/auth` has no timeout of its own (`api-key-provider.ts:155`): that it
ends is an assumption (weak fairness of `Refreshed`), and without it no request
that awaits the shared refresh ends.

`WaitersGoOn` needs a pool with more clients than there are tasks: each task that
waits for the lock keeps the client it waits on. With `PoolSize` 3 and three tasks
the run deadlocks, two waiting in PostgreSQL and the holder in the pool. The code
relies on this without stating it.

### The disagreements

* The plan asks that a worker that lost ownership cannot commit success. The
  code compares the worker but not the attempt. One process uses one worker id,
  so after its heartbeats have failed for a whole lease it may claim the job
  again in a free slot, and the first attempt's report completes the second's
  row (`queue_worker_slots`). With one slot it cannot happen (`queue_worker`).
* The cycle check of categories reads rows without locking them, so it can be
  overtaken (`catalog_cycle`). A cycle makes the recursive query of the next check
  run for ever. Cycles of two cannot happen, and only a change of parents that
  another session has overtaken closes a longer one (proved, `OvertakenAlone`).
* The reference check of a deactivation can be overtaken in the same way, and the
  category is then inactive with an active reference.
* The README says that a merge rewires all references atomically, strict rules
  included. A rule created during a merge can name the merged merchant, and then fails
  every evaluation of its workspace's transactions. `OvertakenAlone` says of both that
  nothing but this race does it.
* The README of `packages/db` says that repeated detection cannot duplicate a series of
  a merchant, currency and cadence. A merge moves series without the detection's lock
  and no unique index stands in its way: one that commits between what a detection reads
  and what it inserts leaves the target with two. A merge of two
  merchants that have a series of one cadence each does so without any race; no
  document says that it may not, so `ProposedOnce` is about the merchant a
  series was proposed for, and `MovedByMerges` says that only a merge explains more.
* The README asks that a transfer is unique and reciprocal. The reciprocal check
  sees only the rows loaded around the target's day, so it can miss a second
  counterpart of the match (`roles`).
* ADR 0010 promises a candidate for each replacement. A confirmed link beside an
  earlier one of the same predecessor meets the unique index, the detection rolls
  back as a whole and is never repeated (`replacements`).
* The plan says that a decision's `selected` tells whether it was applied. The
  fingerprint of a decision leaves out what other rules have set, so a rule that
  wins only later is applied without a new decision (`rules`).
* The amendments ask for `deleted_at` on deletion. A discovery that listed the
  Item before its deletion clears it (`provider-connection-repository.ts:63`), while
  the status stays DELETED. The status keeps the connection closed
  (`EndsAreFinal`), but conditions on `deleted_at` alone show it again. `dated` of
  `ConnectionSync` follows the column; no property demands what the code does not
  keep.

Other properties are narrower than the hazard they are near, because the code does not
keep more. `RunsAreHonest` is about the rows and counters of a run whose `completeSync()`
committed without an answer; that the job of its event then dies
(`webhook-event-handler.ts:310`) is seen by no property. `TransfersMatchLinks` allows a
confirmed link whose run died to stay without its transfer. `ResolutionsAgree` is about
resolutions beside which nobody edits merchants; beside a canonical creation two
resolutions of one input may differ, and only the uniqueness in `LedgerTypeOK` remains.
`EndsAreFinal` is about the status of a connection and not its `deleted_at`, and
`OnlyTheOvertakenBreak` says which races break references, not that there are none.

## Proofs

`QueueWorker_proofs` proves for all values of the constants (any rows, workers,
requests, instants), from the assumptions in `JobQueue`: types are kept
(`TypeCorrect`), no two active rows share a dedupe key (`DedupeUnique`), waiting
rows have attempts left (`NoStrandedJob`), leases belong to running rows only
(`LeaseDiscipline`), leases are never taken over (`LeaseNeverTakenOver`), settled
rows stay settled (`SettledStaysSettled`), and the table implements
`JobLifecycle` (`QueueImplementsLifecycle`).

The inductive invariant is the conjunction of the four state properties, each of
which needs the others: that a claimed row stays within its budget needs
`TypeOK` and the attempt limit, that a failed row is claimable needs that its
count is below its budget, and so on. The proof has one lemma per row operation
(`Claimed`, `Extended`, `Finished`, `Retried`, `Revived`: what the new row looks
like), then one step per statement, and derives the action properties and the
refinement from the same invariant.

It also proves `JobsStaySafe` and `CurrentAttemptSettles` for any number
of workers with one slot each, any jobs, attempts and faults, and `SafeUntilFaults`
and `CurrentAttemptSettlesUntilFaults` for any number of slots until something fails.
One of the two hypotheses is needed: the run `queue_worker_slots` refutes the claim
for more slots with faults, and the code's default is four slots. The argument
(`WorkerInv`): a task *holds* its row (leased to its worker, for its attempt, beyond
its next heartbeat unless one was missed) or has *lost* it for good, and then the
guard of `complete()` and `fail()` no longer takes the row for the task's. With one
slot that is so because a worker cannot claim before its task is over; until faults,
because a later claim is younger than the outcome of the lost attempt. It needs
that a heartbeat comes before the lease ends, as the constructor demands
(`WorkerOptions`), and that no job asks for more attempts than the bound on them
(`BudgetAssumption`).

`ClassificationCatalog_proofs` proves, again for all values of the constants,
the types (`CatalogTypes`); that no two categories become each other's parent
(`MutualParentsNever`); and that whatever breaks the forest, leaves a rule without its
merchant or a deactivated category with an active reference is the write of a session
that another has overtaken (`OvertakenAlone`), all of it however many sessions
interleave. The first argument (`CatalogInv`): row locks have one holder; while
a session that has checked a parent waits to write it, nobody can make that parent a
child of the locked category, because the foreign key would need the locked row. The
second (`BreakInv`): a write whose check still holds keeps the forest, because a set
closed upwards that holds the new parent but not the category would meet any new cycle
in an old one (`ReparentedForest`); a merge rewires every rule, and its target, which it
holds since its check, exists; and a deactivation writes nothing that refers to its category.

The activations of suggested rules are audited once however many sessions confirm,
edit and deactivate them at a time (`EveryActivationAudited`). The argument
(`AuditInv`): a session that has checked its rule found it to exist and, for a
confirmation, to be a suggestion; no operation takes either away, and what a write
finds active it finds under the rule's row lock.

`MCSyncLive_proofs` proves `SuccessHolds`, `EndsStay` and `NothingIsPremature` for
any events, attempts, processes, faults and lost locks. `SyncInv` is about each run by
itself (`RunInv`), because runs meet only in the state they share. A step of another
run keeps it for two reasons. Shared state moves one way (`OneWay`): rows are mapped
and settled and a connection is closed, but none of this is undone. And who closes the
connection holds its lock, so that what a run checked under the lock is still so,
while no lock has been lost. Assumed are the kinds of events and statuses, the bounds,
and that events, commands and processes have different names.

It also proves `LocksSound` for any tasks, keys, pool and queries. The
argument (`LockInv`): a task has a client from the answer of `connect()` to its release
and nobody else has the same one; so if every held key is held by the client of a task
*inside* its section, then a released client holds nothing and two sections of one
key would share a client. It also proves `RequestsSound` and `NewerKept` for any
requests, keys and retries. `ClientInv` adds to the three properties what they need of
each other: the provider issues its keys in order, a refused key is not cached while
the request it was refused to goes on (so a refresh, or a cached key, is a newer one),
and nothing was done yet for an unsafe request that is still under way, because such a
request never sleeps before another attempt. The one assumption is that `None` is
neither a client nor a key (`NoneIsNothing`).

`TransactionImport_proofs` proves `HonestRuns`, `MarksDuplicates` and `DeletionsHold`
for any transactions, pages, cursors, runs and bounds. Two facts carry `ImportInv`. A
run that has read its rows holds their account until it writes, so what it read is
what it writes over, and a new row that collides with another is marked with it. And a
run under the connection's lock stores no page that is older than an applied deletion,
because the run that applies one holds the lock itself. That a full run which succeeded
stored everything is `Covers`: what it must find is stored or still `Ahead` of it (on
its page, on a later one, in an account to come). The counters are cardinalities of
sets that each page makes larger by what is new to them. The provider lists finitely
many transactions (`ProviderAssumption`); runs, kinds and cursors have different names.

`MCLedger_proofs` proves that the table implements `VersionedState`
(`StateImplementsRegister`) and that a correction replaces only what its user was
shown (`ShownIsReplaced`), for any transactions, corrections and patches. The argument (`StateInv`):
versions only grow, so a row seen earlier is either older than the present one or
is the present one (`Past`); a correction that compared versions under the row
lock therefore writes on the very content it was shown; and once it has been
applied the row is newer than what it was shown, so that a repeated attempt meets
a conflict. The assumptions are the types of the patches and that the patch words
(`Keep`, `Inherit`, `Clear`) differ and are no category, merchant or role.

It has an inductive invariant for each of the other parts of `MCLedger`.

* *Replacements* (`TransfersMatch`, `TransfersFillBlanks`; `LinkInv`). Runs hold the
  connection's lock, so one detects and transfers at a time; reviewers hold none. A
  link's data moves once and only over a link that is confirmed at that moment, and only
  a link nobody has transferred is sent back to review. A link that the policy confirmed
  is in the hands of a run, or was left by one that died or failed.
* *Roles* (`RolesBacked`; `RoleInv`). Only a detection writes pairs, one at a time under
  the workspace's lock, so the pairs it read are the pairs it finds when it writes;
  everything else may have changed, and is not what mutuality rests on. A
  confirmed payment is a final decision, so the evidence of a heuristic role stays.
* *Merchants*. Aliases change hands only in a merge (`AliasesRemain`). Resolutions of one
  input agree and none fails, while nobody edits the merchants (`ResolutionsGiveOne`;
  `Tidy`): every merchant is then one that a resolution inserted and answered with,
  and no key has two. So what a resolution finds bears something of its own input, and
  where two answers to one input differ, one of them was made for another input, with
  which theirs shares a key or an identity. That exception is in the property and not a
  hypothesis: one description may be the provisional name of one input and an alias
  candidate of another.
* *Series* (`SeriesSound`; `SeriesInv`). The lock admits one detection at a time, whose
  inserts are of different groups that no series was proposed for yet; a reviewer who has
  updated a candidate holds its row until the commit, so no merge moves it meanwhile; and a
  merge takes a merchant only when no insert holds it, so no series is left with a merchant
  that is gone (`Owned`). That a cadence is only seen in regular
  purchases is arithmetic: each gap is within the tolerance of the median.
* *Types* (`LedgerTyped`). For merchants this is more than types: keys and identities
  stay unique, and no alias is left without its merchant (`MerchantTypes`). A session
  between the read of an alias's target and the write of the alias holds the target
  (`TargetHeld`), so no merge takes it away; a merge moves the aliases it would orphan.

The constants are assumed to be what the code makes them (`ReplacementAssumption`,
`RoleAssumption`, `MerchantAssumption`, `SeriesAssumption`, `CorrectionAssumption`):
facts and inputs have their types, a resolution looks up at most three keys
(`uniqueKeys()`), `None` is none of the ids, groups and reviewers are finite.

`MCImports_proofs` and `MCReports_proofs` have one for each part of their runs.

* *Accounts* (`HistoryObserved`, `NoneReopened`; `HistoryInv`). A page and an import
  write different fields of the same row; days are only added, and every day that is
  added widens the bounds to it, so that they stay days of the account and around
  all of them. The status of the connection is read in the transaction that writes.
* *Bills* (`BillsAreBacked`; `BillInv`). A page that has looked up its bills
  holds the account until it links, so what it found are the bills there are
  (`PageFound`); active matches are of different payments and outflows (`ActiveApart`,
  the two unique indexes); a reviewer holds the row of the match it read
  (`ReviewsApart`). By counting, as many confirmed payments as payments are all of them.
* *Rules* (`EvaluationsDeclared`; `RuleInv`). Hits count decisions because both are
  written together. The evaluator is a loop: after `n` rules its result is what the
  first `n` declare (`LoopInv`), by induction on `n`, over any nesting of conditions,
  which the proof leaves folded.
* *Lists* (`ListedPageByPage`; `PageInv`). The order by date and id is strict and total.
  An unchanged row that matches is listed, or comes after the cursor; a page takes
  the first rows after the cursor, so a row that it leaves comes after its last one.
* *Periods* (`RangesCompared`; `PeriodInv`). A state is what was asked for and its answer,
  so the theorem is about the calendar: every day number is a day of one month
  (`MonthOf`, `DayOf`), the day `n` months back is that day, or the last one of a shorter
  month; it is earlier, and the order of days is kept. A year is twelve months.
* *Reports* (`ReportsAddUp`; `ReportInv`). The answers of a report are what its statements
  give of one snapshot (`ReportTaken`). That they agree is about sums: transactions
  without effect can be left out (`SumOfEffective`), the rows of a breakdown, of the
  series or of the category changes are disjoint classes that exhaust a group
  (`Shares`), and the sum over the rows of the sums of their classes is the sum of the
  group (`SumByRows`). A count is the sum of ones. A row of a whole month loses nothing to
  the range of the query, because such a query has all of the month's days.

The assumptions are `HistoryAssumption`, `BillAssumption` and `RuleAssumption` of
`MCImports`, and `ReportAssumption`, `PageAssumption` and `PeriodAssumption` of
`MCReports`: `None` is no value of another kind, rows have the types of their columns,
sets of rows are finite, the order in which rules were created is a strict total one, a
query for whole months has their days and no other filter, and the days asked
for and their counterparts a year before are in the calendar.

The largest of finitely many gaps, the loop of the evaluator and the sums need
induction. The library's induction theorems take an operator as parameter and cannot
be used, so it is done by a least counterexample (`Least` of `FiniteFacts`, from the
well-foundedness of the naturals), once for subsets of a finite set
(`SubsetInduction`, about a set of sets instead of a predicate). A sum is the fold of
the community modules; that it is the last of its partial sums, and so does not
depend on the order in which CHOOSE takes the elements, is `SumIsFold` and `SumUnfolds`,
from which `SumOfUnion`, `SumOfDifference` and `SumByClasses` follow.

Every safety invariant and action property that a run checks is stated by a theorem.
Only model-checked is the liveness (`EveryJobSettles`, `StopTerminates`, `EventsSettle`,
`WaitersGoOn`), which is out of the prover's reach, as ENABLED is. Five claims that the code does not
keep are refuted by their runs; the others are described under "The disagreements". `JobsAreSafe` and
`OnlyTheCurrentAttemptSettles` are proved for one slot per worker, or until something
fails, and one of the two is needed, as described above. `TypeOK` of `JobQueue` and of
`ClassificationCatalog` and `SettledIsFinal` are theorems and no run lists them again. The other type
invariants are conjuncts of the first property of their module (`JobsAreSafe`,
`SuccessIsReal`, `RunsAreHonest`, `ReportsAreConsistent`, ...) or are
proved together as `LedgerTypeOK`, which the run `merchants` lists because there it is
more than types.

## Not modelled

* Anomalies, the forecast and installment commitments (`anomaly-forecast.ts`,
  `installment-commitments.ts`): statistics in one statement each over a monthly
  view. Nothing under `src/` writes the installment series they read, except the
  merge of merchants.
* Read-only queries other than the reports, the transaction list and the coverage
  warning, and the quality figures of classification: they change no state.
* HTTP parsing and authentication of the API, schemas and types, fixtures, the web
  and MCP shells: no control of their own; the calls behind them are modelled.
* Ciphers and the key ring: library code; a record names the key it was written
  with.
* Data: money as decimal strings, dates and time zones, the mapping of provider
  responses (`data-client.ts`, `lifecycle-mapper.ts`), the normalisation and
  similarity of descriptions, the weights of the replacement score. They are
  functions of their arguments, and the models take their results as constants or
  as any member of a small set.
* Columns that nothing modelled depends on: raw payloads, amounts in second
  currencies, installment fields, finance charges, notes, audit texts.
