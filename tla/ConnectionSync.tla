--------------------------- MODULE ConnectionSync ---------------------------
(***************************************************************************)
(* One provider connection and everyone who works on it: the webhook inbox, *)
(* the webhook handler, manual and scheduled reconciliation, the discovery  *)
(* and full-import commands, and the provider, which is external.           *)
(*                                                                         *)
(* A run is one execution of such code.  Its program counter moves at every *)
(* awaited call, so that any other run's statements may come between any    *)
(* two of its own.  A step is one database statement or transaction, or one *)
(* provider request, with the code up to the next one.                      *)
(*                                                                         *)
(* Jobs are used through what the queue promises, JobLifecycle.  Attempts   *)
(* are not fenced from each other: an attempt whose lease is lost goes on   *)
(* until it notices, next to the one that replaces it.                      *)
(*                                                                         *)
(* Left out: audit rows, instants other than deleted_at, and what an import *)
(* stores (SYNCING stands for its whole duration).                          *)
(***************************************************************************)
EXTENDS Integers, Null

CONSTANTS
    Events,        \* webhook events the provider sends about the connection
    KindOf,        \* the kind of each event
    Manuals,       \* SYNC_CONNECTION jobs that may be requested
    Schedulers,    \* reconcile-cli processes
    Importers,     \* full-import-cli processes
    Discoverers,   \* discover-cli processes
    InitialStatus, \* local_status the connection may start with
    Budget,        \* max_attempts of a new job
    MaxTries,      \* bound: attempts per job, the operator's included
    MaxFaults,     \* bound: failing calls, deaths, lost leases
    LockLosses     \* bound: database sessions lost with the lock they hold

\* refresh: created, updated, login_succeeded; notice: error, waiting_user_*.
Kind == {"deleted", "refresh", "notice", "transactions"}

\* ACTION_REQUIRED: REAUTH_REQUIRED, USER_INPUT_REQUIRED, USER_ACTION_REQUIRED.
Snapshot == {"ACTIVE", "SYNCING", "PROVIDER_ERROR", "ACTION_REQUIRED"}
Closed == {"DELETED", "DISABLED"}
LocalStatus == Snapshot \cup Closed \cup {"ABSENT"}

ASSUME KindAssumption == KindOf \in [Events -> Kind]
ASSUME StatusAssumption == InitialStatus \subseteq LocalStatus \ {"DELETED"}
ASSUME BoundAssumption == /\ MaxTries \in Nat /\ Budget \in 1..MaxTries
                          /\ MaxFaults \in Nat /\ LockLosses \in Nat

\* Inbox rows are unique per external event among mapped rows and among
\* unmapped ones; each has its PROCESS_WEBHOOK job.
Rows == [event : Events, mapped : BOOLEAN]
ConnectionJobs == Rows \cup Manuals
Attempts == ConnectionJobs \X (1..MaxTries)
Locking == Attempts \cup Schedulers
Runs == Locking \cup Importers \cup Discoverers

ASSUME DistinctAssumption ==
    /\ Manuals \cap Rows = {} /\ None \notin Runs
    /\ Schedulers \cap Attempts = {}
    /\ (Importers \cup Discoverers) \cap Locking = {}
    /\ Importers \cap Discoverers = {}

VARIABLES
    item,      \* the Item at the provider
    status,    \* provider_connection.local_status
    dated,     \* provider_connection.deleted_at is set
    accounts,  \* the connection's accounts: none, active, inactive
    event,     \* webhook_event.status of each inbox row
    stage, tries, budget, \* the jobs
    lock,      \* the holder of the connection's advisory lock
    pc, seen, verdict,    \* each run's place, last snapshot and outcome
    faults, lockLosses    \* so far

connVars == <<status, dated, accounts>>
jobVars == <<stage, tries, budget>>
runVars == <<pc, seen, verdict>>
faultVars == <<faults, lockLosses>>
syncVars == <<item, connVars, event, jobVars, lock, runVars, faultVars>>

Queue == INSTANCE JobLifecycle WITH Job <- ConnectionJobs

Section == {"resolve", "syncing", "fetch", "refresh", "await", "import", "collect",
            "confirm", "final", "apply", "delete", "unlock"}
Place == Section \cup {"idle", "load", "lock", "record", "report", "over"}
EventStatus == {"ABSENT", "QUEUED", "FAILED", "PROCESSED", "UNMAPPED"}

SyncTypeOK ==
    /\ item \in Snapshot \cup {"GONE"}
    /\ status \in LocalStatus
    /\ dated \in BOOLEAN
    /\ accounts \in {"none", "active", "inactive"}
    /\ event \in [Rows -> EventStatus]
    /\ stage \in [ConnectionJobs -> Queue!Stage]
    /\ tries \in [ConnectionJobs -> 0..MaxTries]
    /\ budget \in [ConnectionJobs -> 0..MaxTries]
    /\ lock \in Locking \cup {None}
    /\ pc \in [Runs -> Place]
    /\ seen \in [Runs -> Snapshot \cup {None}]
    /\ verdict \in [Runs -> {"ok", "retry", "stop"}]
    /\ faults \in 0..MaxFaults
    /\ lockLosses \in 0..LockLosses

SyncInit ==
    /\ item \in Snapshot
    /\ status \in InitialStatus
    /\ dated = FALSE
    /\ accounts \in {"none", "active"} /\ (status = "ABSENT" => accounts = "none")
    /\ event = [x \in Rows |-> "ABSENT"]
    /\ Queue!Init
    /\ lock = None
    /\ pc = [r \in Runs |-> "idle"]
    /\ seen = [r \in Runs |-> None]
    /\ verdict = [r \in Runs |-> "ok"]
    /\ faults = 0
    /\ lockLosses = 0

-----------------------------------------------------------------------------
IsWebhook(r) == r \in Rows \X (1..MaxTries)
Reconciles(r) == r \in (Manuals \X (1..MaxTries)) \cup Schedulers
KindIs(r, kinds) == IsWebhook(r) /\ KindOf[r[1].event] \in kinds

Owns(r) == r \in Attempts /\ stage[r[1]] = "trying" /\ tries[r[1]] = r[2]

\* context.signal is aborted once the loss of the lease is noticed; the
\* scheduled run and the commands have no signal.
MayAbort(r) == r \in Attempts /\ ~Owns(r)

Enabled == status \in Snapshot /\ ~dated

\* A deleted or disabled connection keeps its local status.
Retained(new) == IF status \in Closed THEN status ELSE new

\* Events that a deleted or disabled connection has no use for.
Ignores(r) == IsWebhook(r) /\ status \in Closed /\ ~KindIs(r, {"deleted"})

\* A webhook that finds a healthy Item collects its data before showing it so.
ImportsFirst(r) == item = "ACTIVE" /\ IsWebhook(r)

\* Mutant: the transaction relies on the check made before the provider call.
MutImportable == TRUE

\* The target check in the transaction that stores accounts.
Importable == status \in Snapshot

InboxSettled(x) == event[x] \in {"PROCESSED", "UNMAPPED"}

\* Mutant: markFailed() without its status guard.
MutFailedEvent(now) == "FAILED"

\* markFailed()
FailedEvent(now) == IF now \in {"QUEUED", "FAILED"} THEN "FAILED" ELSE now

\* resolveWorkspace(): transaction events are resolved through their account.
Mapped(e) == /\ status # "ABSENT"
             /\ KindOf[e] = "transactions" => accounts # "none"

At(r, place) == pc[r] = place
Goto(r, place) == pc' = [pc EXCEPT ![r] = place] /\ UNCHANGED <<seen, verdict>>

GotoWith(r, place, snapshot) ==
    /\ pc' = [pc EXCEPT ![r] = place]
    /\ seen' = [seen EXCEPT ![r] = snapshot]
    /\ UNCHANGED verdict

\* The function returns or throws: runAndUnlock() comes next, if there is one.
\* Nothing depends on the outcome of the commands and of scheduled runs.
Leave(r, outcome) ==
    /\ pc' = [pc EXCEPT ![r] = IF r \in Locking THEN "unlock" ELSE "idle"]
    /\ verdict' = [verdict EXCEPT ![r] = IF r \in Attempts THEN outcome ELSE "ok"]
    /\ seen' = [seen EXCEPT ![r] = None]

Abort(r) == MayAbort(r) /\ Leave(r, "retry")

Fault == faults < MaxFaults /\ faults' = faults + 1 /\ UNCHANGED lockLosses

-----------------------------------------------------------------------------
(***************************************************************************)
(* The provider, the inbox, the queue and the operator.                    *)
(***************************************************************************)
\* External: the Item changes, or is deleted for good.
ItemChanges ==
    /\ item # "GONE"
    /\ item' \in (Snapshot \cup {"GONE"}) \ {item}
    /\ UNCHANGED <<connVars, event, jobVars, lock, runVars, faultVars>>

\* ingestAuthenticatedPluggyWebhook(); a duplicate changes nothing.
Ingest(e) ==
    LET row == [event |-> e, mapped |-> Mapped(e)] IN
    /\ event[row] = "ABSENT"
    /\ event' = [event EXCEPT ![row] = IF row.mapped THEN "QUEUED" ELSE "UNMAPPED"]
    /\ budget' = [budget EXCEPT ![row] = Budget]
    /\ Queue!Submit(row)
    /\ UNCHANGED <<item, connVars, lock, runVars, faultVars>>

ActiveManual == \E m \in Manuals : stage[m] \in {"waiting", "trying"}

\* requestManualReconciliation(), unless it returns the active job.
RequestReconciliation(m) ==
    /\ Enabled /\ ~ActiveManual
    /\ budget' = [budget EXCEPT ![m] = Budget]
    /\ Queue!Submit(m)
    /\ UNCHANGED <<item, connVars, event, lock, runVars, faultVars>>

\* retryDeadLetter(), which looks only at the jobs of a workspace.
RetryDead(j) ==
    /\ stage[j] = "dead" /\ tries[j] < MaxTries
    /\ j \in Rows => j.mapped
    /\ j \in Manuals => ~ActiveManual
    /\ budget' = [budget EXCEPT ![j] = IF @ > tries[j] THEN @ ELSE tries[j] + 1]
    /\ Queue!Revive(j)
    /\ UNCHANGED <<item, connVars, event, lock, runVars, faultVars>>

\* A worker claims the job and calls its handler.
BeginAttempt(j) ==
    /\ Queue!Try(j)
    /\ Goto(<<j, tries[j] + 1>>, "load")
    /\ UNCHANGED <<item, connVars, event, lock, faultVars>>

GiveUp(j, again) == IF again /\ tries[j] < budget[j] THEN Queue!GiveUp({j}, {})
                                                     ELSE Queue!GiveUp({}, {j})

\* Heartbeats fail for a whole lease, or the worker is dead.
LeaseExpires(j) ==
    /\ stage[j] = "trying"
    /\ IF At(<<j, tries[j]>>, "over") THEN UNCHANGED faultVars ELSE Fault
    /\ GiveUp(j, TRUE)
    /\ UNCHANGED <<item, connVars, event, lock, runVars>>

\* runScheduledReconciliation(): tryRunExclusive() and listEnabledConnections().
BeginSchedule(r) ==
    /\ \A s \in Schedulers : At(s, "idle")
    /\ Enabled
    /\ Goto(r, "lock")
    /\ UNCHANGED <<item, connVars, event, jobVars, lock, faultVars>>

BeginImport(r) ==
    /\ At(r, "idle")
    /\ Goto(r, "import")
    /\ UNCHANGED <<item, connVars, event, jobVars, lock, faultVars>>

\* discoverConnections(): the list is fetched before it is stored.
BeginDiscovery(r) ==
    /\ At(r, "idle") /\ item # "GONE"
    /\ GotoWith(r, "apply", item)
    /\ UNCHANGED <<item, connVars, event, jobVars, lock, faultVars>>

-----------------------------------------------------------------------------
(***************************************************************************)
(* The handlers, before and after the section under the lock.              *)
(***************************************************************************)
\* load() for a webhook, getEnabledConnection() for a manual reconciliation.
Load(r) ==
    /\ At(r, "load")
    /\ \/ IsWebhook(r) /\ InboxSettled(r[1]) /\ Goto(r, "report")
       \/ IsWebhook(r) /\ ~InboxSettled(r[1]) /\ Goto(r, "lock")
       \/ /\ IsWebhook(r) /\ ~InboxSettled(r[1]) /\ MayAbort(r)
          /\ pc' = [pc EXCEPT ![r] = "record"]
          /\ verdict' = [verdict EXCEPT ![r] = "retry"]
          /\ UNCHANGED seen
       \/ Reconciles(r) /\ Enabled /\ Goto(r, "lock")
       \/ /\ Reconciles(r) /\ ~Enabled
          /\ pc' = [pc EXCEPT ![r] = "report"]
          /\ verdict' = [verdict EXCEPT ![r] = "stop"]
          /\ UNCHANGED seen
    /\ UNCHANGED <<item, connVars, event, jobVars, lock, faultVars>>

\* Mutant: the lock is taken whether or not it is free.
MutAcquire(r) ==
    /\ At(r, "lock")
    /\ lock' = r
    /\ Goto(r, "resolve")
    /\ UNCHANGED <<item, connVars, event, jobVars, faultVars>>

\* withAdvisoryLock()
Acquire(r) ==
    /\ At(r, "lock")
    /\ lock = None
    /\ lock' = r
    /\ Goto(r, "resolve")
    /\ UNCHANGED <<item, connVars, event, jobVars, faultVars>>

AfterUnlock(r) == CASE IsWebhook(r) -> "record"
                    [] r \in Schedulers -> "idle"
                    [] OTHER -> "report"

\* Mutant: an action that throws keeps the lock.
MutUnlock(r) ==
    /\ At(r, "unlock")
    /\ pc' = [pc EXCEPT ![r] = AfterUnlock(r)]
    /\ lock' = IF verdict[r] = "ok" THEN None ELSE lock
    /\ UNCHANGED <<item, connVars, event, jobVars, seen, verdict, faultVars>>

\* runAndUnlock(): the unlock fails if its session is gone.
Unlock(r) ==
    /\ At(r, "unlock")
    /\ pc' = [pc EXCEPT ![r] = AfterUnlock(r)]
    /\ IF lock = r THEN lock' = None /\ UNCHANGED verdict
                   ELSE verdict' = [verdict EXCEPT ![r] = "retry"] /\ UNCHANGED lock
    /\ UNCHANGED <<item, connVars, event, jobVars, seen, faultVars>>

\* markProcessed(), or markFailed() as well as it can.
Record(r) ==
    /\ At(r, "record")
    /\ IF verdict[r] = "ok"
       THEN event' = [event EXCEPT ![r[1]] = "PROCESSED"]
       ELSE event' = [event EXCEPT ![r[1]] = FailedEvent(@)]
    /\ Goto(r, "report")
    /\ UNCHANGED <<item, connVars, jobVars, lock, faultVars>>

\* The worker's complete() or fail().  A late report reaches the job if the
\* attempt that replaced this one belongs to the same worker.
Report(r) ==
    /\ At(r, "report")
    /\ Goto(r, "over")
    /\ \/ ~Owns(r) /\ UNCHANGED jobVars
       \/ stage[r[1]] = "trying" /\ verdict[r] = "ok" /\ Queue!Succeed(r[1])
       \/ stage[r[1]] = "trying" /\ verdict[r] # "ok" /\ GiveUp(r[1], verdict[r] = "retry")
    /\ UNCHANGED <<item, connVars, event, lock, faultVars>>

-----------------------------------------------------------------------------
(***************************************************************************)
(* The section under the lock: processItemEvent(), processTransactionEvent() *)
(* and reconcileTarget(); import, collect and apply also by the commands.  *)
(***************************************************************************)
\* resolveConnection(), or isConnectionEnabled() and markConnectionAttempted(),
\* the second of which fails if the connection was closed after the first.
Resolve(r) ==
    /\ At(r, "resolve")
    /\ \/ Ignores(r) /\ Leave(r, "ok")
       \/ ~Ignores(r) /\ KindIs(r, {"deleted"}) /\ Goto(r, "delete")
       \/ ~Ignores(r) /\ KindIs(r, {"refresh"}) /\ Goto(r, "syncing")
       \/ ~Ignores(r) /\ KindIs(r, {"notice"}) /\ Goto(r, "fetch")
       \/ ~Ignores(r) /\ KindIs(r, {"transactions"}) /\ Goto(r, "collect")
       \/ Reconciles(r) /\ Enabled /\ Goto(r, "fetch")
       \/ Reconciles(r) /\ ~Enabled /\ (Leave(r, "ok") \/ Leave(r, "stop"))
       \/ ~KindIs(r, {"transactions"}) /\ Abort(r)
    /\ UNCHANGED <<item, connVars, event, jobVars, lock, faultVars>>

\* markConnectionSyncing() of each repository.
Syncing(r) ==
    /\ At(r, "syncing")
    /\ \/ IsWebhook(r) /\ Goto(r, "fetch")
       \/ Reconciles(r) /\ Enabled /\ Goto(r, "await")
       \/ Reconciles(r) /\ ~Enabled /\ Leave(r, "stop")
    /\ status' = IF Reconciles(r) /\ ~Enabled THEN status ELSE Retained("SYNCING")
    /\ UNCHANGED <<item, dated, accounts, event, jobVars, lock, faultVars>>

\* getConnection() and what is done with the answer.
Fetch(r) ==
    /\ At(r, "fetch")
    /\ \/ item = "GONE" /\ Goto(r, "delete")
       \/ ImportsFirst(r) /\ GotoWith(r, "import", item)
       \/ item # "GONE" /\ IsWebhook(r) /\ ~ImportsFirst(r) /\ GotoWith(r, "apply", item)
       \/ item = "ACTION_REQUIRED" /\ Reconciles(r) /\ GotoWith(r, "apply", item)
       \/ item = "SYNCING" /\ Reconciles(r) /\ Goto(r, "syncing")
       \/ item \in {"ACTIVE", "PROVIDER_ERROR"} /\ Reconciles(r) /\ Goto(r, "refresh")
       \/ item # "GONE" /\ IsWebhook(r) /\ Abort(r)
    /\ UNCHANGED <<item, connVars, event, jobVars, lock, faultVars>>

\* requestConnectionRefresh(), which may be refused with 400 or 409.
Refresh(r) ==
    /\ At(r, "refresh")
    /\ \/ item = "GONE" /\ Goto(r, "delete") /\ UNCHANGED item
       \/ item # "GONE" /\ Goto(r, "await") /\ UNCHANGED item
       \/ item # "GONE" /\ Goto(r, "syncing") /\ item' = "SYNCING"
    /\ UNCHANGED <<connVars, event, jobVars, lock, faultVars>>

\* waitForSettledItem(): polling ends with a settled Item or in a timeout.
Await(r) ==
    /\ At(r, "await")
    /\ \/ item = "GONE" /\ Goto(r, "delete")
       \/ item = "ACTIVE" /\ Goto(r, "import")
       \/ item \in Snapshot \ {"ACTIVE", "SYNCING"} /\ GotoWith(r, "apply", item)
       \/ item = "SYNCING" /\ Leave(r, "retry")
       \/ Abort(r)
    /\ UNCHANGED <<item, connVars, event, jobVars, lock, faultVars>>

\* importAccounts(): the target is checked before the provider is asked (an
\* Error, which is retried) and again, locked, in the transaction that stores
\* the accounts (an InvariantError, which is not).
Import(r) ==
    /\ At(r, "import")
    /\ \/ /\ Importable
          /\ accounts' = "active"
          /\ Goto(r, "collect")
       \/ /\ ~Importable
          /\ Leave(r, "retry") \/ Leave(r, "stop")
          /\ UNCHANGED accounts
    /\ UNCHANGED <<item, status, dated, event, jobVars, lock, faultVars>>

\* importTransactions() and importBills(), or the webhook's transaction sync;
\* each checks its target first.
Collect(r) ==
    /\ At(r, "collect")
    /\ \/ status \notin Snapshot /\ (Leave(r, "retry") \/ Leave(r, "stop"))
       \/ status \in Snapshot /\ KindIs(r, {"transactions"}) /\ Leave(r, "ok")
       \/ status \in Snapshot /\ KindIs(r, {"refresh", "notice"}) /\ Goto(r, "apply")
       \/ status \in Snapshot /\ Reconciles(r) /\ Goto(r, "confirm")
       \/ status \in Snapshot /\ r \in Importers /\ Leave(r, "ok")
       \/ Abort(r)
    /\ UNCHANGED <<item, connVars, event, jobVars, lock, faultVars>>

\* markConnectionSuccessful()
Confirm(r) ==
    /\ At(r, "confirm")
    /\ IF status \in Closed THEN Leave(r, "stop") ELSE Goto(r, "final")
    /\ UNCHANGED <<item, connVars, event, jobVars, lock, faultVars>>

\* The last getConnection() of a reconciliation.
Final(r) ==
    /\ At(r, "final")
    /\ \/ item = "GONE" /\ Goto(r, "delete")
       \/ item # "GONE" /\ GotoWith(r, "apply", item)
    /\ UNCHANGED <<item, connVars, event, jobVars, lock, faultVars>>

\* assignDiscoveredConnections() on one snapshot, which is never DELETED.
Apply(r) ==
    /\ At(r, "apply")
    /\ status' = Retained(seen[r])
    /\ dated' = FALSE
    /\ Leave(r, "ok")
    /\ UNCHANGED <<item, accounts, event, jobVars, lock, faultVars>>

\* markConnectionDeleted(), which also buries the waiting SYNC_CONNECTION jobs.
Delete(r) ==
    /\ At(r, "delete")
    /\ status' = "DELETED"
    /\ dated' = TRUE
    /\ accounts' = IF accounts = "none" THEN "none" ELSE "inactive"
    /\ Queue!Cancel({m \in Manuals : stage[m] = "waiting"})
    /\ Leave(r, "ok")
    /\ UNCHANGED <<item, event, lock, faultVars>>

-----------------------------------------------------------------------------
(***************************************************************************)
(* What can go wrong.                                                      *)
(***************************************************************************)
\* A call throws, for a reason that is worth another attempt or not.  A call
\* that commits and whose answer is lost is the call followed by this; so is the
\* last write of a section whose alert or evidence cannot be recorded.
Throws(r) ==
    /\ Fault
    /\ \/ /\ pc[r] \in (Section \ {"unlock"}) \cup {"lock"}
          /\ \E outcome \in {"retry", "stop"} :
                IF At(r, "lock")
                THEN /\ pc' = [pc EXCEPT ![r] = AfterUnlock(r)]
                     /\ verdict' = [verdict EXCEPT ![r] = outcome]
                     /\ UNCHANGED seen
                ELSE Leave(r, outcome)
          /\ UNCHANGED event
       \/ /\ At(r, "unlock") /\ verdict[r] = "ok" /\ r \in Attempts
          /\ verdict' = [verdict EXCEPT ![r] = "retry"]
          /\ UNCHANGED <<pc, seen, event>>
       \/ /\ At(r, "load")
          /\ pc' = [pc EXCEPT ![r] = "report"]
          /\ \E outcome \in {"retry", "stop"} : verdict' = [verdict EXCEPT ![r] = outcome]
          /\ UNCHANGED <<seen, event>>
       \/ /\ At(r, "record") /\ verdict[r] = "ok"
          /\ event' = event \/ event' = [event EXCEPT ![r[1]] = "PROCESSED"]
          /\ verdict' = [verdict EXCEPT ![r] = "retry"]
          /\ UNCHANGED <<pc, seen>>
       \/ /\ At(r, "record") /\ verdict[r] # "ok"
          /\ Goto(r, "report") /\ UNCHANGED event
       \/ /\ At(r, "report")
          /\ Goto(r, "over") /\ UNCHANGED event
    /\ UNCHANGED <<item, connVars, jobVars, lock>>

\* The process dies, and with it its database sessions.
Dies(r) ==
    /\ pc[r] \notin {"idle", "over"}
    /\ Fault
    /\ pc' = [pc EXCEPT ![r] = IF r \in Attempts THEN "over" ELSE "idle"]
    /\ lock' = IF lock = r THEN None ELSE lock
    /\ UNCHANGED <<item, connVars, event, jobVars, seen, verdict>>

\* The database drops the session that holds the lock; its client finds out
\* when it uses it next.
LosesLock ==
    /\ lock # None
    /\ lockLosses < LockLosses
    /\ lockLosses' = lockLosses + 1
    /\ lock' = None
    /\ UNCHANGED <<item, connVars, event, jobVars, runVars, faults>>

SectionStep(r) ==
    \/ Resolve(r) \/ Syncing(r) \/ Fetch(r) \/ Refresh(r) \/ Await(r) \/ Import(r)
    \/ Collect(r) \/ Confirm(r) \/ Final(r) \/ Apply(r) \/ Delete(r)

RunStep(r) == Load(r) \/ SectionStep(r) \/ Unlock(r) \/ Record(r) \/ Report(r)

SyncNext ==
    \/ ItemChanges
    \/ \E e \in Events : Ingest(e)
    \/ \E m \in Manuals : RequestReconciliation(m)
    \/ \E j \in ConnectionJobs : RetryDead(j) \/ BeginAttempt(j) \/ LeaseExpires(j)
    \/ \E r \in Schedulers : BeginSchedule(r)
    \/ \E r \in Importers : BeginImport(r)
    \/ \E r \in Discoverers : BeginDiscovery(r)
    \/ \E r \in Runs : RunStep(r) \/ Acquire(r) \/ Throws(r) \/ Dies(r)
    \/ LosesLock

SyncSpec == SyncInit /\ [][SyncNext]_syncVars

\* Awaited calls are answered, timers fire, workers claim what waits, leases of
\* the dead run out, and PostgreSQL grants an advisory lock in order.
SyncFairness ==
    /\ \A j \in ConnectionJobs : WF_syncVars(BeginAttempt(j))
    /\ \A j \in ConnectionJobs : WF_syncVars(LeaseExpires(j) /\ UNCHANGED faults)
    /\ \A r \in Runs : WF_syncVars(RunStep(r)) /\ SF_syncVars(Acquire(r))

FairSyncSpec == SyncSpec /\ SyncFairness

-----------------------------------------------------------------------------
(***************************************************************************)
(* Properties.                                                             *)
(***************************************************************************)
\* A job that ends in success has dealt with its event, whichever of its
\* attempts reported it: nothing would look at the inbox row again.  A processed
\* item/deleted event has deleted the connection, whatever other events,
\* reconciliations and commands did before, after or meanwhile.  And a deleted
\* connection has no active account, although the full-import command stores
\* accounts without taking the lock.  All of it keeps its types.
SuccessIsReal ==
    /\ SyncTypeOK
    /\ \A x \in Rows : stage[x] = "done" => event[x] \in {"PROCESSED", "UNMAPPED"}
    /\ \A x \in Rows : KindOf[x.event] = "deleted" /\ event[x] = "PROCESSED" => status = "DELETED"
    /\ status = "DELETED" => accounts # "active"

\* Neither a late attempt that fails after its successor succeeded nor a
\* redelivery reopens an inbox row.
ProcessedStays == \A x \in Rows : event[x] \in {"PROCESSED", "UNMAPPED"} => event'[x] = event[x]

\* None of the writers of local_status reopens a connection that was deleted or
\* disabled, even one that decided on an older state or has lost the lock.
ClosedStays == status \in Closed => status' \in {status, "DELETED"}

\* What has ended stays so, on either side of a handler that is still running.
EndsAreFinal == [][ProcessedStays /\ ClosedStays]_syncVars

\* The provider is asked to refresh an open connection only, unless the session
\* that held the lock is gone: what was read under it still holds at the request.
Requested(r) == At(r, "refresh") /\ pc'[r] \in {"await", "syncing"}
RefreshesOpen == \A r \in Locking : Requested(r) /\ lockLosses = 0 => status \notin Closed

\* No handler shows a syncing connection as ACTIVE before its data has been
\* collected; only the discovery command copies the provider's status as it is.
ActiveIsCollected ==
    status = "SYNCING" /\ status' = "ACTIVE" =>
      accounts = "active" \/ \E r \in Discoverers : At(r, "apply") /\ pc'[r] # "apply"

\* What a handler does, it does on a state that still holds.
NothingPremature == [][RefreshesOpen /\ ActiveIsCollected]_syncVars

\* An event of a known connection is processed in the end, or its job is left to
\* the operator as a dead letter.
EventsSettle ==
    \A x \in Rows : event[x] \in {"QUEUED", "FAILED"} ~> event[x] = "PROCESSED" \/ stage[x] = "dead"
=============================================================================
