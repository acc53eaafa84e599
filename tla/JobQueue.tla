------------------------------ MODULE JobQueue ------------------------------
(***************************************************************************)
(* The PostgreSQL table job_queue and the statements that change it:       *)
(* insertQueueJob (packages/db/src/job-queue-insert.ts), JobQueueRepository *)
(* (job-queue-repository.ts), SyncOperationalRepository.retryDeadLetter and *)
(* the job clean-up inside WebhookProcessingRepository.markConnectionDeleted.*)
(*                                                                         *)
(* Every statement is one transaction, so one action.  The instant "now" is *)
(* an argument of each call, read from the CALLER's clock before the        *)
(* statement is sent: nothing orders the instants of different calls, and a *)
(* call may bring an instant older than one the table already holds.  The   *)
(* specification therefore lets every call bring any instant.  It also lets *)
(* any worker name any job, as the statements' WHERE clauses are all that   *)
(* protects a row.                                                         *)
(***************************************************************************)
EXTENDS Integers, FiniteSets, Null

CONSTANTS
    Requests,      \* the enqueue inputs: records of the set Request
    Workers,       \* worker ids (hostname:pid:uuid, one per process)
    Conns,         \* provider connections a job's payload may name
    Keys,          \* (workspace, job type, dedupe key) triples
    LeaseDuration, \* leaseDurationMs
    BackoffCap,    \* the 300 s bound of the retry delays
    Instants,      \* the clock readings that calls bring
    RetryDelays,   \* the delays fail() is called with
    ReclaimLimit,  \* rows per reclaimExpired call
    MaxJobs,       \* bound: rows ever inserted
    MaxAttemptCap  \* bound: attempts ever granted to one row

RetryableJobTypes == {"PROCESS_WEBHOOK", "SYNC_CONNECTION"}
HandledJobTypes == {"PROCESS_WEBHOOK", "SYNC_CONNECTION"}
ConnectionJobTypes ==
    {"SYNC_CONNECTION", "SYNC_ACCOUNT", "SYNC_TRANSACTIONS_PAGE", "SYNC_BILLS"}
JobTypes == RetryableJobTypes \cup ConnectionJobTypes \cup
    {"DISCOVER_CONNECTIONS", "NORMALIZE_TRANSACTION", "RESOLVE_MERCHANT",
     "CLASSIFY_TRANSACTION", "REBUILD_RECURRING_SERIES", "REBUILD_INSTALLMENT_SERIES",
     "RECOMPUTE_ANALYTICS_CACHE", "REPROCESS_RAW_OBJECT"}

Request == [jobType     : JobTypes,
            dedupeKey   : Keys \cup {None},
            conn        : Conns \cup {None},
            priority    : Int,
            maxAttempts : Nat \ {0}]

ASSUME RequestsAssumption == Requests \subseteq Request
ASSUME NoneAssumption == None \notin Int \cup Keys \cup Workers \cup Conns
ASSUME DurationAssumption == LeaseDuration \in Nat \ {0} /\ BackoffCap \in Nat \ {0}
ASSUME InstantsAssumption == Instants \subseteq Int /\ RetryDelays \subseteq Nat
ASSUME BoundsAssumption == MaxJobs \in Nat /\ MaxAttemptCap \in Nat /\ ReclaimLimit \in Nat

VARIABLE queue     \* the table: row ids 1..MaxJobs in order of creation

vars == <<queue>>

Jobs == 1..MaxJobs

Status == {"PENDING", "RETRY", "RUNNING", "SUCCEEDED", "DEAD"}

Row == [request        : Requests,
        status         : Status,
        availableAt    : Int,
        lockedBy       : Workers \cup {None},
        heartbeatAt    : Int \cup {None},
        leaseExpiresAt : Int \cup {None},
        finished       : BOOLEAN,
        attemptCount   : Nat,
        maxAttempts    : Nat \ {0}]

NoRow == [status |-> "ABSENT"]

TypeOK == queue \in [Jobs -> Row \cup {NoRow}]

Init == queue = [j \in Jobs |-> NoRow]

-----------------------------------------------------------------------------
(***************************************************************************)
(* The parts of the statements.                                            *)
(***************************************************************************)
Exists(j) == queue[j].status # "ABSENT"
Waiting(j) == queue[j].status \in {"PENDING", "RETRY"}
Running(j) == queue[j].status = "RUNNING"
Active(j) == Waiting(j) \/ Running(j)
Terminal(j) == queue[j].status \in {"SUCCEEDED", "DEAD"}

\* Mutant: an index over waiting rows only.
MutDedupeConflict(j, key) ==
    /\ key # None
    /\ \E i \in Jobs \ {j} : Waiting(i) /\ queue[i].request.dedupeKey = key

\* job_queue_active_dedupe_uq: an active row other than j has this key.
DedupeConflict(j, key) ==
    /\ key # None
    /\ \E i \in Jobs \ {j} : Active(i) /\ queue[i].request.dedupeKey = key

\* min(300 s, 1 s * 2^(attempt - 1)), the instants counting seconds.
Backoff(attempt) ==
    LET doubled == 2^(IF attempt > 1 THEN attempt - 1 ELSE 0)
    IN  IF doubled \in 1..BackoffCap THEN doubled ELSE BackoffCap

\* Mutant: ownership is checked without the worker.
MutOwnsLease(w, j, now) ==
    /\ Running(j)
    /\ queue[j].heartbeatAt <= now
    /\ queue[j].leaseExpiresAt > now

\* The WHERE clause of heartbeat, complete and fail.
OwnsLease(w, j, now) ==
    /\ Running(j)
    /\ queue[j].lockedBy = w
    /\ queue[j].heartbeatAt <= now
    /\ queue[j].leaseExpiresAt > now

\* Mutant: the expiry survives the release.
MutUnlocked(row) == [row EXCEPT !.lockedBy = None, !.heartbeatAt = None]

\* locked_at, locked_by, heartbeat_at and lease_expires_at become null.
Unlocked(row) ==
    [row EXCEPT !.lockedBy = None, !.heartbeatAt = None, !.leaseExpiresAt = None]

Retried(row, at) ==
    [Unlocked(row) EXCEPT !.status = "RETRY", !.availableAt = at, !.finished = FALSE]

Finished(row, status) == [Unlocked(row) EXCEPT !.status = status, !.finished = TRUE]

\* Another attempt is left in the row's budget.
AttemptsLeft(row) == row.attemptCount < row.maxAttempts

\* Mutant: the claim does not count as an attempt.
MutClaimed(row, w, now) ==
    [row EXCEPT !.status = "RUNNING", !.lockedBy = w,
                !.heartbeatAt = now, !.leaseExpiresAt = now + LeaseDuration,
                !.finished = FALSE]

Claimed(row, w, now) ==
    [row EXCEPT !.status = "RUNNING", !.lockedBy = w,
                !.heartbeatAt = now, !.leaseExpiresAt = now + LeaseDuration,
                !.finished = FALSE, !.attemptCount = row.attemptCount + 1]

\* greatest(lease_expires_at, now + lease)
Greatest(s, t) == IF s > t THEN s ELSE t

\* Mutant: a heartbeat that does not extend the lease.
MutExtended(row, now) == [row EXCEPT !.heartbeatAt = now]

Extended(row, now) ==
    [row EXCEPT !.heartbeatAt = now,
                !.leaseExpiresAt = Greatest(@, now + LeaseDuration)]

\* Mutant: an off-by-one in the budget.
MutFailedBudget(row, retryAt) ==
    IF retryAt # None /\ row.attemptCount <= row.maxAttempts
    THEN Retried(row, retryAt) ELSE Finished(row, "DEAD")

\* What fail and reclaimExpired make of an attempt that is to be repeated at
\* retryAt, or not at all (None).
Failed(row, retryAt) ==
    IF retryAt # None /\ AttemptsLeft(row) THEN Retried(row, retryAt)
                                           ELSE Finished(row, "DEAD")

\* max_attempts = greatest(max_attempts, attempt_count + 1)
Revived(row, at) ==
    [Retried(row, at) EXCEPT !.maxAttempts = Greatest(row.maxAttempts, row.attemptCount + 1)]

-----------------------------------------------------------------------------
(***************************************************************************)
(* The statements.                                                         *)
(***************************************************************************)
\* insertQueueJob: on a dedupe conflict nothing is inserted and the caller is
\* given the active row instead, which leaves the table as it is.
Insert(req, at) ==
    \E j \in Jobs :
        /\ ~Exists(j)
        /\ \A i \in 1..(j - 1) : Exists(i)
        /\ ~DedupeConflict(j, req.dedupeKey)
        /\ queue' = [queue EXCEPT ![j] =
                        [request        |-> req,
                         status         |-> "PENDING",
                         availableAt    |-> at,
                         lockedBy       |-> None,
                         heartbeatAt    |-> None,
                         leaseExpiresAt |-> None,
                         finished       |-> FALSE,
                         attemptCount   |-> 0,
                         maxAttempts    |-> req.maxAttempts]]

\* Mutant: the claim takes over running rows whose lease has expired.
MutClaimable(j, types, now) ==
    /\ Waiting(j) \/ (Running(j) /\ queue[j].leaseExpiresAt <= now)
    /\ queue[j].availableAt <= now
    /\ AttemptsLeft(queue[j])
    /\ queue[j].request.jobType \in types

Claimable(j, types, now) ==
    /\ Waiting(j)
    /\ queue[j].availableAt <= now
    /\ AttemptsLeft(queue[j])
    /\ queue[j].request.jobType \in types

\* order by priority desc, created_at, id
ClaimedBefore(i, j) ==
    \/ queue[i].request.priority > queue[j].request.priority
    \/ queue[i].request.priority = queue[j].request.priority /\ i <= j

\* The claim statement on the row it selects.  A row that SKIP LOCKED passes
\* over is being claimed or buried by a transaction ordered before this one.
ClaimJob(w, j, types, now) ==
    /\ Claimable(j, types, now)
    /\ \A i \in Jobs : Claimable(i, types, now) => ClaimedBefore(j, i)
    /\ queue' = [queue EXCEPT ![j] = Claimed(@, w, now)]

Claim(w, types, now) == \E j \in Jobs : ClaimJob(w, j, types, now)

\* A call whose guard OwnsLease fails throws QueueLeaseLostError and leaves the
\* table as it is; the same holds for Complete and Fail.
Heartbeat(w, j, now) ==
    /\ OwnsLease(w, j, now)
    /\ queue' = [queue EXCEPT ![j] = Extended(@, now)]

Complete(w, j, now) ==
    /\ OwnsLease(w, j, now)
    /\ queue' = [queue EXCEPT ![j] = Finished(@, "SUCCEEDED")]

\* retryAt is None for a failure that must not be retried.
Fail(w, j, now, retryAt) ==
    /\ OwnsLease(w, j, now)
    /\ queue' = [queue EXCEPT ![j] = Failed(@, retryAt)]

Expired(j, now) == Running(j) /\ queue[j].leaseExpiresAt <= now

Reclaimed(row, now) == Failed(row, now + Backoff(row.attemptCount))

\* FOR UPDATE SKIP LOCKED LIMIT n: any expired rows not locked by another
\* transaction, at most ReclaimLimit of them.
ReclaimExpired(now) ==
    \E S \in SUBSET {j \in Jobs : Expired(j, now)} :
        /\ S # {}
        /\ Cardinality(S) <= ReclaimLimit
        /\ queue' = [j \in Jobs |-> IF j \in S THEN Reclaimed(queue[j], now)
                                              ELSE queue[j]]

\* The operator's retry of a dead letter: ACTIVE_CONFLICT, whether seen by the
\* query or raised by the index as 23505, leaves the table as it is.
RetryDeadLetter(j, now) ==
    /\ queue[j].status = "DEAD"
    /\ queue[j].request.jobType \in RetryableJobTypes
    /\ ~DedupeConflict(j, queue[j].request.dedupeKey)
    /\ queue[j].attemptCount < MaxAttemptCap
    /\ queue' = [queue EXCEPT ![j] = Revived(@, now)]

\* The waiting jobs of a deleted connection; running ones are left alone.
JobsOf(c) == {j \in Jobs : /\ Waiting(j)
                           /\ queue[j].request.jobType \in ConnectionJobTypes
                           /\ queue[j].request.conn = c}

KillConnectionJobs(c) ==
    queue' = [j \in Jobs |-> IF j \in JobsOf(c) THEN Finished(queue[j], "DEAD")
                                               ELSE queue[j]]

-----------------------------------------------------------------------------
Next ==
    \/ \E req \in Requests, at \in Instants : Insert(req, at)
    \/ \E w \in Workers, now \in Instants : Claim(w, HandledJobTypes, now)
    \/ \E w \in Workers, j \in Jobs, now \in Instants :
          \/ Heartbeat(w, j, now)
          \/ Complete(w, j, now)
          \/ Fail(w, j, now, None)
          \/ \E d \in RetryDelays : Fail(w, j, now, now + d)
    \/ \E now \in Instants : ReclaimExpired(now)
    \/ \E j \in Jobs, now \in Instants : RetryDeadLetter(j, now)
    \/ \E c \in Conns : JobsOf(c) # {} /\ KillConnectionJobs(c)

Spec == Init /\ [][Next]_vars

-----------------------------------------------------------------------------
(***************************************************************************)
(* Properties.                                                             *)
(***************************************************************************)
\* Two active rows never share a dedupe key, however inserts, operator retries
\* and releases interleave.  Were it false, the statement that made it so
\* would raise 23505 in production instead.
ActiveDedupe ==
    \A i, j \in Jobs :
        /\ i # j /\ Active(i) /\ Active(j)
        /\ queue[i].request.dedupeKey # None
        => queue[i].request.dedupeKey # queue[j].request.dedupeKey

\* A waiting row can still be claimed.  The claim statement skips rows whose
\* attempts are used up, and nothing else picks them up: a row left waiting
\* with no attempt left would never run, never die and never be reported,
\* while its dedupe key would block every later request.
WaitingIsClaimable == \A j \in Jobs : Waiting(j) => AttemptsLeft(queue[j])

\* The table's check constraints (attempt limit, running lease, terminal
\* finished_at) hold after every statement, and a lease is held exactly while
\* a row is running, so that reclaimExpired sees every abandoned row.
LeaseExactlyWhileRunning ==
    \A j \in Jobs : Exists(j) =>
        /\ queue[j].attemptCount <= queue[j].maxAttempts
        /\ Running(j) <=> queue[j].lockedBy # None
        /\ Running(j) <=> queue[j].leaseExpiresAt # None
        /\ Running(j) <=> queue[j].heartbeatAt # None
        /\ Running(j) => queue[j].heartbeatAt < queue[j].leaseExpiresAt
        /\ Terminal(j) <=> queue[j].finished

\* No call of one worker takes over or shortens a running lease: the row must
\* be released first, and whoever gets it next gets a new attempt number.
LeaseKept(j) ==
    Running(j) /\ Running(j)' =>
        /\ queue'[j].lockedBy = queue[j].lockedBy
        /\ queue'[j].attemptCount = queue[j].attemptCount
        /\ queue'[j].leaseExpiresAt >= queue[j].leaseExpiresAt

NoLeaseTakeover == [][\A j \in Jobs : LeaseKept(j)]_vars

\* A settled job stays settled: late heartbeats, completions, failures and
\* reclaims never touch it.  Only the operator's retry leaves DEAD, and it
\* leaves an attempt to use.
Settled(j) ==
    /\ queue[j].status = "SUCCEEDED" => queue'[j] = queue[j]
    /\ queue[j].status = "DEAD" =>
         \/ queue'[j] = queue[j]
         \/ /\ queue'[j].status = "RETRY"
            /\ queue'[j].attemptCount = queue[j].attemptCount
            /\ queue'[j].attemptCount < queue'[j].maxAttempts

SettledIsFinal == [][\A j \in Jobs : Settled(j)]_vars

-----------------------------------------------------------------------------
(***************************************************************************)
(* The refinement of JobLifecycle.                                         *)
(***************************************************************************)
StageOf(row) ==
    CASE row.status = "ABSENT"               -> "unknown"
      [] row.status \in {"PENDING", "RETRY"} -> "waiting"
      [] row.status = "RUNNING"              -> "trying"
      [] row.status = "SUCCEEDED"            -> "done"
      [] row.status = "DEAD"                 -> "dead"

TriesOf(row) == IF row.status = "ABSENT" THEN 0 ELSE row.attemptCount
BudgetOf(row) == IF row.status = "ABSENT" THEN 0 ELSE row.maxAttempts

Lifecycle == INSTANCE JobLifecycle WITH
    Job    <- Jobs,
    stage  <- [j \in Jobs |-> StageOf(queue[j])],
    tries  <- [j \in Jobs |-> TriesOf(queue[j])],
    budget <- [j \in Jobs |-> BudgetOf(queue[j])]

\* Every statement on the table is a step of the job life cycle that callers
\* are promised: an attempt is used up exactly when a claim starts it, a failed
\* or expired attempt is followed by another only within the budget, and
\* nothing else moves a job.
ImplementsLifecycle == Lifecycle!Spec

=============================================================================
