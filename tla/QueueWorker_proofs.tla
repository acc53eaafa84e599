-------------------------- MODULE QueueWorker_proofs --------------------------
(***************************************************************************)
(* The job queue is correct for every number of rows, workers and requests  *)
(* and for every clock, and workers serve it safely, for every number of    *)
(* workers, jobs, attempts and faults: first the invariants, action         *)
(* properties and refinement of JobQueue, then the properties of            *)
(* QueueWorker.                                                             *)
(*                                                                           *)
(* The queue's inductive invariant is the conjunction of its four           *)
(* invariants. Each statement that changes one row goes through RowStep: if *)
(* the new row is good by itself and is active only where that makes no     *)
(* duplicate key, then the table stays good.                                *)
(*                                                                           *)
(* A task of a worker either holds its row (the row is leased to its        *)
(* worker, for its attempt) or has lost it for good. It loses the row only  *)
(* by letting the lease run out, which a handler whose heartbeats all       *)
(* succeed never does; and once lost the row cannot be taken for held. With *)
(* one slot per worker that is so because the worker cannot claim before    *)
(* the task is over; with several, only as long as nothing has failed,      *)
(* because a later claim of the same worker is then always younger than the *)
(* outcome of the lost attempt. Steady says that one of the two is the      *)
(* case.                                                                    *)
(***************************************************************************)
EXTENDS QueueWorker, FiniteSetTheorems, TLAPS

\* What the invariants say of a single row.
GoodRow(row) ==
    /\ row \in Row
    /\ row.status \in {"PENDING", "RETRY"} => AttemptsLeft(row)
    /\ row.attemptCount <= row.maxAttempts
    /\ (row.status = "RUNNING") <=> (row.lockedBy # None)
    /\ (row.status = "RUNNING") <=> (row.leaseExpiresAt # None)
    /\ (row.status = "RUNNING") <=> (row.heartbeatAt # None)
    /\ row.status = "RUNNING" => row.heartbeatAt < row.leaseExpiresAt
    /\ (row.status \in {"SUCCEEDED", "DEAD"}) <=> row.finished

QueueInv ==
    /\ TypeOK
    /\ ActiveDedupe
    /\ WaitingIsClaimable
    /\ LeaseExactlyWhileRunning

GoodRows == \A j \in Jobs : Exists(j) => GoodRow(queue[j])

USE DEF Jobs

\* The 300 s bound: every reclaim delay is a positive number up to the cap.
LEMMA BackoffType == ASSUME NEW n PROVE Backoff(n) \in 1..BackoffCap
  BY DurationAssumption DEF Backoff

\* An existing row is a Row, and the placeholder is none.
LEMMA RowShape ==
    ASSUME TypeOK, NEW j \in Jobs
    PROVE  /\ Exists(j) => queue[j] \in Row
           /\ Exists(j) <=> queue[j].status \in Status
  <1>1. CASE queue[j] \in Row
    BY <1>1 DEF Exists, Row, Status
  <1>2. CASE queue[j] = NoRow
    BY <1>2 DEF Exists, NoRow, Status
  <1> QED
    BY <1>1, <1>2 DEF TypeOK

\* QueueInv, row by row.
LEMMA ByRows == QueueInv <=> TypeOK /\ ActiveDedupe /\ GoodRows
  <1>1. SUFFICES ASSUME TypeOK
                 PROVE  WaitingIsClaimable /\ LeaseExactlyWhileRunning <=> GoodRows
    BY DEF QueueInv
  <1>2. \A j \in Jobs : Waiting(j) => Exists(j)
    BY RowShape, <1>1 DEF Waiting, Status
  <1>3. \A j \in Jobs : Exists(j) => queue[j] \in Row
    BY RowShape, <1>1
  <1> QED
    BY <1>1, <1>2, <1>3
    DEF GoodRows, WaitingIsClaimable, LeaseExactlyWhileRunning, GoodRow, Waiting, Running,
        Terminal, AttemptsLeft

-----------------------------------------------------------------------------
(***************************************************************************)
(* What the statements make of a row.                                      *)
(***************************************************************************)
\* A new row is good: its budget allows at least one attempt.
NewRow(req, at) ==
    [request |-> req, status |-> "PENDING", availableAt |-> at,
     lockedBy |-> None, heartbeatAt |-> None, leaseExpiresAt |-> None,
     finished |-> FALSE, attemptCount |-> 0, maxAttempts |-> req.maxAttempts]

LEMMA InsertedIsGood ==
    ASSUME NEW req \in Requests, NEW at \in Int
    PROVE  GoodRow(NewRow(req, at))
  <1>1. req.maxAttempts \in Nat \ {0}
    BY RequestsAssumption DEF Request
  <1> QED
    BY <1>1 DEF GoodRow, NewRow, Row, Status, AttemptsLeft

\* Claiming a row whose budget is not used up leaves it within its budget.
LEMMA ClaimedIsGood ==
    ASSUME NEW row, GoodRow(row), AttemptsLeft(row), NEW w \in Workers, NEW now \in Int,
           row.status \in {"PENDING", "RETRY"}
    PROVE  GoodRow(Claimed(row, w, now))
  <1> DEFINE new == Claimed(row, w, now)
             lease == now + LeaseDuration
             count == row.attemptCount + 1
  <1>1. lease \in Int /\ now < lease /\ count \in Nat /\ count <= row.maxAttempts
    BY DurationAssumption DEF GoodRow, Row, AttemptsLeft
  <1>2. /\ w # None /\ lease # None /\ now # None
    BY NoneAssumption, <1>1
  <1>3. new = [row EXCEPT !.status = "RUNNING", !.lockedBy = w,
                !.heartbeatAt = now, !.leaseExpiresAt = lease,
                !.finished = FALSE, !.attemptCount = count]
    BY DEF Claimed
  <1> HIDE DEF new, lease, count
  <1>4. new \in Row
    BY <1>1, <1>3 DEF GoodRow, Row, Status
  <1>5. /\ new.status = "RUNNING" /\ new.lockedBy = w
        /\ new.heartbeatAt = now /\ new.leaseExpiresAt = lease
        /\ new.finished = FALSE /\ new.attemptCount = count
        /\ new.maxAttempts = row.maxAttempts
    BY <1>3 DEF GoodRow, Row
  <1> QED
    BY <1>1, <1>2, <1>4, <1>5 DEF GoodRow, new

\* A released row has no lease.
LEMMA UnlockedRow ==
    ASSUME NEW row \in Row
    PROVE  /\ Unlocked(row) \in Row
           /\ Unlocked(row).lockedBy = None
           /\ Unlocked(row).heartbeatAt = None
           /\ Unlocked(row).leaseExpiresAt = None
           /\ Unlocked(row).attemptCount = row.attemptCount
           /\ Unlocked(row).maxAttempts = row.maxAttempts
           /\ Unlocked(row).request = row.request
  BY DEF Unlocked, Row

LEMMA RetriedIsGood ==
    ASSUME NEW row \in Row, AttemptsLeft(row), NEW at \in Int
    PROVE  /\ GoodRow(Retried(row, at))
           /\ Retried(row, at).status = "RETRY"
           /\ Retried(row, at).request = row.request
           /\ Retried(row, at).attemptCount = row.attemptCount
           /\ Retried(row, at).maxAttempts = row.maxAttempts
  <1> DEFINE old == Unlocked(row)
             new == Retried(row, at)
  <1>1. new = [old EXCEPT !.status = "RETRY", !.availableAt = at, !.finished = FALSE]
    BY DEF Retried
  <1>2. old \in Row
    BY UnlockedRow
  <1> HIDE DEF old, new
  <1>3. new \in Row
    BY <1>1, <1>2 DEF Row, Status
  <1>4. /\ new.status = "RETRY" /\ new.finished = FALSE
        /\ new.lockedBy = old.lockedBy /\ new.heartbeatAt = old.heartbeatAt
        /\ new.leaseExpiresAt = old.leaseExpiresAt /\ new.request = old.request
        /\ new.attemptCount = old.attemptCount /\ new.maxAttempts = old.maxAttempts
    BY <1>1, <1>2 DEF Row
  <1>5. row.attemptCount <= row.maxAttempts
    BY DEF AttemptsLeft, Row
  <1> QED
    BY <1>3, <1>4, <1>5, UnlockedRow DEF GoodRow, AttemptsLeft, old, new

LEMMA FinishedIsGood ==
    ASSUME NEW row \in Row, row.attemptCount <= row.maxAttempts,
           NEW status \in {"SUCCEEDED", "DEAD"}
    PROVE  /\ GoodRow(Finished(row, status))
           /\ Finished(row, status).status = status
           /\ Finished(row, status).request = row.request
           /\ Finished(row, status).attemptCount = row.attemptCount
           /\ Finished(row, status).maxAttempts = row.maxAttempts
  <1> DEFINE old == Unlocked(row)
             new == Finished(row, status)
  <1>1. new = [old EXCEPT !.status = status, !.finished = TRUE]
    BY DEF Finished
  <1>2. old \in Row
    BY UnlockedRow
  <1> HIDE DEF old, new
  <1>3. new \in Row
    BY <1>1, <1>2 DEF Row, Status
  <1>4. /\ new.status = status /\ new.finished = TRUE
        /\ new.lockedBy = old.lockedBy /\ new.heartbeatAt = old.heartbeatAt
        /\ new.leaseExpiresAt = old.leaseExpiresAt /\ new.request = old.request
        /\ new.attemptCount = old.attemptCount /\ new.maxAttempts = old.maxAttempts
    BY <1>1, <1>2 DEF Row
  <1> QED
    BY <1>3, <1>4, UnlockedRow DEF GoodRow, old, new

\* Whether repeated or given up, a failed attempt leaves a good row.
LEMMA FailedIsGood ==
    ASSUME NEW row \in Row, row.attemptCount <= row.maxAttempts,
           NEW retryAt \in Int \cup {None}
    PROVE  /\ GoodRow(Failed(row, retryAt))
           /\ Failed(row, retryAt).status = "DEAD"
                \/ (Failed(row, retryAt).status = "RETRY" /\ AttemptsLeft(row))
           /\ Failed(row, retryAt).request = row.request
           /\ Failed(row, retryAt).attemptCount = row.attemptCount
           /\ Failed(row, retryAt).maxAttempts = row.maxAttempts
  <1>1. CASE retryAt # None /\ AttemptsLeft(row)
    BY <1>1, RetriedIsGood DEF Failed
  <1>2. CASE ~(retryAt # None /\ AttemptsLeft(row))
    BY <1>2, FinishedIsGood DEF Failed
  <1> QED
    BY <1>1, <1>2

\* The operator's retry always leaves an attempt to use.
LEMMA RevivedIsGood ==
    ASSUME NEW row \in Row, NEW at \in Int, row.attemptCount <= row.maxAttempts
    PROVE  /\ GoodRow(Revived(row, at))
           /\ Revived(row, at).status = "RETRY"
           /\ Revived(row, at).request = row.request
           /\ Revived(row, at).attemptCount = row.attemptCount
           /\ Revived(row, at).maxAttempts > row.attemptCount
           /\ Revived(row, at).maxAttempts >= row.maxAttempts
  <1> DEFINE granted == Greatest(row.maxAttempts, row.attemptCount + 1)
             base == [row EXCEPT !.maxAttempts = granted]
  <1>1. granted \in Nat \ {0} /\ granted > row.attemptCount /\ granted >= row.maxAttempts
    BY DEF Greatest, Row
  <1> HIDE DEF granted
  <1>2. /\ base \in Row /\ base.maxAttempts = granted
        /\ base.attemptCount = row.attemptCount /\ base.request = row.request
    BY <1>1 DEF Row
  <1>3. Revived(row, at) = Retried(base, at)
    BY DEF Revived, Retried, Unlocked, Row, granted
  <1>4. AttemptsLeft(base)
    BY <1>1, <1>2 DEF AttemptsLeft, Row
  <1> HIDE DEF base
  <1> QED
    BY <1>1, <1>2, <1>3, <1>4, RetriedIsGood

LEMMA ExtendedIsGood ==
    ASSUME NEW row, GoodRow(row), row.status = "RUNNING", NEW now \in Int
    PROVE  /\ GoodRow(Extended(row, now))
           /\ Extended(row, now).status = "RUNNING"
           /\ Extended(row, now).request = row.request
           /\ Extended(row, now).lockedBy = row.lockedBy
           /\ Extended(row, now).attemptCount = row.attemptCount
           /\ Extended(row, now).maxAttempts = row.maxAttempts
           /\ Extended(row, now).leaseExpiresAt >= row.leaseExpiresAt
  <1> DEFINE lease == Greatest(row.leaseExpiresAt, now + LeaseDuration)
             new == Extended(row, now)
  <1>1. row \in Row /\ row.leaseExpiresAt \in Int
    BY DEF GoodRow, Row
  <1>2. lease \in Int /\ lease >= row.leaseExpiresAt /\ now < lease
    BY <1>1, DurationAssumption DEF Greatest
  <1>3. new = [row EXCEPT !.heartbeatAt = now, !.leaseExpiresAt = lease]
    BY <1>1 DEF Extended
  <1> HIDE DEF new, lease
  <1>4. new \in Row
    BY <1>1, <1>2, <1>3 DEF Row
  <1>5. /\ new.status = row.status /\ new.finished = row.finished
        /\ new.lockedBy = row.lockedBy /\ new.request = row.request
        /\ new.heartbeatAt = now /\ new.leaseExpiresAt = lease
        /\ new.attemptCount = row.attemptCount /\ new.maxAttempts = row.maxAttempts
    BY <1>1, <1>3 DEF Row
  <1>6. now # None /\ lease # None
    BY <1>2, NoneAssumption
  <1> QED
    BY <1>2, <1>4, <1>5, <1>6 DEF GoodRow, new

-----------------------------------------------------------------------------
(***************************************************************************)
(* What the statements make of the table.                                  *)
(***************************************************************************)
\* A step that replaces rows by good ones keeps the invariant, if it keeps
\* active keys unique.
LEMMA TableStep ==
    ASSUME QueueInv,
           queue' = [j \in Jobs |-> queue'[j]],
           \A j \in Jobs : queue'[j] = queue[j] \/ GoodRow(queue'[j]),
           ActiveDedupe'
    PROVE  QueueInv'
  <1>1. \A j \in Jobs : queue[j] \in Row \cup {NoRow}
    BY DEF QueueInv, TypeOK
  <1>2. \A j \in Jobs : queue'[j] \in Row \cup {NoRow}
    BY <1>1 DEF GoodRow
  <1>3. TypeOK'
    BY <1>2 DEF TypeOK
  <1>4. GoodRows'
    BY ByRows DEF GoodRows, Exists
  <1>5. (QueueInv <=> TypeOK /\ ActiveDedupe /\ GoodRows)'
    BY ByRows, PTL
  <1> QED
    BY <1>3, <1>4, <1>5

\* No key becomes active.
LEMMA NoNewKeys ==
    ASSUME ActiveDedupe,
           \A j \in Jobs : Active(j)' => Active(j) /\ queue'[j].request = queue[j].request
    PROVE  ActiveDedupe'
  BY DEF ActiveDedupe

\* One row may become active when no other active row has its key.
LEMMA OneNewKey ==
    ASSUME ActiveDedupe, NEW j \in Jobs,
           ~DedupeConflict(j, queue'[j].request.dedupeKey),
           \A i \in Jobs \ {j} : queue'[i] = queue[i]
    PROVE  ActiveDedupe'
  <1>1. \A i \in Jobs \ {j} : Active(i)' <=> Active(i)
    BY DEF Active, Waiting, Running
  <1> QED
    BY <1>1 DEF ActiveDedupe, DedupeConflict

\* A step on one row.
LEMMA RowStep ==
    ASSUME QueueInv, NEW j \in Jobs, NEW row, GoodRow(row),
           queue' = [queue EXCEPT ![j] = row],
           \/ Active(j) /\ row.request = queue[j].request
           \/ row.status \notin {"PENDING", "RETRY", "RUNNING"}
           \/ ~DedupeConflict(j, row.request.dedupeKey)
    PROVE  QueueInv' /\ queue'[j] = row /\ \A i \in Jobs \ {j} : queue'[i] = queue[i]
  <1>1. /\ queue' = [i \in Jobs |-> queue'[i]]
        /\ queue'[j] = row
        /\ \A i \in Jobs \ {j} : queue'[i] = queue[i]
    BY DEF QueueInv, TypeOK
  <1>2. ActiveDedupe'
    <2>1. ActiveDedupe
      BY DEF QueueInv
    <2>2. CASE Active(j) /\ row.request = queue[j].request
      BY <1>1, <2>1, <2>2, NoNewKeys DEF Active, Waiting, Running
    <2>3. CASE row.status \notin {"PENDING", "RETRY", "RUNNING"}
      BY <1>1, <2>1, <2>3, NoNewKeys DEF Active, Waiting, Running
    <2>4. CASE ~DedupeConflict(j, row.request.dedupeKey)
      BY <1>1, <2>1, <2>4, OneNewKey
    <2> QED
      BY <2>2, <2>3, <2>4
  <1> QED
    BY <1>1, <1>2, TableStep

\* Rows that a step leaves alone satisfy the action properties.
LEMMA RowLeftAlone ==
    ASSUME QueueInv, NEW j \in Jobs, queue'[j] = queue[j]
    PROVE  LeaseKept(j) /\ Settled(j)
  <1>1. Running(j) => queue[j].leaseExpiresAt \in Int
    BY ByRows DEF GoodRows, GoodRow, Exists, Running, Row
  <1> QED
    BY <1>1 DEF LeaseKept, Settled

\* An existing row is good.
LEMMA ExistingIsGood ==
    ASSUME QueueInv, NEW j \in Jobs, queue[j].status # "ABSENT"
    PROVE  /\ GoodRow(queue[j])
           /\ queue[j] \in Row
           /\ queue[j].attemptCount <= queue[j].maxAttempts
  BY ByRows DEF GoodRows, GoodRow, Exists

StepKeeps == QueueInv' /\ \A j \in Jobs : LeaseKept(j) /\ Settled(j)

-----------------------------------------------------------------------------
(***************************************************************************)
(* One lemma per statement.                                                *)
(***************************************************************************)
LEMMA InsertStep ==
    ASSUME QueueInv, NEW req \in Requests, NEW at \in Int, Insert(req, at)
    PROVE  StepKeeps
  <1>1. PICK j \in Jobs : /\ ~Exists(j)
                          /\ ~DedupeConflict(j, req.dedupeKey)
                          /\ queue' = [queue EXCEPT ![j] = NewRow(req, at)]
    BY DEF Insert, NewRow
  <1>2. NewRow(req, at).request = req
    BY DEF NewRow
  <1>3. /\ QueueInv' /\ \A i \in Jobs \ {j} : queue'[i] = queue[i]
    BY <1>1, <1>2, RowStep, InsertedIsGood
  <1>4. LeaseKept(j) /\ Settled(j)
    BY <1>1 DEF LeaseKept, Settled, Running, Exists
  <1> QED
    BY <1>3, <1>4, RowLeftAlone DEF StepKeeps

LEMMA ClaimStep ==
    ASSUME QueueInv, NEW w \in Workers, NEW now \in Int, NEW types, NEW j \in Jobs,
           ClaimJob(w, j, types, now)
    PROVE  StepKeeps
  <1> DEFINE row == Claimed(queue[j], w, now)
  <1>1. /\ Waiting(j) /\ AttemptsLeft(queue[j])
        /\ queue' = [queue EXCEPT ![j] = row]
    BY DEF ClaimJob, Claimable
  <1>2. GoodRow(queue[j]) /\ queue[j] \in Row
    BY <1>1, ExistingIsGood DEF Waiting
  <1>3. GoodRow(row)
    BY <1>1, <1>2, ClaimedIsGood DEF Waiting
  <1>4. row.request = queue[j].request
    BY <1>2 DEF Claimed, Row
  <1> HIDE DEF row
  <1>5. /\ QueueInv' /\ \A i \in Jobs \ {j} : queue'[i] = queue[i]
    BY <1>1, <1>3, <1>4, RowStep DEF Active
  <1>6. LeaseKept(j) /\ Settled(j)
    BY <1>1 DEF LeaseKept, Settled, Waiting, Running
  <1> QED
    BY <1>5, <1>6, RowLeftAlone DEF StepKeeps

LEMMA HeartbeatStep ==
    ASSUME QueueInv, NEW w, NEW now \in Int, NEW j \in Jobs, Heartbeat(w, j, now)
    PROVE  StepKeeps
  <1> DEFINE row == Extended(queue[j], now)
  <1>1. queue[j].status = "RUNNING" /\ queue' = [queue EXCEPT ![j] = row]
    BY DEF Heartbeat, OwnsLease, Running
  <1>2. /\ GoodRow(row) /\ row.status = "RUNNING"
        /\ row.request = queue[j].request /\ row.lockedBy = queue[j].lockedBy
        /\ row.attemptCount = queue[j].attemptCount
        /\ row.leaseExpiresAt >= queue[j].leaseExpiresAt
    BY <1>1, ExistingIsGood, ExtendedIsGood
  <1> HIDE DEF row
  <1>3. /\ QueueInv' /\ queue'[j] = row /\ \A i \in Jobs \ {j} : queue'[i] = queue[i]
    BY <1>1, <1>2, RowStep DEF Active, Running
  <1>4. LeaseKept(j) /\ Settled(j)
    BY <1>1, <1>2, <1>3 DEF LeaseKept, Settled
  <1> QED
    BY <1>3, <1>4, RowLeftAlone DEF StepKeeps

LEMMA CompleteStep ==
    ASSUME QueueInv, NEW w, NEW now \in Int, NEW j \in Jobs, Complete(w, j, now)
    PROVE  StepKeeps
  <1> DEFINE row == Finished(queue[j], "SUCCEEDED")
  <1>1. queue[j].status = "RUNNING" /\ queue' = [queue EXCEPT ![j] = row]
    BY DEF Complete, OwnsLease, Running
  <1>2. GoodRow(row) /\ row.status = "SUCCEEDED" /\ row.request = queue[j].request
    BY <1>1, ExistingIsGood, FinishedIsGood
  <1> HIDE DEF row
  <1>3. /\ QueueInv' /\ queue'[j] = row /\ \A i \in Jobs \ {j} : queue'[i] = queue[i]
    BY <1>1, <1>2, RowStep
  <1>4. LeaseKept(j) /\ Settled(j)
    BY <1>1, <1>2, <1>3 DEF LeaseKept, Settled, Running
  <1> QED
    BY <1>3, <1>4, RowLeftAlone DEF StepKeeps

LEMMA FailStep ==
    ASSUME QueueInv, NEW w, NEW now \in Int, NEW retryAt \in Int \cup {None},
           NEW j \in Jobs, Fail(w, j, now, retryAt)
    PROVE  StepKeeps
  <1> DEFINE row == Failed(queue[j], retryAt)
  <1>1. queue[j].status = "RUNNING" /\ queue' = [queue EXCEPT ![j] = row]
    BY DEF Fail, OwnsLease, Running
  <1>2. /\ GoodRow(row) /\ row.status \in {"DEAD", "RETRY"}
        /\ row.request = queue[j].request
    BY <1>1, ExistingIsGood, FailedIsGood
  <1> HIDE DEF row
  <1>3. /\ QueueInv' /\ queue'[j] = row /\ \A i \in Jobs \ {j} : queue'[i] = queue[i]
    BY <1>1, <1>2, RowStep DEF Active, Running
  <1>4. LeaseKept(j) /\ Settled(j)
    BY <1>1, <1>2, <1>3 DEF LeaseKept, Settled, Running
  <1> QED
    BY <1>3, <1>4, RowLeftAlone DEF StepKeeps

LEMMA ReclaimStep ==
    ASSUME QueueInv, NEW now \in Int, ReclaimExpired(now)
    PROVE  StepKeeps
  <1>1. PICK S \in SUBSET {j \in Jobs : Expired(j, now)} :
            queue' = [j \in Jobs |-> IF j \in S THEN Reclaimed(queue[j], now) ELSE queue[j]]
    BY DEF ReclaimExpired
  <1>2. \A j \in Jobs \ S : queue'[j] = queue[j]
    BY <1>1
  <1>3. \A j \in S : queue[j].status = "RUNNING" /\ queue'[j] = Reclaimed(queue[j], now)
    BY <1>1 DEF Expired, Running
  <1>4. ASSUME NEW j \in S
        PROVE  /\ GoodRow(queue'[j]) /\ queue'[j].status \in {"DEAD", "RETRY"}
               /\ queue'[j].request = queue[j].request
    <2>1. /\ j \in Jobs /\ queue[j] \in Row
          /\ queue[j].attemptCount <= queue[j].maxAttempts
      BY <1>3, ExistingIsGood
    <2>2. now + Backoff(queue[j].attemptCount) \in Int
      BY BackoffType, DurationAssumption
    <2> QED
      BY <1>3, <2>1, <2>2, FailedIsGood DEF Reclaimed
  <1>5. ActiveDedupe'
    <2>1. \A j \in Jobs : Active(j)' => Active(j) /\ queue'[j].request = queue[j].request
      BY <1>2, <1>3, <1>4 DEF Active, Waiting, Running
    <2> QED
      BY <2>1, NoNewKeys DEF QueueInv
  <1>6. QueueInv'
    <2>1. queue' = [j \in Jobs |-> queue'[j]]
      BY <1>1
    <2> QED
      BY <1>2, <1>4, <1>5, <2>1, TableStep
  <1>7. \A j \in S : LeaseKept(j) /\ Settled(j)
    BY <1>3, <1>4 DEF LeaseKept, Settled, Running
  <1> QED
    BY <1>2, <1>6, <1>7, RowLeftAlone DEF StepKeeps

LEMMA RetryDeadLetterStep ==
    ASSUME QueueInv, NEW now \in Int, NEW j \in Jobs, RetryDeadLetter(j, now)
    PROVE  StepKeeps
  <1> DEFINE row == Revived(queue[j], now)
  <1>1. /\ queue[j].status = "DEAD" /\ queue' = [queue EXCEPT ![j] = row]
        /\ ~DedupeConflict(j, queue[j].request.dedupeKey)
    BY DEF RetryDeadLetter
  <1>2. /\ GoodRow(row) /\ row.status = "RETRY" /\ row.request = queue[j].request
        /\ row.attemptCount = queue[j].attemptCount
        /\ row.attemptCount < row.maxAttempts
    BY <1>1, ExistingIsGood, RevivedIsGood DEF Row
  <1> HIDE DEF row
  <1>3. /\ QueueInv' /\ queue'[j] = row /\ \A i \in Jobs \ {j} : queue'[i] = queue[i]
    BY <1>1, <1>2, RowStep
  <1>4. LeaseKept(j) /\ Settled(j)
    BY <1>1, <1>2, <1>3 DEF LeaseKept, Settled, Running
  <1> QED
    BY <1>3, <1>4, RowLeftAlone DEF StepKeeps

LEMMA KillStep ==
    ASSUME QueueInv, NEW c \in Conns, KillConnectionJobs(c)
    PROVE  StepKeeps
  <1>1. \A j \in Jobs \ JobsOf(c) : queue'[j] = queue[j]
    BY DEF KillConnectionJobs
  <1>2. ASSUME NEW j \in JobsOf(c)
        PROVE  /\ Waiting(j) /\ GoodRow(queue'[j]) /\ queue'[j].status = "DEAD"
    <2>1. j \in Jobs /\ Waiting(j) /\ queue'[j] = Finished(queue[j], "DEAD")
      BY DEF KillConnectionJobs, JobsOf
    <2>2. queue[j] \in Row /\ queue[j].attemptCount <= queue[j].maxAttempts
      BY <2>1, ExistingIsGood DEF Waiting
    <2> QED
      BY <2>1, <2>2, FinishedIsGood
  <1>3. ActiveDedupe'
    <2>1. \A j \in Jobs : Active(j)' => Active(j) /\ queue'[j].request = queue[j].request
      BY <1>1, <1>2 DEF Active, Waiting, Running
    <2> QED
      BY <2>1, NoNewKeys DEF QueueInv
  <1>4. QueueInv'
    <2>1. queue' = [j \in Jobs |-> queue'[j]]
      BY DEF KillConnectionJobs
    <2> QED
      BY <1>1, <1>2, <1>3, <2>1, TableStep
  <1>5. \A j \in JobsOf(c) : LeaseKept(j) /\ Settled(j)
    BY <1>2 DEF LeaseKept, Settled, Running, Waiting
  <1> QED
    BY <1>1, <1>4, <1>5, RowLeftAlone DEF StepKeeps

-----------------------------------------------------------------------------
(***************************************************************************)
(* The theorems.                                                           *)
(***************************************************************************)
\* Whatever statement runs next, the invariant and the action properties hold.
LEMMA NextKeeps == ASSUME QueueInv, Next PROVE StepKeeps
  <1>1. Instants \subseteq Int /\ \A now \in Instants, d \in RetryDelays : now + d \in Int
    BY InstantsAssumption
  <1>2. CASE \E req \in Requests, at \in Instants : Insert(req, at)
    BY <1>1, <1>2, InsertStep
  <1>3. CASE \E w \in Workers, now \in Instants : Claim(w, HandledJobTypes, now)
    BY <1>1, <1>3, ClaimStep DEF Claim
  <1>4. ASSUME NEW w \in Workers, NEW j \in Jobs, NEW now \in Instants,
               \/ Heartbeat(w, j, now)
               \/ Complete(w, j, now)
               \/ Fail(w, j, now, None)
               \/ \E d \in RetryDelays : Fail(w, j, now, now + d)
        PROVE  StepKeeps
    BY <1>1, <1>4, HeartbeatStep, CompleteStep, FailStep
  <1>5. CASE \E now \in Instants : ReclaimExpired(now)
    BY <1>1, <1>5, ReclaimStep
  <1>6. CASE \E j \in Jobs, now \in Instants : RetryDeadLetter(j, now)
    BY <1>1, <1>6, RetryDeadLetterStep
  <1>7. CASE \E c \in Conns : JobsOf(c) # {} /\ KillConnectionJobs(c)
    BY <1>7, KillStep
  <1> QED
    BY <1>2, <1>3, <1>4, <1>5, <1>6, <1>7 DEF Next

LEMMA StutterKeeps == ASSUME QueueInv, UNCHANGED vars PROVE StepKeeps
  <1>1. queue' = queue
    BY DEF vars
  <1>2. QueueInv'
    BY <1>1 DEF QueueInv, TypeOK, ActiveDedupe, WaitingIsClaimable,
                LeaseExactlyWhileRunning, Exists, Active, Waiting, Running, Terminal
  <1> QED
    BY <1>1, <1>2, RowLeftAlone DEF StepKeeps

LEMMA InitKeeps == ASSUME Init PROVE QueueInv
  <1>1. \A j \in Jobs : queue[j].status = "ABSENT"
    BY DEF Init, NoRow
  <1>2. TypeOK
    BY DEF Init, TypeOK
  <1>3. GoodRows /\ ActiveDedupe
    BY <1>1 DEF GoodRows, Exists, ActiveDedupe, Active, Waiting, Running
  <1> QED
    BY <1>2, <1>3, ByRows

\* The inductive invariant holds in every reachable table.
THEOREM QueueInvariant == Spec => []QueueInv
  <1>1. QueueInv /\ [Next]_vars => QueueInv'
    BY NextKeeps, StutterKeeps DEF StepKeeps
  <1> QED
    BY <1>1, InitKeeps, PTL DEF Spec

\* Every row of the table keeps its type, whatever clocks the callers have.
THEOREM TypeCorrect == Spec => []TypeOK
  <1>1. QueueInv => TypeOK
    BY DEF QueueInv
  <1> QED
    BY <1>1, QueueInvariant, PTL

\* Active dedupe keys are unique: inserts and operator retries never put a
\* second active row under the key of a pending, retrying or running one.
THEOREM DedupeUnique == Spec => []ActiveDedupe
  <1>1. QueueInv => ActiveDedupe
    BY DEF QueueInv
  <1> QED
    BY <1>1, QueueInvariant, PTL

\* No waiting row is stranded with its attempts used up.
THEOREM NoStrandedJob == Spec => []WaitingIsClaimable
  <1>1. QueueInv => WaitingIsClaimable
    BY DEF QueueInv
  <1> QED
    BY <1>1, QueueInvariant, PTL

\* Rows are leased exactly while they run, within their attempt budget.
THEOREM LeaseDiscipline == Spec => []LeaseExactlyWhileRunning
  <1>1. QueueInv => LeaseExactlyWhileRunning
    BY DEF QueueInv
  <1> QED
    BY <1>1, QueueInvariant, PTL

\* A running lease is never taken over, shortened or renumbered, for any skew
\* between the clocks of the callers.
THEOREM LeaseNeverTakenOver == Spec => NoLeaseTakeover
  <1>1. QueueInv /\ [Next]_vars => [\A j \in Jobs : LeaseKept(j)]_vars
    BY NextKeeps DEF StepKeeps
  <1> QED
    BY <1>1, QueueInvariant, PTL DEF Spec, NoLeaseTakeover

\* Settled jobs stay settled but for an operator's retry with a fresh attempt.
THEOREM SettledStaysSettled == Spec => SettledIsFinal
  <1>1. QueueInv /\ [Next]_vars => [\A j \in Jobs : Settled(j)]_vars
    BY NextKeeps DEF StepKeeps
  <1> QED
    BY <1>1, QueueInvariant, PTL DEF Spec, SettledIsFinal

-----------------------------------------------------------------------------
(***************************************************************************)
(* The refinement of JobLifecycle.                                         *)
(***************************************************************************)
\* The stage of a row is determined by its status.
LEMMA Stages ==
    ASSUME NEW row
    PROVE  /\ row.status = "ABSENT" => StageOf(row) = "unknown"
           /\ row.status \in {"PENDING", "RETRY"} => StageOf(row) = "waiting"
           /\ row.status = "RUNNING" => StageOf(row) = "trying"
           /\ row.status = "SUCCEEDED" => StageOf(row) = "done"
           /\ row.status = "DEAD" => StageOf(row) = "dead"
           /\ row.status # "ABSENT" => /\ TriesOf(row) = row.attemptCount
                                       /\ BudgetOf(row) = row.maxAttempts
           /\ row.status = "ABSENT" => TriesOf(row) = 0 /\ BudgetOf(row) = 0
  BY DEF StageOf, TriesOf, BudgetOf

LEMMA OneRow ==
    ASSUME QueueInv, NEW j \in Jobs, NEW row, queue' = [queue EXCEPT ![j] = row]
    PROVE  queue'[j] = row /\ \A i \in Jobs \ {j} : queue'[i] = queue[i]
  BY DEF QueueInv, TypeOK

LEMMA InsertMaps ==
    ASSUME QueueInv, NEW req \in Requests, NEW at \in Int, Insert(req, at)
    PROVE  \E j \in Jobs : Lifecycle!Submit(j)
  <1>1. PICK j \in Jobs : ~Exists(j) /\ queue' = [queue EXCEPT ![j] = NewRow(req, at)]
    BY DEF Insert, NewRow
  <1>2. queue'[j] = NewRow(req, at) /\ \A i \in Jobs \ {j} : queue'[i] = queue[i]
    BY <1>1, OneRow
  <1>3. /\ queue'[j].status = "PENDING" /\ queue'[j].attemptCount = 0
        /\ queue'[j].maxAttempts \in Nat \ {0}
    BY <1>2, InsertedIsGood DEF NewRow, GoodRow, Row
  <1>4. /\ StageOf(queue[j]) = "unknown" /\ TriesOf(queue[j]) = 0
        /\ StageOf(queue'[j]) = "waiting" /\ TriesOf(queue'[j]) = 0
        /\ BudgetOf(queue'[j]) > 0
    BY <1>1, <1>3, Stages DEF Exists
  <1> QED
    BY <1>2, <1>4 DEF Lifecycle!Submit

LEMMA ClaimMaps ==
    ASSUME QueueInv, NEW w \in Workers, NEW now \in Int, NEW types, NEW j \in Jobs,
           ClaimJob(w, j, types, now)
    PROVE  Lifecycle!Try(j)
  <1>1. /\ queue[j].status \in {"PENDING", "RETRY"} /\ AttemptsLeft(queue[j])
        /\ queue' = [queue EXCEPT ![j] = Claimed(queue[j], w, now)]
    BY DEF ClaimJob, Claimable, Waiting
  <1>2. /\ queue'[j] = Claimed(queue[j], w, now)
        /\ \A i \in Jobs \ {j} : queue'[i] = queue[i]
    BY <1>1, OneRow
  <1>3. /\ queue'[j].status = "RUNNING"
        /\ queue'[j].attemptCount = queue[j].attemptCount + 1
        /\ queue'[j].maxAttempts = queue[j].maxAttempts
    <2>1. queue[j] \in Row
      BY <1>1, ExistingIsGood
    <2> QED
      BY <1>2, <2>1 DEF Claimed, Row
  <1>4. /\ StageOf(queue[j]) = "waiting" /\ TriesOf(queue[j]) < BudgetOf(queue[j])
        /\ StageOf(queue'[j]) = "trying" /\ TriesOf(queue'[j]) = TriesOf(queue[j]) + 1
        /\ BudgetOf(queue'[j]) = BudgetOf(queue[j])
    BY <1>1, <1>3, Stages DEF AttemptsLeft
  <1> QED
    BY <1>2, <1>4 DEF Lifecycle!Try

LEMMA HeartbeatMaps ==
    ASSUME QueueInv, NEW w, NEW now \in Int, NEW j \in Jobs, Heartbeat(w, j, now)
    PROVE  UNCHANGED Lifecycle!lifecycleVars
  <1>1. queue[j].status = "RUNNING" /\ queue' = [queue EXCEPT ![j] = Extended(queue[j], now)]
    BY DEF Heartbeat, OwnsLease, Running
  <1>2. /\ queue'[j] = Extended(queue[j], now)
        /\ \A i \in Jobs \ {j} : queue'[i] = queue[i]
    BY <1>1, OneRow
  <1>3. /\ queue'[j].status = "RUNNING"
        /\ queue'[j].attemptCount = queue[j].attemptCount
        /\ queue'[j].maxAttempts = queue[j].maxAttempts
    BY <1>1, <1>2, ExistingIsGood, ExtendedIsGood
  <1>4. \A i \in Jobs : /\ StageOf(queue'[i]) = StageOf(queue[i])
                         /\ TriesOf(queue'[i]) = TriesOf(queue[i])
                         /\ BudgetOf(queue'[i]) = BudgetOf(queue[i])
    BY <1>1, <1>2, <1>3, Stages
  <1> QED
    BY <1>4 DEF Lifecycle!lifecycleVars

LEMMA CompleteMaps ==
    ASSUME QueueInv, NEW w, NEW now \in Int, NEW j \in Jobs, Complete(w, j, now)
    PROVE  Lifecycle!Succeed(j)
  <1>1. /\ queue[j].status = "RUNNING"
        /\ queue' = [queue EXCEPT ![j] = Finished(queue[j], "SUCCEEDED")]
    BY DEF Complete, OwnsLease, Running
  <1>2. /\ queue'[j] = Finished(queue[j], "SUCCEEDED")
        /\ \A i \in Jobs \ {j} : queue'[i] = queue[i]
    BY <1>1, OneRow
  <1>3. /\ queue'[j].status = "SUCCEEDED"
        /\ queue'[j].attemptCount = queue[j].attemptCount
        /\ queue'[j].maxAttempts = queue[j].maxAttempts
    BY <1>1, <1>2, ExistingIsGood, FinishedIsGood
  <1>4. /\ StageOf(queue[j]) = "trying" /\ StageOf(queue'[j]) = "done"
        /\ TriesOf(queue'[j]) = TriesOf(queue[j])
        /\ BudgetOf(queue'[j]) = BudgetOf(queue[j])
    BY <1>1, <1>3, Stages
  <1> QED
    BY <1>2, <1>4 DEF Lifecycle!Succeed

\* Attempts at the jobs of S end without success, in fail or in reclaimExpired.
LEMMA AttemptsFailMaps ==
    ASSUME QueueInv, NEW S \in SUBSET Jobs,
           \A j \in Jobs \ S : queue'[j] = queue[j],
           \A j \in S : /\ queue[j].status = "RUNNING"
                        /\ \E at \in Int \cup {None} : queue'[j] = Failed(queue[j], at)
    PROVE  \E Retry, Bury \in SUBSET Jobs : Lifecycle!GiveUp(Retry, Bury)
  <1> DEFINE Retry == {j \in S : queue'[j].status = "RETRY"}
             Bury == S \ Retry
  <1>1. ASSUME NEW j \in S
        PROVE  /\ StageOf(queue[j]) = "trying"
               /\ j \in Retry => /\ StageOf(queue'[j]) = "waiting"
                                 /\ TriesOf(queue[j]) < BudgetOf(queue[j])
               /\ j \in Bury => StageOf(queue'[j]) = "dead"
               /\ TriesOf(queue'[j]) = TriesOf(queue[j])
               /\ BudgetOf(queue'[j]) = BudgetOf(queue[j])
    <2>1. PICK at \in Int \cup {None} : queue'[j] = Failed(queue[j], at)
      OBVIOUS
    <2>2. /\ queue[j] \in Row /\ queue[j].status = "RUNNING"
          /\ queue[j].attemptCount <= queue[j].maxAttempts
      BY ExistingIsGood
    <2>3. /\ queue'[j].status = "DEAD"
               \/ (queue'[j].status = "RETRY" /\ AttemptsLeft(queue[j]))
          /\ queue'[j].attemptCount = queue[j].attemptCount
          /\ queue'[j].maxAttempts = queue[j].maxAttempts
      BY <2>1, <2>2, FailedIsGood
    <2> QED
      BY <2>2, <2>3, Stages DEF AttemptsLeft
  <1>2. Lifecycle!GiveUp(Retry, Bury)
    <2> HIDE DEF Retry
    <2>1. Retry \subseteq S
      BY DEF Retry
    <2> QED
      BY <1>1, <2>1 DEF Lifecycle!GiveUp
  <1> QED
    BY <1>2

LEMMA RetryDeadLetterMaps ==
    ASSUME QueueInv, NEW now \in Int, NEW j \in Jobs, RetryDeadLetter(j, now)
    PROVE  Lifecycle!Revive(j)
  <1>1. queue[j].status = "DEAD" /\ queue' = [queue EXCEPT ![j] = Revived(queue[j], now)]
    BY DEF RetryDeadLetter
  <1>2. /\ queue'[j] = Revived(queue[j], now)
        /\ \A i \in Jobs \ {j} : queue'[i] = queue[i]
    BY <1>1, OneRow
  <1>3. /\ queue'[j].status = "RETRY"
        /\ queue'[j].attemptCount = queue[j].attemptCount
        /\ queue'[j].maxAttempts > queue[j].attemptCount
        /\ queue'[j].maxAttempts >= queue[j].maxAttempts
    BY <1>1, <1>2, ExistingIsGood, RevivedIsGood
  <1>4. /\ StageOf(queue[j]) = "dead" /\ StageOf(queue'[j]) = "waiting"
        /\ TriesOf(queue'[j]) = TriesOf(queue[j])
        /\ BudgetOf(queue'[j]) > TriesOf(queue[j])
        /\ BudgetOf(queue'[j]) >= BudgetOf(queue[j])
    BY <1>1, <1>3, Stages
  <1> QED
    BY <1>2, <1>4 DEF Lifecycle!Revive

LEMMA KillMaps ==
    ASSUME QueueInv, NEW c \in Conns, KillConnectionJobs(c)
    PROVE  \E S \in SUBSET Jobs : Lifecycle!Cancel(S)
  <1>1. \A j \in Jobs \ JobsOf(c) : queue'[j] = queue[j]
    BY DEF KillConnectionJobs
  <1>2. ASSUME NEW j \in JobsOf(c)
        PROVE  /\ StageOf(queue[j]) = "waiting" /\ StageOf(queue'[j]) = "dead"
               /\ TriesOf(queue'[j]) = TriesOf(queue[j])
               /\ BudgetOf(queue'[j]) = BudgetOf(queue[j])
    <2>1. /\ j \in Jobs /\ queue[j].status \in {"PENDING", "RETRY"}
          /\ queue'[j] = Finished(queue[j], "DEAD")
      BY DEF KillConnectionJobs, JobsOf, Waiting
    <2>2. /\ queue'[j].status = "DEAD"
          /\ queue'[j].attemptCount = queue[j].attemptCount
          /\ queue'[j].maxAttempts = queue[j].maxAttempts
      BY <2>1, ExistingIsGood, FinishedIsGood
    <2> QED
      BY <2>1, <2>2, Stages
  <1>3. JobsOf(c) \subseteq Jobs
    BY DEF JobsOf
  <1>4. Lifecycle!Cancel(JobsOf(c))
    BY <1>1, <1>2, <1>3 DEF Lifecycle!Cancel
  <1> QED
    BY <1>3, <1>4

\* Every statement on the table is a step of the life cycle, or changes nothing
\* that the life cycle shows.
LEMMA NextMaps ==
    ASSUME QueueInv, Next
    PROVE  Lifecycle!Next \/ UNCHANGED Lifecycle!lifecycleVars
  <1>1. Instants \subseteq Int /\ \A now \in Instants, d \in RetryDelays : now + d \in Int
    BY InstantsAssumption
  <1>2. CASE \E req \in Requests, at \in Instants : Insert(req, at)
    BY <1>1, <1>2, InsertMaps DEF Lifecycle!Next
  <1>3. CASE \E w \in Workers, now \in Instants : Claim(w, HandledJobTypes, now)
    BY <1>1, <1>3, ClaimMaps DEF Claim, Lifecycle!Next
  <1>4. ASSUME NEW w \in Workers, NEW j \in Jobs, NEW now \in Instants,
               Heartbeat(w, j, now)
        PROVE  UNCHANGED Lifecycle!lifecycleVars
    BY <1>1, <1>4, HeartbeatMaps
  <1>5. ASSUME NEW w \in Workers, NEW j \in Jobs, NEW now \in Instants,
               Complete(w, j, now)
        PROVE  Lifecycle!Next
    BY <1>1, <1>5, CompleteMaps DEF Lifecycle!Next
  <1>6. ASSUME NEW w \in Workers, NEW j \in Jobs, NEW now \in Instants,
               NEW retryAt \in Int \cup {None}, Fail(w, j, now, retryAt)
        PROVE  Lifecycle!Next
    <2>1. /\ queue[j].status = "RUNNING"
          /\ queue' = [queue EXCEPT ![j] = Failed(queue[j], retryAt)]
      BY <1>6 DEF Fail, OwnsLease, Running
    <2>2. /\ queue'[j] = Failed(queue[j], retryAt)
          /\ \A i \in Jobs \ {j} : queue'[i] = queue[i]
      BY <2>1, OneRow
    <2>3. \E Retry, Bury \in SUBSET Jobs : Lifecycle!GiveUp(Retry, Bury)
      <3> DEFINE S == {j}
      <3>1. \A i \in S : /\ queue[i].status = "RUNNING"
                         /\ \E at \in Int \cup {None} : queue'[i] = Failed(queue[i], at)
        BY <2>1, <2>2
      <3>2. S \in SUBSET Jobs /\ \A i \in Jobs \ S : queue'[i] = queue[i]
        BY <2>2
      <3> HIDE DEF S
      <3> QED
        BY <3>1, <3>2, AttemptsFailMaps
    <2> QED
      BY <2>3 DEF Lifecycle!Next
  <1>7. ASSUME NEW now \in Instants, ReclaimExpired(now)
        PROVE  Lifecycle!Next
    <2>1. PICK S \in SUBSET {j \in Jobs : Expired(j, now)} :
              queue' = [j \in Jobs |-> IF j \in S THEN Reclaimed(queue[j], now) ELSE queue[j]]
      BY <1>7 DEF ReclaimExpired
    <2>2. S \in SUBSET Jobs /\ \A j \in Jobs \ S : queue'[j] = queue[j]
      BY <2>1
    <2>3. ASSUME NEW j \in S
          PROVE  /\ queue[j].status = "RUNNING"
                 /\ \E at \in Int \cup {None} : queue'[j] = Failed(queue[j], at)
      <3>1. queue[j].status = "RUNNING" /\ queue'[j] = Reclaimed(queue[j], now)
        BY <2>1 DEF Expired, Running
      <3>2. now + Backoff(queue[j].attemptCount) \in Int
        BY <1>1, BackoffType, DurationAssumption
      <3> QED
        BY <3>1, <3>2 DEF Reclaimed
    <2>4. \E Retry, Bury \in SUBSET Jobs : Lifecycle!GiveUp(Retry, Bury)
      BY <2>2, <2>3, AttemptsFailMaps
    <2> QED
      BY <2>4 DEF Lifecycle!Next
  <1>8. CASE \E j \in Jobs, now \in Instants : RetryDeadLetter(j, now)
    BY <1>1, <1>8, RetryDeadLetterMaps DEF Lifecycle!Next
  <1>9. CASE \E c \in Conns : JobsOf(c) # {} /\ KillConnectionJobs(c)
    BY <1>9, KillMaps DEF Lifecycle!Next
  <1>10. \A now \in Instants, d \in RetryDelays : now + d \in Int \cup {None}
    BY <1>1
  <1> QED
    BY <1>2, <1>3, <1>4, <1>5, <1>6, <1>7, <1>8, <1>9, <1>10 DEF Next

\* The job queue implements the job life cycle.
THEOREM QueueImplementsLifecycle == Spec => ImplementsLifecycle
  <1>1. Init => Lifecycle!Init
    <2>1. SUFFICES ASSUME Init PROVE Lifecycle!Init
      OBVIOUS
    <2>2. \A j \in Jobs : queue[j].status = "ABSENT"
      BY <2>1 DEF Init, NoRow
    <2>3. \A j \in Jobs : /\ StageOf(queue[j]) = "unknown"
                          /\ TriesOf(queue[j]) = 0 /\ BudgetOf(queue[j]) = 0
      BY <2>2, Stages
    <2> QED
      BY <2>3 DEF Lifecycle!Init
  <1>2. QueueInv /\ [Next]_vars => [Lifecycle!Next]_(Lifecycle!lifecycleVars)
    <2>1. UNCHANGED vars => UNCHANGED Lifecycle!lifecycleVars
      BY DEF vars, Lifecycle!lifecycleVars
    <2> QED
      BY <2>1, NextMaps
  <1> QED
    BY <1>1, <1>2, QueueInvariant, PTL DEF Spec, ImplementsLifecycle, Lifecycle!Spec

Steady == Concurrency = 1 \/ faults = 0

\* What the rows keep while time passes.
SoundRow(row) ==
    /\ row \in Row
    /\ row.attemptCount <= row.maxAttempts
    /\ row.maxAttempts <= MaxAttemptCap
    /\ row.status = "RUNNING" =>
         /\ row.lockedBy \in Workers
         /\ row.heartbeatAt \in Int /\ row.heartbeatAt <= 0
         /\ row.leaseExpiresAt \in Int

RowsAreSound == \A j \in Jobs : queue[j] = NoRow \/ SoundRow(queue[j])

\* The row is leased to the task's worker, for its attempt.  Unless a heartbeat
\* has failed, the lease outlives the next heartbeat, and then the handler.
Holds(t, row) ==
    /\ row.status = "RUNNING"
    /\ row.lockedBy = t.worker
    /\ row.attemptCount = t.attempt
    /\ row.heartbeatAt <= t.endedAt
    /\ t.missed \/ t.step # "handler" \/ (~t.leaseLost /\ row.leaseExpiresAt > t.dueIn)
    /\ t.missed \/ t.step = "handler" \/ row.leaseExpiresAt > t.endedAt

\* The attempt is over for the table, and the guard of complete() and fail()
\* does not take the row for the task's.
Lost(t, row) ==
    /\ row.status # "ABSENT"
    /\ row.attemptCount >= t.attempt
    /\ row.status = "RUNNING" => row.attemptCount > t.attempt
    /\ t.missed \/ (t.step # "handler" /\ t.endedAt < 0)
    /\ ~(row.status = "RUNNING" /\ row.lockedBy = t.worker /\ row.heartbeatAt <= t.endedAt)

Stands(t, row) == Holds(t, row) \/ Lost(t, row)

TasksStand == \A t \in tasks : Stands(t, queue[t.job])

OneTaskPerAttempt ==
    \A t, u \in tasks : t.job = u.job /\ t.attempt = u.attempt => t = u

\* The loop claims only while it has a free slot.
SlotsCounted ==
    /\ IsFiniteSet(tasks)
    /\ \A w \in Workers : /\ Cardinality(InFlight(w)) <= Concurrency
                          /\ loop[w] = "claim" => ~Full(w)

TasksAreServed ==
    \A t \in tasks : Serving(t.worker) /\ (t.step = "handler" => t.endedAt = 0)

\* Without faults no heartbeat is missed, and every leased row has its task.
RowsAreServed ==
    /\ \A t \in tasks : ~t.missed /\ ~t.leaseLost
    /\ \A j \in Jobs : Running(j) =>
         \E t \in tasks : /\ t.job = j
                          /\ t.worker = queue[j].lockedBy
                          /\ t.attempt = queue[j].attemptCount

WorkerInv ==
    /\ WorkerTypeOK
    /\ RowsAreSound
    /\ SlotsCounted
    /\ TasksAreServed
    /\ Steady => TasksStand /\ OneTaskPerAttempt
    /\ faults = 0 => RowsAreServed

-----------------------------------------------------------------------------
(***************************************************************************)
(* What the statements make of a row.                                      *)
(***************************************************************************)
\* A row that an attempt has left: nobody holds it, and the attempt stays
\* counted.
Released(row, new) ==
    /\ SoundRow(new)
    /\ new.status \in {"RETRY", "SUCCEEDED", "DEAD"}
    /\ new.attemptCount = row.attemptCount

\* Only the placeholder is absent.
LEMMA SoundShape ==
    ASSUME NEW row, SoundRow(row)
    PROVE  row.status \in Status /\ row.status # "ABSENT" /\ row.attemptCount \in Nat
  BY DEF SoundRow, Row, Status

LEMMA FailedIsReleased ==
    ASSUME NEW row, SoundRow(row), NEW retryAt \in Int \cup {None}
    PROVE  Released(row, Failed(row, retryAt))
  BY FailedIsGood DEF SoundRow, Released, GoodRow

LEMMA FinishedIsReleased ==
    ASSUME NEW row, SoundRow(row), NEW status \in {"SUCCEEDED", "DEAD"}
    PROVE  Released(row, Finished(row, status))
  BY FinishedIsGood DEF SoundRow, Released, GoodRow

LEMMA RevivedIsReleased ==
    ASSUME NEW row, SoundRow(row), row.attemptCount < MaxAttemptCap, NEW now \in Int
    PROVE  Released(row, Revived(row, now))
  <1> DEFINE granted == Greatest(row.maxAttempts, row.attemptCount + 1)
             base == [row EXCEPT !.maxAttempts = granted]
  <1>1. row \in Row /\ row.attemptCount <= row.maxAttempts
    BY DEF SoundRow
  <1>2. /\ granted \in Nat \ {0} /\ granted > row.attemptCount /\ granted <= MaxAttemptCap
    BY <1>1, BoundsAssumption DEF Greatest, SoundRow, Row
  <1> HIDE DEF granted
  <1>3. base \in Row /\ base.maxAttempts = granted /\ base.attemptCount = row.attemptCount
    BY <1>1, <1>2 DEF Row
  <1>4. Revived(row, now) = Retried(base, now)
    BY <1>1 DEF Revived, Retried, Unlocked, Row, granted
  <1>5. AttemptsLeft(base)
    BY <1>2, <1>3 DEF AttemptsLeft
  <1> HIDE DEF base
  <1>6. /\ GoodRow(Retried(base, now)) /\ Retried(base, now).status = "RETRY"
        /\ Retried(base, now).attemptCount = row.attemptCount
        /\ Retried(base, now).maxAttempts = granted
    BY <1>3, <1>5, RetriedIsGood
  <1> QED
    BY <1>2, <1>4, <1>6 DEF Released, SoundRow, GoodRow

\* A claim starts one more attempt of a row within its budget.
LEMMA ClaimedIsSound ==
    ASSUME NEW row, SoundRow(row), AttemptsLeft(row), NEW w \in Workers,
           NEW now \in Int, now <= 0
    PROVE  LET new == Claimed(row, w, now)
           IN  /\ SoundRow(new)
               /\ new.status = "RUNNING"
               /\ new.lockedBy = w
               /\ new.attemptCount = row.attemptCount + 1
               /\ new.heartbeatAt = now
               /\ new.leaseExpiresAt = now + LeaseDuration
  <1> DEFINE new == Claimed(row, w, now)
             count == row.attemptCount + 1
             lease == now + LeaseDuration
  <1>1. count \in Nat /\ count <= row.maxAttempts /\ row \in Row /\ lease \in Int
    BY DurationAssumption DEF SoundRow, Row, AttemptsLeft
  <1>2. new = [row EXCEPT !.status = "RUNNING", !.lockedBy = w,
                !.heartbeatAt = now, !.leaseExpiresAt = lease,
                !.finished = FALSE, !.attemptCount = count]
    BY DEF Claimed
  <1> HIDE DEF new, count, lease
  <1>3. new \in Row
    BY <1>1, <1>2 DEF Row, Status
  <1>4. /\ new.status = "RUNNING" /\ new.lockedBy = w
        /\ new.heartbeatAt = now /\ new.leaseExpiresAt = lease
        /\ new.attemptCount = count /\ new.maxAttempts = row.maxAttempts
    BY <1>1, <1>2 DEF Row
  <1>5. SoundRow(new)
    BY <1>1, <1>3, <1>4 DEF SoundRow
  <1> QED
    BY <1>4, <1>5 DEF new, count, lease

\* A heartbeat makes the lease last for LeaseDuration at least.
LEMMA ExtendedIsSound ==
    ASSUME NEW row, SoundRow(row), row.status = "RUNNING", NEW now \in Int, now <= 0
    PROVE  LET new == Extended(row, now)
           IN  /\ SoundRow(new)
               /\ new.status = "RUNNING"
               /\ new.lockedBy = row.lockedBy
               /\ new.attemptCount = row.attemptCount
               /\ new.heartbeatAt = now
               /\ new.leaseExpiresAt >= now + LeaseDuration
  <1> DEFINE lease == Greatest(row.leaseExpiresAt, now + LeaseDuration)
             new == Extended(row, now)
  <1>1. row \in Row /\ row.leaseExpiresAt \in Int /\ row.lockedBy \in Workers
    BY DEF SoundRow
  <1>2. lease \in Int /\ lease >= now + LeaseDuration
    BY <1>1, DurationAssumption DEF Greatest
  <1>3. new = [row EXCEPT !.heartbeatAt = now, !.leaseExpiresAt = lease]
    BY <1>1 DEF Extended
  <1> HIDE DEF new, lease
  <1>4. new \in Row
    BY <1>1, <1>2, <1>3 DEF Row
  <1>5. /\ new.status = row.status /\ new.lockedBy = row.lockedBy
        /\ new.heartbeatAt = now /\ new.leaseExpiresAt = lease
        /\ new.attemptCount = row.attemptCount /\ new.maxAttempts = row.maxAttempts
    BY <1>1, <1>3 DEF Row
  <1>6. SoundRow(new)
    BY <1>1, <1>2, <1>4, <1>5 DEF SoundRow
  <1> QED
    BY <1>2, <1>5, <1>6 DEF new

\* Time moves instants towards the past, and nothing else.
LEMMA EarlierType ==
    ASSUME NEW i \in Int
    PROVE  /\ Earlier(i) \in Int
           /\ Earlier(i) <= i
           /\ Earlier(i) = IF i > -MaxDelay THEN i - 1 ELSE i
  BY WorkerOptions DEF Earlier

LEMMA AgedIsSound ==
    ASSUME NEW row, SoundRow(row)
    PROVE  LET new == Aged(row)
           IN  /\ SoundRow(new)
               /\ new.status = row.status
               /\ new.lockedBy = row.lockedBy
               /\ new.attemptCount = row.attemptCount
               /\ row.status = "RUNNING" => new.heartbeatAt = Earlier(row.heartbeatAt)
               /\ row.status = "RUNNING" => new.leaseExpiresAt = Earlier(row.leaseExpiresAt)
  <1> DEFINE new == Aged(row)
             at == Earlier(row.availableAt)
             beat == Earlier(row.heartbeatAt)
             lease == Earlier(row.leaseExpiresAt)
  <1>1. row \in Row /\ row # NoRow
    BY SoundShape DEF SoundRow, NoRow
  <1>2. new = [row EXCEPT !.availableAt = at, !.heartbeatAt = beat, !.leaseExpiresAt = lease]
    BY <1>1 DEF Aged, Row
  <1>3. Earlier(None) = None
    BY NoneAssumption DEF Earlier
  <1>4. at \in Int /\ beat \in Int \cup {None} /\ lease \in Int \cup {None}
    BY <1>1, <1>3, EarlierType DEF Row
  <1>5. row.status = "RUNNING" => /\ beat \in Int /\ beat <= 0 /\ lease \in Int
    BY EarlierType DEF SoundRow
  <1> HIDE DEF new, at, beat, lease
  <1>6. new \in Row
    BY <1>1, <1>2, <1>4 DEF Row
  <1>7. /\ new.status = row.status /\ new.lockedBy = row.lockedBy
        /\ new.heartbeatAt = beat /\ new.leaseExpiresAt = lease
        /\ new.attemptCount = row.attemptCount /\ new.maxAttempts = row.maxAttempts
    BY <1>1, <1>2 DEF Row
  <1>8. SoundRow(new)
    BY <1>5, <1>6, <1>7 DEF SoundRow
  <1> QED
    BY <1>7, <1>8 DEF new, beat, lease

-----------------------------------------------------------------------------
(***************************************************************************)
(* What becomes of a task when its row changes.                            *)
(***************************************************************************)
\* Once lost, a row that is released stays lost, and one that is given up
\* while its task may still work is lost from then on.
LEMMA ReleasedIsLost ==
    ASSUME NEW t \in Task, NEW row, NEW new, SoundRow(row), Stands(t, row), Released(row, new),
           t.missed \/ (t.step # "handler" /\ t.endedAt < 0)
    PROVE  Lost(t, new)
  BY SoundShape DEF Stands, Holds, Lost, Released

\* A row whose lease has run out has a task that missed a heartbeat or is over.
LEMMA ExpiredIsLost ==
    ASSUME NEW t \in Task, NEW row, NEW new, SoundRow(row), Stands(t, row), Released(row, new),
           row.status = "RUNNING", row.leaseExpiresAt <= 0
    PROVE  Lost(t, new)
  <1>1. t.missed \/ (t.step # "handler" /\ t.endedAt < 0)
    BY DEF Stands, Holds, Lost, SoundRow, Task
  <1> QED
    BY <1>1, ReleasedIsLost

\* A row that nobody holds has lost all its tasks.
LEMMA WaitingIsLost ==
    ASSUME NEW t, NEW row, NEW new, Stands(t, row), Released(row, new), row.status # "RUNNING"
    PROVE  Lost(t, new)
  BY DEF Stands, Holds, Lost, Released

\* The guard of heartbeat(), complete() and fail() tells held from lost rows.
LEMMA OwnerHolds ==
    ASSUME NEW t, Stands(t, queue[t.job]), OwnsLease(t.worker, t.job, t.endedAt)
    PROVE  Holds(t, queue[t.job])
  BY DEF Stands, Lost, OwnsLease, Running

\* A row claimed by another worker, or after the task was over, stays lost.
LEMMA ClaimedStaysLost ==
    ASSUME NEW t \in Task, NEW row, SoundRow(row), AttemptsLeft(row), Stands(t, row),
           row.status # "RUNNING", NEW w \in Workers, t.worker # w \/ ~t.missed
    PROVE  Lost(t, Claimed(row, w, 0))
  <1> DEFINE new == Claimed(row, w, 0)
  <1>1. /\ new.status = "RUNNING" /\ new.lockedBy = w /\ new.heartbeatAt = 0
        /\ new.attemptCount = row.attemptCount + 1
    BY ClaimedIsSound
  <1>2. Lost(t, row)
    BY DEF Stands, Holds
  <1>3. row.attemptCount \in Nat /\ t.attempt \in Nat /\ t.endedAt \in Int
    BY BoundsAssumption, WorkerOptions DEF SoundRow, Row, Task
  <1> HIDE DEF new
  <1> QED
    BY <1>1, <1>2, <1>3 DEF Lost, new

-----------------------------------------------------------------------------
(***************************************************************************)
(* Slots.                                                                  *)
(***************************************************************************)
LEMMA InFlightIsFinite ==
    ASSUME IsFiniteSet(tasks), NEW w
    PROVE  IsFiniteSet(InFlight(w)) /\ Cardinality(InFlight(w)) \in Nat
  <1>1. InFlight(w) \subseteq tasks
    BY DEF InFlight
  <1> QED
    BY <1>1, FS_Subset, FS_CardinalityType

\* Tasks that end free their slots.
LEMMA FewerTasks ==
    ASSUME IsFiniteSet(tasks), tasks' \subseteq tasks, NEW w
    PROVE  IsFiniteSet(tasks') /\ Cardinality(InFlight(w)') <= Cardinality(InFlight(w))
  <1>1. InFlight(w)' \subseteq InFlight(w)
    BY DEF InFlight
  <1> QED
    BY <1>1, FS_Subset, InFlightIsFinite

\* A task that is replaced by its next state keeps its slot.
LEMMA SameTask ==
    ASSUME IsFiniteSet(tasks), NEW t \in tasks, NEW u, u.worker = t.worker, Replace(t, u),
           NEW w
    PROVE  IsFiniteSet(tasks') /\ Cardinality(InFlight(w)') <= Cardinality(InFlight(w))
  <1>1. IsFiniteSet(tasks')
    <2>1. IsFiniteSet(tasks \ {t})
      BY FS_RemoveElement
    <2>2. IsFiniteSet((tasks \ {t}) \cup {u})
      BY <2>1, FS_AddElement
    <2> QED
      BY <2>2 DEF Replace
  <1>2. CASE w = t.worker
    <2> DEFINE old == InFlight(w)
               rest == old \ {t}
               new == InFlight(w)'
    <2>1. IsFiniteSet(old) /\ t \in old
      BY <1>2, InFlightIsFinite DEF InFlight
    <2>2. IsFiniteSet(rest) /\ Cardinality(rest) = Cardinality(old) - 1
      BY <2>1, FS_RemoveElement
    <2>3. new = rest \cup {u}
      BY <1>2 DEF InFlight, Replace
    <2>4. /\ Cardinality(old) \in Nat /\ Cardinality(rest) \in Nat
      BY <2>1, <2>2, FS_CardinalityType
    <2>5. Cardinality(new) = Cardinality(rest) \/ Cardinality(new) = Cardinality(rest) + 1
      BY <2>2, <2>3, FS_AddElement
    <2> HIDE DEF old, rest, new
    <2>6. Cardinality(new) <= Cardinality(old)
      BY <2>2, <2>4, <2>5
    <2> QED
      BY <1>1, <2>6 DEF old, new
  <1>3. CASE w # t.worker
    <2>1. InFlight(w)' = InFlight(w)
      BY <1>3 DEF InFlight, Replace
    <2>2. Cardinality(InFlight(w)) \in Nat
      BY InFlightIsFinite
    <2> HIDE DEF InFlight
    <2> QED
      BY <1>1, <2>1, <2>2
  <1> QED
    BY <1>1, <1>2, <1>3

\* Time changes tasks, and makes none.
LEMMA ElapsedTasks ==
    ASSUME IsFiniteSet(tasks), tasks' = {Elapsed(t) : t \in tasks}, tasks \subseteq Task,
           NEW w
    PROVE  IsFiniteSet(tasks') /\ Cardinality(InFlight(w)') <= Cardinality(InFlight(w))
  <1>1. \A t \in tasks : Elapsed(t).worker = t.worker
    BY DEF Elapsed, Task
  <1>2. IsFiniteSet(tasks')
    <2> DEFINE f == [t \in tasks |-> Elapsed(t)]
    <2>1. f \in Surjection(tasks, tasks')
      BY DEF Surjection
    <2> QED
      BY <2>1, FS_Surjection
  <1>3. Cardinality(InFlight(w)') <= Cardinality(InFlight(w))
    <2> DEFINE f == [t \in InFlight(w) |-> Elapsed(t)]
    <2>1. f \in Surjection(InFlight(w), InFlight(w)')
      BY <1>1 DEF Surjection, InFlight
    <2> QED
      BY <2>1, FS_Surjection, InFlightIsFinite
  <1> QED
    BY <1>2, <1>3

LEMMA SlotsKept ==
    ASSUME SlotsCounted, IsFiniteSet(tasks'),
           \A w \in Workers : Cardinality(InFlight(w)') <= Cardinality(InFlight(w)),
           \A w \in Workers : loop'[w] = "claim" => loop[w] = "claim" \/ ~Full(w)
    PROVE  SlotsCounted'
  <1> SUFFICES ASSUME NEW w \in Workers
               PROVE  /\ Cardinality(InFlight(w)') <= Concurrency
                      /\ loop'[w] = "claim" => ~Full(w)'
    BY DEF SlotsCounted
  <1>1. Cardinality(InFlight(w)) \in Nat
    BY InFlightIsFinite DEF SlotsCounted
  <1>2. IsFiniteSet(InFlight(w)')
    <2>1. InFlight(w)' \subseteq tasks'
      BY DEF InFlight
    <2> QED
      BY <2>1, FS_Subset
  <1>3. Cardinality(InFlight(w)') \in Nat /\ Concurrency \in Nat
    BY <1>2, FS_CardinalityType, WorkerOptions
  <1>4. /\ Cardinality(InFlight(w)') <= Cardinality(InFlight(w))
        /\ Cardinality(InFlight(w)) <= Concurrency
        /\ loop[w] = "claim" => ~Full(w)
        /\ loop'[w] = "claim" => loop[w] = "claim" \/ ~Full(w)
    BY DEF SlotsCounted
  <1> HIDE DEF InFlight
  <1> QED
    BY <1>1, <1>3, <1>4 DEF Full

-----------------------------------------------------------------------------
(***************************************************************************)
(* Steps that no task takes.                                               *)
(***************************************************************************)
\* The loops go on: they claim only with a free slot, and serve their tasks.
LoopsMove ==
    /\ loop' \in [Workers -> Phase]
    /\ stopping' \in [Workers -> BOOLEAN]
    /\ claimed' \in [Workers -> BOOLEAN]
    /\ \A w \in Workers : loop'[w] = "claim" => loop[w] = "claim" \/ ~Full(w)
    /\ \A t \in tasks' : Serving(t.worker)'

FaultsGrow == faults' \in 0..MaxFaults /\ faults' >= faults

\* What may happen to a row without its task: nothing, its insertion, or its
\* release if no unexpired lease is on it.
Inserted(j) == queue[j] = NoRow /\ SoundRow(queue'[j]) /\ queue'[j].status = "PENDING"

Freed(j) ==
    /\ SoundRow(queue[j])
    /\ Released(queue[j], queue'[j])
    /\ queue[j].status = "RUNNING" => queue[j].leaseExpiresAt <= 0

Quiet ==
    /\ queue' = [j \in Jobs |-> queue'[j]]
    /\ \A j \in Jobs : queue'[j] = queue[j] \/ Inserted(j) \/ Freed(j)

LEMMA TableIsTyped ==
    ASSUME queue' = [j \in Jobs |-> queue'[j]], RowsAreSound'
    PROVE  TypeOK'
  BY DEF TypeOK, RowsAreSound, SoundRow

\* The pieces of the invariant's next state.
LEMMA Assembled ==
    ASSUME WorkerInv, LoopsMove, FaultsGrow,
           queue' = [j \in Jobs |-> queue'[j]],
           RowsAreSound',
           tasks' \subseteq Task,
           SlotsCounted',
           \A t \in tasks' : t.step = "handler" => t.endedAt = 0,
           Steady => TasksStand' /\ OneTaskPerAttempt',
           faults' = 0 => RowsAreServed'
    PROVE  WorkerInv'
  <1>1. WorkerTypeOK'
    BY TableIsTyped DEF WorkerTypeOK, LoopsMove, FaultsGrow
  <1>2. TasksAreServed'
    BY DEF TasksAreServed, LoopsMove
  <1>3. Steady' => Steady
    BY DEF Steady, FaultsGrow, WorkerInv, WorkerTypeOK
  <1> QED
    BY <1>1, <1>2, <1>3 DEF WorkerInv

\* A row with a task exists.
LEMMA TaskRow ==
    ASSUME WorkerInv, Steady, NEW t \in tasks
    PROVE  /\ t \in Task
           /\ t.job \in Jobs
           /\ SoundRow(queue[t.job])
           /\ Stands(t, queue[t.job])
  <1>1. t \in Task /\ t.job \in Jobs /\ Stands(t, queue[t.job])
    BY DEF WorkerInv, WorkerTypeOK, Task, TasksStand
  <1>2. queue[t.job] # NoRow
    BY <1>1 DEF Stands, Holds, Lost, NoRow
  <1> QED
    BY <1>1, <1>2 DEF WorkerInv, RowsAreSound

LEMMA QuietStep ==
    ASSUME WorkerInv, LoopsMove, FaultsGrow, Quiet, UNCHANGED tasks
    PROVE  WorkerInv'
  <1>1. RowsAreSound'
    BY DEF WorkerInv, RowsAreSound, Quiet, Inserted, Freed, Released
  <1>2. SlotsCounted'
    <2>1. \A w \in Workers : InFlight(w)' = InFlight(w) /\ Cardinality(InFlight(w)) \in Nat
      BY InFlightIsFinite DEF WorkerInv, SlotsCounted, InFlight
    <2>2. \A w \in Workers : Cardinality(InFlight(w)') <= Cardinality(InFlight(w))
      BY <2>1
    <2> QED
      BY <2>2, SlotsKept DEF WorkerInv, SlotsCounted, LoopsMove
  <1>3. ASSUME Steady
        PROVE  TasksStand' /\ OneTaskPerAttempt'
    <2>1. OneTaskPerAttempt'
      BY <1>3 DEF WorkerInv, OneTaskPerAttempt
    <2>2. ASSUME NEW t \in tasks
          PROVE  Stands(t, queue'[t.job])
      <3>1. /\ t \in Task /\ t.job \in Jobs
            /\ SoundRow(queue[t.job]) /\ Stands(t, queue[t.job])
        BY <1>3, TaskRow
      <3>2. CASE queue'[t.job] = queue[t.job]
        BY <3>1, <3>2
      <3>3. CASE Inserted(t.job)
        BY <3>1, <3>3, SoundShape DEF Inserted, NoRow
      <3>4. CASE Freed(t.job)
        BY <3>1, <3>4, ExpiredIsLost, WaitingIsLost DEF Freed, Stands
      <3> QED
        BY <3>1, <3>2, <3>3, <3>4 DEF Quiet
    <2> QED
      BY <2>1, <2>2 DEF TasksStand
  <1>4. ASSUME faults' = 0
        PROVE  RowsAreServed'
    <2>1. faults = 0
      BY <1>4 DEF FaultsGrow, WorkerInv, WorkerTypeOK
    <2>2. \A j \in Jobs : Running(j)' => queue'[j] = queue[j]
      BY DEF Quiet, Inserted, Freed, Released, Running
    <2> QED
      BY <2>1, <2>2 DEF WorkerInv, RowsAreServed, Running
  <1>5. \A t \in tasks' : t \in Task /\ (t.step = "handler" => t.endedAt = 0)
    BY DEF WorkerInv, WorkerTypeOK, TasksAreServed
  <1> QED
    BY <1>1, <1>2, <1>3, <1>4, <1>5, Assembled DEF Quiet

\* A step that leaves the table alone is quiet.
LEMMA TableLeftAlone ==
    ASSUME WorkerInv, UNCHANGED queue
    PROVE  Quiet
  BY DEF Quiet, WorkerInv, WorkerTypeOK, TypeOK

\* One worker's loop goes on.
LEMMA LoopGoes ==
    ASSUME WorkerInv, NEW w \in Workers, NEW phase \in Phase, Goto(w, phase),
           UNCHANGED <<stopping, tasks>>,
           claimed' \in [Workers -> BOOLEAN],
           phase = "claim" => ~Full(w),
           phase \in {"exited", "new", "crashed"} => InFlight(w) = {}
    PROVE  LoopsMove
  <1>1. /\ loop \in [Workers -> Phase] /\ stopping \in [Workers -> BOOLEAN]
        /\ tasks \subseteq Task
    BY DEF WorkerInv, WorkerTypeOK
  <1>2. \A v \in Workers : loop'[v] = IF v = w THEN phase ELSE loop[v]
    BY <1>1 DEF Goto
  <1>3. ASSUME NEW t \in tasks'
        PROVE  Serving(t.worker)'
    <2>1. t \in tasks /\ t.worker \in Workers /\ Serving(t.worker)
      BY <1>1, <1>3 DEF Task, WorkerInv, TasksAreServed
    <2>2. t.worker = w => phase \notin {"exited", "new", "crashed"}
      BY <2>1 DEF InFlight
    <2> QED
      BY <1>2, <2>1, <2>2 DEF Serving
  <1>4. loop' \in [Workers -> Phase]
    BY <1>1 DEF Goto
  <1>5. stopping' \in [Workers -> BOOLEAN]
    BY <1>1
  <1> QED
    BY <1>2, <1>3, <1>4, <1>5 DEF LoopsMove

LEMMA AfterFillType ==
    ASSUME WorkerInv, NEW w \in Workers
    PROVE  AfterFill(w) \in {"drain", "full", "top", "sleep"}
  BY DEF AfterFill

\* The steps of the loop that only move it.
LEMMA LoopOnly ==
    ASSUME WorkerInv, NEW w \in Workers,
           Start(w) \/ Fill(w) \/ ClaimNone(w) \/ SlotFreed(w) \/ LeaveLoop(w) \/ Exit(w)
    PROVE  WorkerInv'
  <1>1. /\ UNCHANGED <<queue, stopping, claimed, tasks, faults>>
        /\ \E phase \in Phase : /\ Goto(w, phase)
                                /\ phase = "claim" => ~Full(w)
                                /\ phase \in {"exited", "new", "crashed"} => InFlight(w) = {}
    <2>1. CASE Start(w)
      BY <2>1 DEF Start, Phase
    <2>2. CASE Fill(w)
      BY <2>2, AfterFillType DEF Fill, Phase
    <2>3. CASE ClaimNone(w)
      BY <2>3, AfterFillType DEF ClaimNone, Phase
    <2>4. CASE SlotFreed(w)
      BY <2>4 DEF SlotFreed, Phase
    <2>5. CASE LeaveLoop(w)
      BY <2>5 DEF LeaveLoop, Phase
    <2>6. CASE Exit(w)
      BY <2>6 DEF Exit, Phase
    <2> QED
      BY <2>1, <2>2, <2>3, <2>4, <2>5, <2>6
  <1>2. PICK phase \in Phase : /\ Goto(w, phase)
                               /\ phase = "claim" => ~Full(w)
                               /\ phase \in {"exited", "new", "crashed"} => InFlight(w) = {}
    BY <1>1
  <1>3. claimed' \in [Workers -> BOOLEAN]
    BY <1>1 DEF WorkerInv, WorkerTypeOK
  <1>4. LoopsMove
    BY <1>1, <1>2, <1>3, LoopGoes
  <1>5. FaultsGrow
    BY <1>1 DEF WorkerInv, WorkerTypeOK, FaultsGrow
  <1> QED
    BY <1>1, <1>4, <1>5, TableLeftAlone, QuietStep

\* Neither a stop request nor a request from outside moves a loop.
LEMMA LoopsStand ==
    ASSUME WorkerInv, UNCHANGED <<loop, claimed, tasks, faults>>,
           stopping' \in [Workers -> BOOLEAN]
    PROVE  LoopsMove /\ FaultsGrow
  BY DEF WorkerInv, WorkerTypeOK, LoopsMove, FaultsGrow, TasksAreServed, Serving

LEMMA StopRequested ==
    ASSUME WorkerInv, NEW w \in Workers, RequestStop(w)
    PROVE  WorkerInv'
  <1>1. stopping' \in [Workers -> BOOLEAN]
    BY DEF RequestStop, WorkerInv, WorkerTypeOK
  <1> QED
    BY <1>1, LoopsStand, TableLeftAlone, QuietStep DEF RequestStop

LEMMA ReclaimIsQuiet ==
    ASSUME WorkerInv, ReclaimExpired(0)
    PROVE  Quiet
  <1>1. PICK S \in SUBSET {j \in Jobs : Expired(j, 0)} :
          queue' = [j \in Jobs |-> IF j \in S THEN Reclaimed(queue[j], 0) ELSE queue[j]]
    BY DEF ReclaimExpired
  <1>2. ASSUME NEW j \in S
        PROVE  Freed(j)
    <2>1. /\ j \in Jobs /\ queue[j].status = "RUNNING" /\ queue[j].leaseExpiresAt <= 0
          /\ queue'[j] = Reclaimed(queue[j], 0)
      BY <1>1, <1>2 DEF Expired, Running
    <2>2. SoundRow(queue[j])
      BY <2>1 DEF WorkerInv, RowsAreSound, NoRow
    <2>3. 0 + Backoff(queue[j].attemptCount) \in Int \cup {None}
      BY BackoffType, DurationAssumption
    <2> QED
      BY <2>1, <2>2, <2>3, FailedIsReleased DEF Freed, Reclaimed
  <1>3. \A j \in Jobs : queue'[j] = queue[j] \/ Freed(j)
    BY <1>1, <1>2
  <1> QED
    BY <1>1, <1>3 DEF Quiet

LEMMA LoopReclaims ==
    ASSUME WorkerInv, NEW w \in Workers, Reclaim(w) \/ ReclaimError(w)
    PROVE  WorkerInv'
  <1>1. Quiet
    BY ReclaimIsQuiet, TableLeftAlone DEF Reclaim, ReclaimError
  <1>2. /\ Goto(w, "fill") /\ UNCHANGED <<stopping, tasks>>
        /\ claimed' \in [Workers -> BOOLEAN]
    BY DEF Reclaim, ReclaimError, WorkerInv, WorkerTypeOK
  <1>3. LoopsMove
    BY <1>2, LoopGoes DEF Phase
  <1>4. FaultsGrow
    BY WorkerOptions DEF Reclaim, ReclaimError, Fault, FaultsGrow, WorkerInv, WorkerTypeOK
  <1> QED
    BY <1>1, <1>2, <1>3, <1>4, QuietStep

\* Requests, operator retries and deleted connections touch no leased row.
LEMMA InsertIsQuiet ==
    ASSUME WorkerInv, NEW req \in Requests, Insert(req, 0)
    PROVE  Quiet
  <1>1. PICK j \in Jobs : ~Exists(j) /\ queue' = [queue EXCEPT ![j] = NewRow(req, 0)]
    BY DEF Insert, NewRow
  <1>2. SoundRow(NewRow(req, 0)) /\ NewRow(req, 0).status = "PENDING"
    <2>1. GoodRow(NewRow(req, 0))
      BY InsertedIsGood
    <2>2. req.maxAttempts <= MaxAttemptCap
      BY BudgetAssumption
    <2> QED
      BY <2>1, <2>2 DEF SoundRow, GoodRow, NewRow
  <1>3. queue[j] = NoRow
    BY <1>1, SoundShape DEF WorkerInv, RowsAreSound, Exists
  <1>4. /\ queue' = [i \in Jobs |-> queue'[i]] /\ queue'[j] = NewRow(req, 0)
        /\ \A i \in Jobs \ {j} : queue'[i] = queue[i]
    BY <1>1 DEF WorkerInv, WorkerTypeOK, TypeOK
  <1> QED
    BY <1>2, <1>3, <1>4 DEF Quiet, Inserted

LEMMA RetryIsQuiet ==
    ASSUME WorkerInv, NEW j \in Jobs, RetryDeadLetter(j, 0)
    PROVE  Quiet
  <1>1. /\ queue[j].status = "DEAD" /\ queue[j].attemptCount < MaxAttemptCap
        /\ queue' = [queue EXCEPT ![j] = Revived(queue[j], 0)]
    BY DEF RetryDeadLetter
  <1>2. SoundRow(queue[j])
    BY <1>1 DEF WorkerInv, RowsAreSound, NoRow
  <1>3. /\ queue' = [i \in Jobs |-> queue'[i]] /\ queue'[j] = Revived(queue[j], 0)
        /\ \A i \in Jobs \ {j} : queue'[i] = queue[i]
    BY <1>1 DEF WorkerInv, WorkerTypeOK, TypeOK
  <1>4. Released(queue[j], queue'[j])
    BY <1>1, <1>2, <1>3, RevivedIsReleased
  <1> QED
    BY <1>1, <1>2, <1>3, <1>4 DEF Quiet, Freed

LEMMA DeletionIsQuiet ==
    ASSUME WorkerInv, NEW c \in Conns, KillConnectionJobs(c)
    PROVE  Quiet
  <1>1. queue' = [j \in Jobs |-> IF j \in JobsOf(c) THEN Finished(queue[j], "DEAD")
                                                   ELSE queue[j]]
    BY DEF KillConnectionJobs
  <1>2. ASSUME NEW j \in JobsOf(c)
        PROVE  Freed(j)
    <2>1. j \in Jobs /\ queue[j].status \in {"PENDING", "RETRY"}
      BY <1>2 DEF JobsOf, Waiting
    <2>2. SoundRow(queue[j])
      BY <2>1 DEF WorkerInv, RowsAreSound, NoRow
    <2>3. Released(queue[j], queue'[j])
      BY <1>1, <1>2, <2>1, <2>2, FinishedIsReleased
    <2> QED
      BY <2>1, <2>2, <2>3 DEF Freed
  <1>3. \A j \in Jobs : queue'[j] = queue[j] \/ Freed(j)
    BY <1>1, <1>2
  <1> QED
    BY <1>1, <1>3 DEF Quiet

LEMMA EnvironmentActs ==
    ASSUME WorkerInv, Environment
    PROVE  WorkerInv'
  <1>1. Quiet
    BY InsertIsQuiet, RetryIsQuiet, DeletionIsQuiet DEF Environment
  <1>2. stopping' \in [Workers -> BOOLEAN]
    BY DEF Environment, WorkerInv, WorkerTypeOK
  <1> QED
    BY <1>1, <1>2, LoopsStand, QuietStep DEF Environment

-----------------------------------------------------------------------------
(***************************************************************************)
(* Claims.                                                                 *)
(***************************************************************************)
LEMMA ClaimedTable ==
    ASSUME WorkerInv, NEW w \in Workers, NEW j \in Jobs, ClaimJob(w, j, HandledJobTypes, 0)
    PROVE  /\ SoundRow(queue[j]) /\ AttemptsLeft(queue[j]) /\ queue[j].status # "RUNNING"
           /\ queue' = [i \in Jobs |-> queue'[i]]
           /\ queue'[j] = Claimed(queue[j], w, 0)
           /\ \A i \in Jobs \ {j} : queue'[i] = queue[i]
           /\ RowsAreSound'
  <1>1. /\ queue[j].status \in {"PENDING", "RETRY"} /\ AttemptsLeft(queue[j])
        /\ queue' = [queue EXCEPT ![j] = Claimed(queue[j], w, 0)]
    BY DEF ClaimJob, Claimable, Waiting
  <1>2. SoundRow(queue[j])
    BY <1>1 DEF WorkerInv, RowsAreSound, NoRow
  <1>3. /\ queue' = [i \in Jobs |-> queue'[i]]
        /\ queue'[j] = Claimed(queue[j], w, 0)
        /\ \A i \in Jobs \ {j} : queue'[i] = queue[i]
    BY <1>1 DEF WorkerInv, WorkerTypeOK, TypeOK
  <1>4. RowsAreSound'
    BY <1>1, <1>2, <1>3, ClaimedIsSound DEF WorkerInv, RowsAreSound
  <1> QED
    BY <1>1, <1>2, <1>3, <1>4

\* A worker with one slot has no task when it claims.
LEMMA OneSlot ==
    ASSUME WorkerInv, NEW w \in Workers, loop[w] = "claim", Concurrency = 1
    PROVE  InFlight(w) = {}
  <1>1. IsFiniteSet(InFlight(w)) /\ Cardinality(InFlight(w)) \in Nat
    BY InFlightIsFinite DEF WorkerInv, SlotsCounted
  <1>2. ~Full(w)
    BY DEF WorkerInv, SlotsCounted
  <1>3. Cardinality(InFlight(w)) = 0
    BY <1>1, <1>2 DEF Full
  <1> QED
    BY <1>1, <1>3, FS_EmptySet

LEMMA ClaimedTasks ==
    ASSUME WorkerInv, Steady, NEW w \in Workers, loop[w] = "claim",
           NEW j \in Jobs, ClaimJob(w, j, HandledJobTypes, 0), NEW t \in tasks
    PROVE  Stands(t, queue'[t.job])
  <1>1. t \in Task /\ t.job \in Jobs /\ SoundRow(queue[t.job]) /\ Stands(t, queue[t.job])
    BY TaskRow
  <1>2. CASE t.job # j
    BY <1>1, <1>2, ClaimedTable
  <1>3. CASE t.job = j
    <2>1. t.worker # w \/ ~t.missed
      BY OneSlot DEF Steady, InFlight, WorkerInv, RowsAreServed
    <2>2. Lost(t, Claimed(queue[j], w, 0))
      BY <1>1, <1>3, <2>1, ClaimedTable, ClaimedStaysLost
    <2> QED
      BY <1>3, <2>2, ClaimedTable DEF Stands
  <1> QED
    BY <1>2, <1>3

LEMMA ClaimStartsTask ==
    ASSUME WorkerInv, NEW w \in Workers, ClaimOne(w)
    PROVE  WorkerInv'
  <1>1. PICK j \in Jobs : /\ ClaimJob(w, j, HandledJobTypes, 0)
                          /\ tasks' = tasks \cup {NewTask(w, j)}
    BY DEF ClaimOne
  <1> DEFINE new == NewTask(w, j)
  <1>2. /\ loop[w] = "claim" /\ Goto(w, "fill") /\ UNCHANGED <<stopping, faults>>
        /\ claimed' = [claimed EXCEPT ![w] = TRUE] /\ ~Full(w)
    BY DEF ClaimOne, WorkerInv, SlotsCounted
  <1>3. /\ SoundRow(queue[j]) /\ AttemptsLeft(queue[j]) /\ queue[j].status # "RUNNING"
        /\ queue' = [i \in Jobs |-> queue'[i]]
        /\ queue'[j] = Claimed(queue[j], w, 0)
        /\ \A i \in Jobs \ {j} : queue'[i] = queue[i]
        /\ RowsAreSound'
    BY <1>1, ClaimedTable
  <1>4. /\ queue'[j].status = "RUNNING" /\ queue'[j].lockedBy = w
        /\ queue'[j].attemptCount = queue[j].attemptCount + 1
        /\ queue'[j].heartbeatAt = 0 /\ queue'[j].leaseExpiresAt = LeaseDuration
    BY <1>3, ClaimedIsSound, DurationAssumption
  <1>5. /\ new.worker = w /\ new.job = j /\ new.attempt = queue[j].attemptCount + 1
        /\ new.step = "handler" /\ new.dueIn = HeartbeatInterval /\ new.endedAt = 0
        /\ ~new.leaseLost /\ ~new.missed
    BY DEF NewTask
  <1>6. new \in Task
    <2>1. queue[j].attemptCount + 1 \in 1..MaxAttemptCap
      BY <1>3, BoundsAssumption DEF SoundRow, Row, AttemptsLeft
    <2>2. HeartbeatInterval \in 0..HeartbeatInterval /\ 0 \in (-MaxDelay)..0
      BY WorkerOptions, DurationAssumption
    <2> QED
      BY <2>1, <2>2 DEF NewTask, Task, Step
  <1> HIDE DEF new
  <1>7. tasks' = tasks \cup {new}
    BY <1>1 DEF new
  <1>8. LoopsMove
    <2>1. /\ loop \in [Workers -> Phase] /\ claimed \in [Workers -> BOOLEAN]
          /\ stopping \in [Workers -> BOOLEAN] /\ tasks \subseteq Task
      BY DEF WorkerInv, WorkerTypeOK
    <2>2. \A v \in Workers : loop'[v] = IF v = w THEN "fill" ELSE loop[v]
      BY <1>2, <2>1 DEF Goto
    <2>3. \A t \in tasks' : Serving(t.worker)'
      BY <1>5, <1>7, <2>1, <2>2 DEF WorkerInv, TasksAreServed, Serving, Task
    <2>4. loop' \in [Workers -> Phase] /\ claimed' \in [Workers -> BOOLEAN]
      BY <1>2, <2>1 DEF Goto, Phase
    <2> QED
      BY <1>2, <2>1, <2>2, <2>3, <2>4 DEF LoopsMove
  <1>9. FaultsGrow
    BY <1>2 DEF WorkerInv, WorkerTypeOK, FaultsGrow
  <1>10. SlotsCounted'
    <2>1. IsFiniteSet(tasks')
      BY <1>7, FS_AddElement DEF WorkerInv, SlotsCounted
    <2>2. ASSUME NEW v \in Workers
          PROVE  Cardinality(InFlight(v)') <= Concurrency /\ (loop'[v] = "claim" => ~Full(v)')
      <3>1. IsFiniteSet(InFlight(v)) /\ Cardinality(InFlight(v)) \in Nat /\ Concurrency \in Nat
        BY InFlightIsFinite, WorkerOptions DEF WorkerInv, SlotsCounted
      <3>2. CASE v = w
        <4>1. InFlight(v)' = InFlight(v) \cup {new}
          BY <1>5, <1>7, <3>2 DEF InFlight
        <4>2. \/ Cardinality(InFlight(v)') = Cardinality(InFlight(v)) + 1
              \/ Cardinality(InFlight(v)') = Cardinality(InFlight(v))
          BY <3>1, <4>1, FS_AddElement
        <4>3. Cardinality(InFlight(v)) < Concurrency
          BY <1>2, <3>1, <3>2 DEF Full
        <4>4. loop'[v] = "fill"
          BY <1>2, <3>2 DEF Goto, WorkerInv, WorkerTypeOK
        <4> QED
          BY <3>1, <4>2, <4>3, <4>4
      <3>3. CASE v # w
        <4>1. InFlight(v)' = InFlight(v)
          BY <1>5, <1>7, <3>3 DEF InFlight
        <4>2. loop'[v] = loop[v]
          BY <1>2, <3>3 DEF Goto, WorkerInv, WorkerTypeOK
        <4>3. Cardinality(InFlight(v)) <= Concurrency /\ (loop[v] = "claim" => ~Full(v))
          BY DEF WorkerInv, SlotsCounted
        <4> QED
          BY <4>1, <4>2, <4>3 DEF Full
      <3> QED
        BY <3>2, <3>3
    <2> QED
      BY <2>1, <2>2 DEF SlotsCounted
  <1>11. ASSUME Steady
         PROVE  TasksStand' /\ OneTaskPerAttempt'
    <2>1. Stands(new, queue'[new.job])
      BY <1>4, <1>5, WorkerOptions, DurationAssumption DEF Stands, Holds
    <2>2. TasksStand'
      BY <1>1, <1>2, <1>7, <1>11, <2>1, ClaimedTasks DEF TasksStand
    <2>3. \A t \in tasks : t.job = j => t.attempt # new.attempt
      BY <1>3, <1>5, <1>11, TaskRow DEF Stands, Holds, Lost, SoundRow, Row
    <2>4. OneTaskPerAttempt'
      BY <1>5, <1>7, <1>11, <2>3 DEF WorkerInv, OneTaskPerAttempt
    <2> QED
      BY <2>2, <2>4
  <1>12. ASSUME faults' = 0
         PROVE  RowsAreServed'
    <2>1. RowsAreServed
      BY <1>2, <1>12 DEF WorkerInv
    <2> QED
      BY <1>3, <1>4, <1>5, <1>7, <2>1 DEF RowsAreServed, Running
  <1>13. \A t \in tasks' : t \in Task /\ (t.step = "handler" => t.endedAt = 0)
    BY <1>5, <1>6, <1>7 DEF WorkerInv, WorkerTypeOK, TasksAreServed
  <1> QED
    BY <1>3, <1>8, <1>9, <1>10, <1>11, <1>12, <1>13, Assembled

\* A claim whose answer is lost leaves the row leased without a task.
LEMMA ClaimFails ==
    ASSUME WorkerInv, NEW w \in Workers, ClaimError(w)
    PROVE  WorkerInv'
  <1>1. /\ loop[w] = "claim" /\ Fault /\ Goto(w, AfterFill(w))
        /\ UNCHANGED <<stopping, claimed, tasks>>
        /\ UNCHANGED queue \/ Claim(w, HandledJobTypes, 0)
    BY DEF ClaimError
  <1>2. LoopsMove
    <2>1. claimed' \in [Workers -> BOOLEAN]
      BY <1>1 DEF WorkerInv, WorkerTypeOK
    <2> QED
      BY <1>1, <2>1, AfterFillType, LoopGoes DEF Phase
  <1>3. FaultsGrow /\ faults' # 0
    BY <1>1, WorkerOptions DEF Fault, FaultsGrow, WorkerInv, WorkerTypeOK
  <1>4. CASE UNCHANGED queue
    BY <1>1, <1>2, <1>3, <1>4, TableLeftAlone, QuietStep
  <1>5. CASE Claim(w, HandledJobTypes, 0)
    <2>1. PICK j \in Jobs : ClaimJob(w, j, HandledJobTypes, 0)
      BY <1>5 DEF Claim
    <2>2. queue' = [i \in Jobs |-> queue'[i]] /\ RowsAreSound'
      BY <2>1, ClaimedTable
    <2>3. SlotsCounted'
      <3>1. \A v \in Workers : InFlight(v)' = InFlight(v) /\ Cardinality(InFlight(v)) \in Nat
        BY <1>1, InFlightIsFinite DEF WorkerInv, SlotsCounted, InFlight
      <3>2. \A v \in Workers : Cardinality(InFlight(v)') <= Cardinality(InFlight(v))
        BY <3>1
      <3> QED
        BY <1>1, <1>2, <3>2, SlotsKept DEF WorkerInv, SlotsCounted, LoopsMove
    <2>4. ASSUME Steady
          PROVE  TasksStand' /\ OneTaskPerAttempt'
      BY <1>1, <2>1, <2>4, ClaimedTasks DEF WorkerInv, TasksStand, OneTaskPerAttempt
    <2>5. \A t \in tasks' : t \in Task /\ (t.step = "handler" => t.endedAt = 0)
      BY <1>1 DEF WorkerInv, WorkerTypeOK, TasksAreServed
    <2> QED
      BY <1>2, <1>3, <2>2, <2>3, <2>4, <2>5, Assembled
  <1> QED
    BY <1>1, <1>4, <1>5

-----------------------------------------------------------------------------
(***************************************************************************)
(* Steps of one task.                                                      *)
(***************************************************************************)
\* While a task holds its row, every other task of the row has lost it.
LEMMA OthersHaveLost ==
    ASSUME WorkerInv, Steady, NEW t \in tasks, Holds(t, queue[t.job]),
           NEW s \in tasks \ {t}, s.job = t.job
    PROVE  Lost(s, queue[s.job])
  <1>1. Stands(s, queue[s.job])
    BY TaskRow
  <1>2. s.attempt # t.attempt
    BY DEF WorkerInv, OneTaskPerAttempt
  <1> QED
    BY <1>1, <1>2 DEF Stands, Holds

LEMMA TaskLoops ==
    ASSUME WorkerInv, UNCHANGED <<loop, stopping, claimed>>,
           \A t \in tasks' : \E s \in tasks : t.worker = s.worker
    PROVE  LoopsMove
  BY DEF WorkerInv, WorkerTypeOK, LoopsMove, TasksAreServed, Serving

\* A task that ends.
LEMMA TaskEnds ==
    ASSUME WorkerInv, NEW t \in tasks, Drop(t), UNCHANGED <<loop, stopping, claimed>>,
           FaultsGrow, queue' = [j \in Jobs |-> queue'[j]], RowsAreSound',
           Steady => \A s \in tasks \ {t} : Stands(s, queue'[s.job]),
           faults' = 0 => RowsAreServed'
    PROVE  WorkerInv'
  <1>1. tasks' = tasks \ {t}
    BY DEF Drop
  <1>2. LoopsMove
    BY <1>1, TaskLoops
  <1>3. IsFiniteSet(tasks') /\ \A w \in Workers : Cardinality(InFlight(w)') <= Cardinality(InFlight(w))
    BY <1>1, FewerTasks DEF WorkerInv, SlotsCounted
  <1>4. SlotsCounted'
    BY <1>3, SlotsKept DEF WorkerInv
  <1>5. ASSUME Steady
        PROVE  TasksStand' /\ OneTaskPerAttempt'
    BY <1>1, <1>5 DEF WorkerInv, TasksStand, OneTaskPerAttempt
  <1>6. \A s \in tasks' : s \in Task /\ (s.step = "handler" => s.endedAt = 0)
    BY <1>1 DEF WorkerInv, WorkerTypeOK, TasksAreServed
  <1> QED
    BY <1>2, <1>4, <1>5, <1>6, Assembled

\* A task that goes on.
LEMMA TaskGoesOn ==
    ASSUME WorkerInv, NEW t \in tasks, NEW u \in Task, Replace(t, u),
           u.worker = t.worker, u.job = t.job, u.attempt = t.attempt,
           u.step = "handler" => u.endedAt = 0,
           UNCHANGED <<loop, stopping, claimed>>,
           FaultsGrow, queue' = [j \in Jobs |-> queue'[j]], RowsAreSound',
           Steady => Stands(u, queue'[u.job]),
           Steady => \A s \in tasks \ {t} : Stands(s, queue'[s.job]),
           faults' = 0 => ~u.missed /\ ~u.leaseLost,
           \A j \in Jobs : Running(j)' => /\ Running(j)
                                          /\ queue'[j].lockedBy = queue[j].lockedBy
                                          /\ queue'[j].attemptCount = queue[j].attemptCount
    PROVE  WorkerInv'
  <1>1. tasks' = (tasks \ {t}) \cup {u}
    BY DEF Replace
  <1>2. LoopsMove
    BY <1>1, TaskLoops
  <1>3. IsFiniteSet(tasks') /\ \A w \in Workers : Cardinality(InFlight(w)') <= Cardinality(InFlight(w))
    BY SameTask DEF WorkerInv, SlotsCounted
  <1>4. SlotsCounted'
    BY <1>2, <1>3, SlotsKept DEF WorkerInv, LoopsMove
  <1>5. ASSUME Steady
        PROVE  TasksStand' /\ OneTaskPerAttempt'
    <2>1. TasksStand'
      BY <1>1, <1>5 DEF TasksStand
    <2>2. OneTaskPerAttempt'
      BY <1>1, <1>5 DEF WorkerInv, OneTaskPerAttempt
    <2> QED
      BY <2>1, <2>2
  <1>6. ASSUME faults' = 0
        PROVE  RowsAreServed'
    <2>1. RowsAreServed
      BY <1>6 DEF WorkerInv, FaultsGrow, WorkerTypeOK
    <2>2. \A s \in tasks' : ~s.missed /\ ~s.leaseLost
      BY <1>1, <1>6, <2>1 DEF RowsAreServed
    <2>3. ASSUME NEW j \in Jobs, Running(j)'
          PROVE  \E s \in tasks' : /\ s.job = j
                                   /\ s.worker = queue'[j].lockedBy
                                   /\ s.attempt = queue'[j].attemptCount
      <3>1. PICK s \in tasks : /\ s.job = j
                               /\ s.worker = queue[j].lockedBy
                               /\ s.attempt = queue[j].attemptCount
        BY <2>1, <2>3 DEF RowsAreServed
      <3>2. CASE s = t
        BY <1>1, <2>3, <3>1, <3>2
      <3>3. CASE s # t
        BY <1>1, <2>3, <3>1, <3>3
      <3> QED
        BY <3>2, <3>3
    <2> QED
      BY <2>2, <2>3 DEF RowsAreServed, Running
  <1>7. \A s \in tasks' : s \in Task /\ (s.step = "handler" => s.endedAt = 0)
    BY <1>1 DEF WorkerInv, WorkerTypeOK, TasksAreServed
  <1> QED
    BY <1>2, <1>4, <1>5, <1>6, <1>7, Assembled

\* A heartbeat that arrives while the row is the worker's.
LEMMA BeatExtends ==
    ASSUME WorkerInv, NEW t \in tasks, BeatDue(t), OwnsLease(t.worker, t.job, 0),
           Heartbeat(t.worker, t.job, 0), Replace(t, [t EXCEPT !.dueIn = HeartbeatInterval]),
           UNCHANGED <<loop, stopping, claimed, faults>>
    PROVE  WorkerInv'
  <1> DEFINE j == t.job
             u == [t EXCEPT !.dueIn = HeartbeatInterval]
  <1>1. /\ t \in Task /\ j \in Jobs /\ t.step = "handler" /\ ~t.leaseLost /\ t.endedAt = 0
    BY DEF BeatDue, WorkerInv, WorkerTypeOK, TasksAreServed, Task
  <1>2. /\ queue[j].status = "RUNNING" /\ SoundRow(queue[j])
        /\ queue' = [queue EXCEPT ![j] = Extended(queue[j], 0)]
    BY <1>1 DEF Heartbeat, OwnsLease, Running, WorkerInv, RowsAreSound, NoRow
  <1>3. /\ queue' = [i \in Jobs |-> queue'[i]] /\ queue'[j] = Extended(queue[j], 0)
        /\ \A i \in Jobs \ {j} : queue'[i] = queue[i]
    BY <1>1, <1>2 DEF WorkerInv, WorkerTypeOK, TypeOK
  <1>4. /\ SoundRow(queue'[j]) /\ queue'[j].status = "RUNNING"
        /\ queue'[j].lockedBy = queue[j].lockedBy
        /\ queue'[j].attemptCount = queue[j].attemptCount
        /\ queue'[j].heartbeatAt = 0 /\ queue'[j].leaseExpiresAt >= LeaseDuration
        /\ queue'[j].leaseExpiresAt \in Int
    BY <1>2, <1>3, ExtendedIsSound, DurationAssumption DEF SoundRow
  <1>5. RowsAreSound'
    BY <1>3, <1>4 DEF WorkerInv, RowsAreSound
  <1>6. /\ u \in Task /\ u.worker = t.worker /\ u.job = j /\ u.attempt = t.attempt
        /\ u.step = "handler" /\ u.endedAt = 0 /\ ~u.leaseLost /\ u.missed = t.missed
        /\ u.dueIn = HeartbeatInterval
    BY <1>1, WorkerOptions, DurationAssumption DEF Task
  <1> HIDE DEF u
  <1>7. ASSUME Steady
        PROVE  Stands(u, queue'[u.job]) /\ \A s \in tasks \ {t} : Stands(s, queue'[s.job])
    <2>1. Holds(t, queue[j])
      BY <1>1, <1>7, TaskRow, OwnerHolds
    <2>2. Stands(u, queue'[u.job])
      BY <1>4, <1>6, <2>1, WorkerOptions, DurationAssumption DEF Stands, Holds
    <2>3. ASSUME NEW s \in tasks \ {t}
          PROVE  Stands(s, queue'[s.job])
      <3>1. s \in Task /\ s.job \in Jobs /\ Stands(s, queue[s.job])
        BY <1>7, TaskRow
      <3>2. CASE s.job # j
        BY <1>3, <3>1, <3>2
      <3>3. CASE s.job = j
        <4>1. Lost(s, queue[j])
          BY <1>7, <2>1, <3>3, OthersHaveLost
        <4>2. s.endedAt \in Int /\ queue[j].heartbeatAt \in Int /\ queue[j].heartbeatAt <= 0
          BY <1>2, <3>1, WorkerOptions DEF Task, SoundRow
        <4>3. Lost(s, queue'[j])
          BY <1>2, <1>4, <4>1, <4>2 DEF Lost
        <4> QED
          BY <3>3, <4>3 DEF Stands
      <3> QED
        BY <3>2, <3>3
    <2> QED
      BY <2>2, <2>3
  <1>8. FaultsGrow
    BY DEF WorkerInv, WorkerTypeOK, FaultsGrow
  <1>9. faults' = 0 => ~u.missed /\ ~u.leaseLost
    BY <1>6 DEF WorkerInv, RowsAreServed
  <1>10. \A i \in Jobs : Running(i)' => /\ Running(i)
                                        /\ queue'[i].lockedBy = queue[i].lockedBy
                                        /\ queue'[i].attemptCount = queue[i].attemptCount
    BY <1>2, <1>3, <1>4 DEF Running
  <1>11. Replace(t, u)
    BY DEF u
  <1> QED
    BY <1>3, <1>5, <1>6, <1>7, <1>8, <1>9, <1>10, <1>11, TaskGoesOn

\* Steps of a task that leave the table alone.
LEMMA TaskAlone ==
    ASSUME WorkerInv, NEW t \in tasks, NEW u \in Task, Replace(t, u),
           u.worker = t.worker, u.job = t.job, u.attempt = t.attempt,
           u.step = "handler" => u.endedAt = 0,
           UNCHANGED <<queue, loop, stopping, claimed>>, FaultsGrow,
           Steady => Stands(u, queue[u.job]),
           faults' = 0 => ~u.missed /\ ~u.leaseLost
    PROVE  WorkerInv'
  <1>1. queue' = [j \in Jobs |-> queue'[j]]
    BY DEF WorkerInv, WorkerTypeOK, TypeOK
  <1>2. RowsAreSound'
    BY DEF WorkerInv, RowsAreSound
  <1>3. Steady => \A s \in tasks \ {t} : Stands(s, queue'[s.job])
    BY DEF WorkerInv, TasksStand
  <1>4. \A j \in Jobs : Running(j)' => /\ Running(j)
                                       /\ queue'[j].lockedBy = queue[j].lockedBy
                                       /\ queue'[j].attemptCount = queue[j].attemptCount
    BY DEF Running
  <1>5. Steady => Stands(u, queue'[u.job])
    BY DEF WorkerInv
  <1> QED
    BY <1>1, <1>2, <1>3, <1>4, <1>5, TaskGoesOn

\* A heartbeat that finds the row gone, or fails.
LEMMA BeatFails ==
    ASSUME WorkerInv, NEW t \in tasks, BeatError(t) \/ (Beat(t) /\ ~OwnsLease(t.worker, t.job, 0))
    PROVE  WorkerInv'
  <1>1. /\ t \in Task /\ t.job \in Jobs /\ t.step = "handler" /\ ~t.leaseLost
        /\ t.dueIn = 0 /\ t.endedAt = 0
    BY DEF Beat, BeatError, BeatDue, WorkerInv, WorkerTypeOK, TasksAreServed, Task
  <1>2. CASE BeatError(t)
    <2> DEFINE u == [t EXCEPT !.dueIn = HeartbeatInterval, !.missed = TRUE]
    <2>0. HeartbeatInterval \in 0..HeartbeatInterval
      BY WorkerOptions, DurationAssumption
    <2>1. /\ u \in Task /\ u.worker = t.worker /\ u.job = t.job /\ u.attempt = t.attempt
          /\ u.step = t.step /\ u.endedAt = t.endedAt /\ u.missed
      BY <1>1, <2>0 DEF Task
    <2>2. Replace(t, u) /\ UNCHANGED <<queue, loop, stopping, claimed>> /\ Fault
      BY <1>2 DEF BeatError
    <2> HIDE DEF u
    <2>3. Steady => Stands(u, queue[u.job])
      BY <2>1, TaskRow DEF Stands, Holds, Lost
    <2>4. FaultsGrow /\ faults' # 0
      BY <2>2, WorkerOptions DEF Fault, FaultsGrow, WorkerInv, WorkerTypeOK
    <2> QED
      BY <1>1, <2>1, <2>2, <2>3, <2>4, TaskAlone
  <1>3. CASE Beat(t) /\ ~OwnsLease(t.worker, t.job, 0)
    <2> DEFINE u == [t EXCEPT !.leaseLost = TRUE]
    <2>1. /\ u \in Task /\ u.worker = t.worker /\ u.job = t.job /\ u.attempt = t.attempt
          /\ u.step = t.step /\ u.endedAt = t.endedAt /\ u.missed = t.missed
      BY <1>1 DEF Task
    <2>2. Replace(t, u) /\ UNCHANGED <<queue, loop, stopping, claimed, faults>>
      BY <1>3 DEF Beat
    <2> HIDE DEF u
    <2>3. Steady => t.missed
      BY <1>1, <1>3, TaskRow DEF Stands, Holds, Lost, OwnsLease, Running
    <2>4. Steady => Stands(u, queue[u.job])
      BY <2>1, <2>3, TaskRow DEF Stands, Holds, Lost
    <2>5. faults' # 0
      BY <2>2, <2>3 DEF Steady, WorkerInv, RowsAreServed
    <2>6. FaultsGrow
      BY <2>2 DEF FaultsGrow, WorkerInv, WorkerTypeOK
    <2> QED
      BY <1>1, <2>1, <2>2, <2>4, <2>5, <2>6, TaskAlone
  <1> QED
    BY <1>2, <1>3

LEMMA HandlerStops ==
    ASSUME WorkerInv, NEW t \in tasks, HandlerEnds(t)
    PROVE  WorkerInv'
  <1>1. /\ t \in Task /\ t.job \in Jobs /\ t.step = "handler" /\ t.endedAt = 0
        /\ UNCHANGED <<queue, loop, stopping, claimed, faults>>
    BY DEF HandlerEnds, WorkerInv, WorkerTypeOK, TasksAreServed, Task
  <1>2. FaultsGrow
    BY <1>1 DEF FaultsGrow, WorkerInv, WorkerTypeOK
  <1>3. CASE t.leaseLost
    <2>1. Drop(t)
      BY <1>3 DEF HandlerEnds
    <2>2. queue' = [j \in Jobs |-> queue'[j]] /\ RowsAreSound'
      BY <1>1 DEF WorkerInv, WorkerTypeOK, TypeOK, RowsAreSound
    <2>3. Steady => \A s \in tasks \ {t} : Stands(s, queue'[s.job])
      BY <1>1 DEF WorkerInv, TasksStand
    <2>4. faults' # 0
      BY <1>1, <1>3 DEF WorkerInv, RowsAreServed
    <2> QED
      BY <1>1, <1>2, <2>1, <2>2, <2>3, <2>4, TaskEnds
  <1>4. CASE ~t.leaseLost
    <2>1. PICK step \in Step \ {"handler"} : Replace(t, [t EXCEPT !.step = step])
      BY <1>4 DEF HandlerEnds
    <2> DEFINE u == [t EXCEPT !.step = step]
    <2>2. /\ u \in Task /\ u.worker = t.worker /\ u.job = t.job /\ u.attempt = t.attempt
          /\ u.step # "handler" /\ u.endedAt = 0 /\ u.missed = t.missed
          /\ u.leaseLost = t.leaseLost
      BY <1>1, <2>1 DEF Task
    <2>3. Replace(t, u)
      BY <2>1
    <2> HIDE DEF u
    <2>4. ASSUME Steady
          PROVE  Stands(u, queue[u.job])
      <3>1. CASE Holds(t, queue[t.job])
        <4>1. t.dueIn \in Nat /\ (t.missed \/ queue[t.job].leaseExpiresAt > t.dueIn)
          BY <1>1, <3>1, WorkerOptions DEF Task, Holds
        <4>2. SoundRow(queue[t.job]) /\ queue[t.job].status = "RUNNING"
          BY <2>4, <3>1, TaskRow DEF Holds
        <4>3. t.missed \/ queue[t.job].leaseExpiresAt > 0
          BY <4>1, <4>2 DEF SoundRow
        <4> QED
          BY <1>1, <2>2, <3>1, <4>3 DEF Stands, Holds
      <3>2. CASE Lost(t, queue[t.job])
        BY <1>1, <2>2, <3>2 DEF Stands, Lost
      <3> QED
        BY <2>4, <3>1, <3>2, TaskRow DEF Stands
    <2>5. faults' = 0 => ~u.missed /\ ~u.leaseLost
      BY <1>1, <2>2 DEF WorkerInv, RowsAreServed
    <2> QED
      BY <1>1, <1>2, <2>2, <2>3, <2>4, <2>5, TaskAlone
  <1> QED
    BY <1>3, <1>4

\* complete() and fail() release the row they own.
LEMMA ReportReleases ==
    ASSUME WorkerInv, NEW t \in tasks, Report(t), OwnsLease(t.worker, t.job, t.endedAt)
    PROVE  /\ queue' = [j \in Jobs |-> queue'[j]]
           /\ SoundRow(queue[t.job])
           /\ Released(queue[t.job], queue'[t.job])
           /\ \A i \in Jobs \ {t.job} : queue'[i] = queue[i]
  <1> DEFINE j == t.job
  <1>1. t \in Task /\ j \in Jobs /\ t.endedAt \in Int
    BY WorkerOptions DEF WorkerInv, WorkerTypeOK, Task
  <1>2. SoundRow(queue[j])
    BY <1>1 DEF OwnsLease, Running, WorkerInv, RowsAreSound, NoRow
  <1>3. PICK new : queue' = [queue EXCEPT ![j] = new] /\ Released(queue[j], new)
    <2>1. CASE Complete(t.worker, j, t.endedAt)
      BY <1>2, <2>1, FinishedIsReleased DEF Complete
    <2>2. CASE Fail(t.worker, j, t.endedAt, None)
      BY <1>2, <2>2, FailedIsReleased DEF Fail
    <2>3. ASSUME NEW d \in JitteredBackoff(t.attempt),
                 Fail(t.worker, j, t.endedAt, t.endedAt + d)
          PROVE  \E new : queue' = [queue EXCEPT ![j] = new] /\ Released(queue[j], new)
      <3>1. Backoff(t.attempt) \in Int
        BY BackoffType, DurationAssumption
      <3>2. d \in Int
        BY <2>3, <3>1, DurationAssumption DEF JitteredBackoff
      <3>3. t.endedAt + d \in Int \cup {None}
        BY <1>1, <3>2
      <3> QED
        BY <1>2, <2>3, <3>3, FailedIsReleased DEF Fail
    <2> QED
      BY <2>1, <2>2, <2>3 DEF Report
  <1> QED
    BY <1>1, <1>2, <1>3 DEF WorkerInv, WorkerTypeOK, TypeOK

LEMMA Reports ==
    ASSUME WorkerInv, NEW t \in tasks, Report(t) \/ ReportError(t)
    PROVE  WorkerInv'
  <1>1. /\ t \in Task /\ t.job \in Jobs /\ t.step # "handler" /\ Drop(t)
        /\ UNCHANGED <<loop, stopping, claimed>>
    BY DEF Report, ReportError, WorkerInv, WorkerTypeOK, Task
  <1>2. FaultsGrow
    BY WorkerOptions DEF Report, ReportError, Fault, FaultsGrow, WorkerInv, WorkerTypeOK
  <1>3. CASE Report(t) /\ OwnsLease(t.worker, t.job, t.endedAt)
    <2> DEFINE j == t.job
    <2>1. /\ queue' = [i \in Jobs |-> queue'[i]]
          /\ SoundRow(queue[j]) /\ Released(queue[j], queue'[j])
          /\ \A i \in Jobs \ {j} : queue'[i] = queue[i]
      BY <1>3, ReportReleases
    <2>2. RowsAreSound'
      BY <2>1 DEF WorkerInv, RowsAreSound, Released
    <2>3. ASSUME Steady, NEW s \in tasks \ {t}
          PROVE  Stands(s, queue'[s.job])
      <3>1. s \in Task /\ s.job \in Jobs /\ Stands(s, queue[s.job])
        BY <2>3, TaskRow
      <3>2. CASE s.job # j
        BY <2>1, <3>1, <3>2
      <3>3. CASE s.job = j
        <4>1. Holds(t, queue[j])
          BY <1>3, <2>3, TaskRow, OwnerHolds
        <4>2. Lost(s, queue[j])
          BY <2>3, <3>3, <4>1, OthersHaveLost
        <4>3. Lost(s, queue'[j])
          BY <2>1, <3>1, <4>2, ReleasedIsLost DEF Stands, Lost
        <4> QED
          BY <3>3, <4>3 DEF Stands
      <3> QED
        BY <3>2, <3>3
    <2>4. ASSUME faults' = 0
          PROVE  RowsAreServed'
      <3>1. RowsAreServed
        BY <1>3, <2>4 DEF Report, WorkerInv
      <3>2. \A i \in Jobs : Running(i)' => i # j /\ queue'[i] = queue[i]
        BY <2>1 DEF Running, Released
      <3> QED
        BY <1>1, <3>1, <3>2 DEF RowsAreServed, Running, Drop
    <2> QED
      BY <1>1, <1>2, <2>1, <2>2, <2>3, <2>4, TaskEnds
  <1>4. CASE ReportError(t) \/ ~OwnsLease(t.worker, t.job, t.endedAt)
    <2>1. UNCHANGED queue
      BY <1>4 DEF Report, ReportError, Complete, Fail
    <2>2. queue' = [j \in Jobs |-> queue'[j]] /\ RowsAreSound'
      BY <2>1 DEF WorkerInv, WorkerTypeOK, TypeOK, RowsAreSound
    <2>3. Steady => \A s \in tasks \ {t} : Stands(s, queue'[s.job])
      BY <2>1 DEF WorkerInv, TasksStand
    <2>4. ASSUME faults' = 0
          PROVE  RowsAreServed'
      <3>1. faults = 0 /\ ~OwnsLease(t.worker, t.job, t.endedAt)
        BY <1>2, <1>4, <2>4 DEF ReportError, Fault, FaultsGrow, WorkerInv, WorkerTypeOK
      <3>2. RowsAreServed
        BY <3>1 DEF WorkerInv
      <3>3. Running(t.job) => queue[t.job].attemptCount # t.attempt
        <4>1. Stands(t, queue[t.job]) /\ ~t.missed
          BY <3>1, <3>2, TaskRow DEF Steady, RowsAreServed
        <4>2. queue[t.job].attemptCount \in Nat
          BY <3>1, TaskRow, SoundShape DEF Steady
        <4> QED
          BY <1>1, <3>1, <4>1, <4>2 DEF Stands, Holds, Lost, OwnsLease, Running
      <3> QED
        BY <1>1, <2>1, <3>2, <3>3 DEF RowsAreServed, Running, Drop
    <2> QED
      BY <1>1, <1>2, <2>2, <2>3, <2>4, TaskEnds
  <1> QED
    BY <1>3, <1>4

\* A process that dies takes its tasks with it.
LEMMA ProcessDies ==
    ASSUME WorkerInv, NEW w \in Workers, Crash(w)
    PROVE  WorkerInv'
  <1>1. /\ Goto(w, "crashed") /\ tasks' = tasks \ InFlight(w) /\ Fault
        /\ UNCHANGED <<queue, stopping, claimed>>
    BY DEF Crash
  <1>2. FaultsGrow /\ faults' # 0
    BY <1>1, WorkerOptions DEF Fault, FaultsGrow, WorkerInv, WorkerTypeOK
  <1>3. LoopsMove
    <2>1. /\ loop \in [Workers -> Phase] /\ claimed \in [Workers -> BOOLEAN]
          /\ stopping \in [Workers -> BOOLEAN] /\ tasks \subseteq Task
      BY DEF WorkerInv, WorkerTypeOK
    <2>2. \A v \in Workers : loop'[v] = IF v = w THEN "crashed" ELSE loop[v]
      BY <1>1, <2>1 DEF Goto
    <2>3. \A t \in tasks' : Serving(t.worker)'
      BY <1>1, <2>1, <2>2 DEF WorkerInv, TasksAreServed, Serving, InFlight, Task
    <2>4. loop' \in [Workers -> Phase]
      BY <1>1, <2>1 DEF Goto, Phase
    <2> QED
      BY <1>1, <2>1, <2>2, <2>3, <2>4 DEF LoopsMove
  <1>4. IsFiniteSet(tasks') /\ \A v \in Workers : Cardinality(InFlight(v)') <= Cardinality(InFlight(v))
    BY <1>1, FewerTasks DEF WorkerInv, SlotsCounted
  <1>5. SlotsCounted'
    BY <1>3, <1>4, SlotsKept DEF WorkerInv, LoopsMove
  <1>6. queue' = [j \in Jobs |-> queue'[j]] /\ RowsAreSound'
    BY <1>1 DEF WorkerInv, WorkerTypeOK, TypeOK, RowsAreSound
  <1>7. Steady => TasksStand' /\ OneTaskPerAttempt'
    BY <1>1 DEF WorkerInv, TasksStand, OneTaskPerAttempt
  <1>8. \A t \in tasks' : t \in Task /\ (t.step = "handler" => t.endedAt = 0)
    BY <1>1 DEF WorkerInv, WorkerTypeOK, TasksAreServed
  <1> QED
    BY <1>2, <1>3, <1>5, <1>6, <1>7, <1>8, Assembled

-----------------------------------------------------------------------------
(***************************************************************************)
(* Time.                                                                   *)
(***************************************************************************)
LEMMA ElapsedType ==
    ASSUME NEW t \in Task, ~BeatDue(t), t.endedAt > -MaxDelay,
           t.step = "handler" => t.endedAt = 0
    PROVE  LET u == Elapsed(t)
           IN  /\ u \in Task
               /\ u.worker = t.worker /\ u.job = t.job /\ u.attempt = t.attempt
               /\ u.step = t.step /\ u.leaseLost = t.leaseLost /\ u.missed = t.missed
               /\ u.endedAt = IF t.step = "handler" THEN 0 ELSE t.endedAt - 1
               /\ t.step = "handler" /\ ~t.leaseLost => u.dueIn = t.dueIn - 1
  <1> DEFINE ended == t.endedAt - 1
             due == t.dueIn - 1
  <1>1. CASE t.step # "handler"
    <2>1. ended \in (-MaxDelay)..0
      BY WorkerOptions DEF Task
    <2>2. Elapsed(t) = [t EXCEPT !.endedAt = ended]
      BY <1>1 DEF Elapsed, Task
    <2> HIDE DEF ended
    <2> QED
      BY <1>1, <2>1, <2>2 DEF Task, ended
  <1>2. CASE t.step = "handler" /\ t.leaseLost
    BY <1>2 DEF Elapsed
  <1>3. CASE t.step = "handler" /\ ~t.leaseLost
    <2>1. due \in 0..HeartbeatInterval
      BY <1>3, WorkerOptions, DurationAssumption DEF Task, BeatDue
    <2>2. Elapsed(t) = [t EXCEPT !.dueIn = due]
      BY <1>3 DEF Elapsed, Task
    <2> HIDE DEF due
    <2> QED
      BY <1>3, <2>1, <2>2 DEF Task, due
  <1> QED
    BY <1>1, <1>2, <1>3

\* The lease, the task's timer and its outcome age together.
LEMMA StandsInTime ==
    ASSUME NEW t \in Task, ~BeatDue(t), t.endedAt > -MaxDelay,
           t.step = "handler" => t.endedAt = 0,
           NEW row, SoundRow(row), Stands(t, row)
    PROVE  Stands(Elapsed(t), Aged(row))
  <1> DEFINE u == Elapsed(t)
             new == Aged(row)
  <1>1. /\ u.worker = t.worker /\ u.attempt = t.attempt
        /\ u.step = t.step /\ u.leaseLost = t.leaseLost /\ u.missed = t.missed
        /\ u.endedAt = IF t.step = "handler" THEN 0 ELSE t.endedAt - 1
        /\ t.step = "handler" /\ ~t.leaseLost => u.dueIn = t.dueIn - 1
    BY ElapsedType
  <1>2. /\ new.status = row.status /\ new.lockedBy = row.lockedBy
        /\ new.attemptCount = row.attemptCount
        /\ row.status = "RUNNING" => new.heartbeatAt = Earlier(row.heartbeatAt)
        /\ row.status = "RUNNING" => new.leaseExpiresAt = Earlier(row.leaseExpiresAt)
    BY AgedIsSound
  <1>3. /\ t.endedAt \in Int /\ t.endedAt <= 0 /\ t.dueIn \in Nat /\ MaxDelay \in Nat
        /\ t.step = "handler" /\ ~t.leaseLost => t.dueIn > 0
    BY WorkerOptions, DurationAssumption DEF Task, BeatDue
  <1>4. row.status = "RUNNING" =>
           /\ row.heartbeatAt \in Int /\ row.heartbeatAt <= 0 /\ row.leaseExpiresAt \in Int
           /\ Earlier(row.heartbeatAt) = IF row.heartbeatAt > -MaxDelay
                                         THEN row.heartbeatAt - 1 ELSE row.heartbeatAt
           /\ Earlier(row.leaseExpiresAt) = IF row.leaseExpiresAt > -MaxDelay
                                            THEN row.leaseExpiresAt - 1 ELSE row.leaseExpiresAt
    BY EarlierType DEF SoundRow
  <1> HIDE DEF u, new
  <1>5. CASE Holds(t, row)
    <2>1. new.heartbeatAt <= u.endedAt
      BY <1>1, <1>2, <1>3, <1>4, <1>5 DEF Holds
    <2>2. t.missed \/ t.step # "handler" \/ (~u.leaseLost /\ new.leaseExpiresAt > u.dueIn)
      BY <1>1, <1>2, <1>3, <1>4, <1>5 DEF Holds
    <2>3. t.missed \/ t.step = "handler" \/ new.leaseExpiresAt > u.endedAt
      BY <1>1, <1>2, <1>3, <1>4, <1>5 DEF Holds
    <2>4. Holds(u, new)
      BY <1>1, <1>2, <1>5, <2>1, <2>2, <2>3 DEF Holds
    <2> QED
      BY <2>4 DEF Stands, u, new
  <1>6. CASE Lost(t, row)
    <2>1. ~(new.status = "RUNNING" /\ new.lockedBy = u.worker /\ new.heartbeatAt <= u.endedAt)
      BY <1>1, <1>2, <1>3, <1>4, <1>6 DEF Lost
    <2>2. u.missed \/ (u.step # "handler" /\ u.endedAt < 0)
      BY <1>1, <1>3, <1>6 DEF Lost
    <2>3. Lost(u, new)
      BY <1>1, <1>2, <1>6, <2>1, <2>2 DEF Lost
    <2> QED
      BY <2>3 DEF Stands, u, new
  <1> QED
    BY <1>5, <1>6 DEF Stands

LEMMA TimePasses ==
    ASSUME WorkerInv, Tick
    PROVE  WorkerInv'
  <1>1. /\ \A t \in tasks : /\ t \in Task /\ ~BeatDue(t) /\ t.endedAt > -MaxDelay
                            /\ t.step = "handler" => t.endedAt = 0
        /\ \A w \in Workers : loop[w] # "claim"
        /\ queue' = [j \in Jobs |-> Aged(queue[j])]
        /\ tasks' = {Elapsed(t) : t \in tasks}
        /\ loop' = [w \in Workers |-> IF loop[w] = "sleep" THEN "top" ELSE loop[w]]
        /\ UNCHANGED <<stopping, claimed, faults>>
    BY DEF Tick, WorkerInv, WorkerTypeOK, TasksAreServed
  <1>2. \A t \in tasks : LET u == Elapsed(t)
                         IN  /\ u \in Task
                             /\ u.worker = t.worker /\ u.job = t.job /\ u.attempt = t.attempt
                             /\ u.step = t.step /\ u.leaseLost = t.leaseLost
                             /\ u.missed = t.missed
                             /\ u.endedAt = IF t.step = "handler" THEN 0 ELSE t.endedAt - 1
    BY <1>1, ElapsedType
  <1>3. \A u \in tasks' : u \in Task /\ (u.step = "handler" => u.endedAt = 0)
    BY <1>1, <1>2
  <1>4. queue' = [j \in Jobs |-> queue'[j]] /\ \A j \in Jobs : queue'[j] = Aged(queue[j])
    BY <1>1
  <1>5. RowsAreSound'
    <2>1. ASSUME NEW j \in Jobs
          PROVE  queue'[j] = NoRow \/ SoundRow(queue'[j])
      <3>1. CASE queue[j] = NoRow
        BY <1>4, <3>1 DEF Aged
      <3>2. CASE SoundRow(queue[j])
        BY <1>4, <3>2, AgedIsSound
      <3> QED
        BY <3>1, <3>2 DEF WorkerInv, RowsAreSound
    <2> QED
      BY <2>1 DEF RowsAreSound
  <1>6. FaultsGrow
    BY <1>1 DEF FaultsGrow, WorkerInv, WorkerTypeOK
  <1>7. LoopsMove
    <2>1. /\ loop \in [Workers -> Phase] /\ claimed \in [Workers -> BOOLEAN]
          /\ stopping \in [Workers -> BOOLEAN]
      BY DEF WorkerInv, WorkerTypeOK
    <2>2. loop' \in [Workers -> Phase]
      BY <1>1, <2>1 DEF Phase
    <2>3. \A w \in Workers : loop'[w] = IF loop[w] = "sleep" THEN "top" ELSE loop[w]
      BY <1>1
    <2>4. ASSUME NEW u \in tasks'
          PROVE  Serving(u.worker)'
      <3>1. PICK t \in tasks : u.worker = t.worker
        BY <1>1, <1>2, <2>4
      <3>2. t.worker \in Workers /\ Serving(t.worker)
        BY <1>1 DEF Task, WorkerInv, TasksAreServed
      <3> QED
        BY <2>3, <3>1, <3>2 DEF Serving
    <2>5. \A w \in Workers : loop'[w] # "claim"
      BY <1>1, <2>3
    <2> QED
      BY <1>1, <2>1, <2>2, <2>4, <2>5 DEF LoopsMove
  <1>8. SlotsCounted'
    <2>1. tasks \subseteq Task /\ IsFiniteSet(tasks)
      BY DEF WorkerInv, WorkerTypeOK, SlotsCounted
    <2>2. \A w \in Workers : IsFiniteSet(tasks') /\ Cardinality(InFlight(w)') <= Cardinality(InFlight(w))
      BY <1>1, <2>1, ElapsedTasks
    <2>3. IsFiniteSet(tasks')
      BY <1>1, <2>1, ElapsedTasks
    <2> QED
      BY <1>7, <2>2, <2>3, SlotsKept DEF WorkerInv, LoopsMove
  <1>9. ASSUME Steady
        PROVE  TasksStand' /\ OneTaskPerAttempt'
    <2>1. ASSUME NEW t \in tasks
          PROVE  Stands(Elapsed(t), queue'[Elapsed(t).job])
      <3>1. t.job \in Jobs /\ SoundRow(queue[t.job]) /\ Stands(t, queue[t.job])
        BY <1>9, TaskRow
      <3>2. Stands(Elapsed(t), Aged(queue[t.job]))
        BY <1>1, <3>1, StandsInTime
      <3> QED
        BY <1>2, <1>4, <3>1, <3>2
    <2>2. TasksStand'
      BY <1>1, <2>1 DEF TasksStand
    <2>3. OneTaskPerAttempt'
      BY <1>1, <1>2, <1>9 DEF WorkerInv, OneTaskPerAttempt
    <2> QED
      BY <2>2, <2>3
  <1>10. ASSUME faults' = 0
         PROVE  RowsAreServed'
    <2>1. RowsAreServed
      BY <1>1, <1>10 DEF WorkerInv
    <2>2. \A u \in tasks' : ~u.missed /\ ~u.leaseLost
      BY <1>1, <1>2, <2>1 DEF RowsAreServed
    <2>3. ASSUME NEW j \in Jobs, Running(j)'
          PROVE  \E u \in tasks' : /\ u.job = j
                                   /\ u.worker = queue'[j].lockedBy
                                   /\ u.attempt = queue'[j].attemptCount
      <3>1. queue'[j] = Aged(queue[j]) /\ queue'[j].status = "RUNNING"
        BY <1>4, <2>3 DEF Running
      <3>2. SoundRow(queue[j])
        BY <3>1 DEF WorkerInv, RowsAreSound, Aged, NoRow
      <3>3. /\ queue[j].status = "RUNNING" /\ queue'[j].lockedBy = queue[j].lockedBy
            /\ queue'[j].attemptCount = queue[j].attemptCount
        BY <3>1, <3>2, AgedIsSound
      <3>4. PICK t \in tasks : /\ t.job = j
                               /\ t.worker = queue[j].lockedBy
                               /\ t.attempt = queue[j].attemptCount
        BY <2>1, <3>3 DEF RowsAreServed, Running
      <3> QED
        BY <1>1, <1>2, <3>3, <3>4
    <2> QED
      BY <2>2, <2>3 DEF RowsAreServed, Running
  <1> QED
    BY <1>3, <1>4, <1>5, <1>6, <1>7, <1>8, <1>9, <1>10, Assembled

-----------------------------------------------------------------------------
(***************************************************************************)
(* The invariant and the theorems.                                         *)
(***************************************************************************)
LEMMA InitWorkerInv == WorkerInit => WorkerInv
  <1> SUFFICES ASSUME WorkerInit
               PROVE  WorkerInv
    OBVIOUS
  <1>1. queue = [j \in Jobs |-> NoRow] /\ tasks = {} /\ faults = 0
    BY DEF WorkerInit, Init
  <1>2. WorkerTypeOK
    BY <1>1, WorkerOptions DEF WorkerInit, WorkerTypeOK, TypeOK, Phase
  <1>3. RowsAreSound
    BY <1>1 DEF RowsAreSound
  <1>4. SlotsCounted
    <2>1. \A w \in Workers : InFlight(w) = {}
      BY <1>1 DEF InFlight
    <2>2. \A w \in Workers : loop[w] # "claim"
      BY DEF WorkerInit
    <2>3. IsFiniteSet(tasks) /\ Cardinality({}) = 0
      BY <1>1, FS_EmptySet
    <2>4. \A w \in Workers : Cardinality(InFlight(w)) = 0
      BY <2>1, <2>3
    <2>5. 0 <= Concurrency
      BY WorkerOptions
    <2> QED
      BY <2>2, <2>3, <2>4, <2>5 DEF SlotsCounted
  <1>5. TasksAreServed /\ TasksStand /\ OneTaskPerAttempt
    BY <1>1 DEF TasksAreServed, TasksStand, OneTaskPerAttempt
  <1>6. RowsAreServed
    BY <1>1 DEF RowsAreServed, Running, NoRow
  <1> QED
    BY <1>2, <1>3, <1>4, <1>5, <1>6 DEF WorkerInv

LEMMA NextWorkerInv == WorkerInv /\ [WorkerNext]_workerVars => WorkerInv'
  <1> SUFFICES ASSUME WorkerInv, [WorkerNext]_workerVars
               PROVE  WorkerInv'
    OBVIOUS
  <1>1. ASSUME NEW w \in Workers, LoopStep(w)
        PROVE  WorkerInv'
    BY <1>1, LoopOnly, LoopReclaims, ClaimStartsTask DEF LoopStep
  <1>2. ASSUME NEW w \in Workers, RequestStop(w)
        PROVE  WorkerInv'
    BY <1>2, StopRequested
  <1>3. ASSUME NEW t \in tasks, TaskStep(t)
        PROVE  WorkerInv'
    <2>1. CASE Beat(t)
      <3>1. CASE OwnsLease(t.worker, t.job, 0)
        BY <2>1, <3>1, BeatExtends DEF Beat
      <3>2. CASE ~OwnsLease(t.worker, t.job, 0)
        BY <2>1, <3>2, BeatFails
      <3> QED
        BY <3>1, <3>2
    <2>2. CASE HandlerEnds(t)
      BY <2>2, HandlerStops
    <2>3. CASE Report(t)
      BY <2>3, Reports
    <2> QED
      BY <1>3, <2>1, <2>2, <2>3 DEF TaskStep
  <1>4. CASE Misfortune
    BY <1>4, LoopReclaims, ClaimFails, ProcessDies, BeatFails, Reports DEF Misfortune
  <1>5. CASE Environment
    BY <1>5, EnvironmentActs
  <1>6. CASE Tick
    BY <1>6, TimePasses
  <1>7. CASE UNCHANGED workerVars
    <2>1. UNCHANGED <<queue, loop, stopping, claimed, tasks, faults>>
      BY <1>7 DEF workerVars
    <2>2. stopping' \in [Workers -> BOOLEAN]
      BY <2>1 DEF WorkerInv, WorkerTypeOK
    <2> QED
      BY <2>1, <2>2, LoopsStand, TableLeftAlone, QuietStep
  <1> QED
    BY <1>1, <1>2, <1>3, <1>4, <1>5, <1>6, <1>7 DEF WorkerNext

LEMMA WorkerInvHolds == WorkerSpec => []WorkerInv
  BY InitWorkerInv, NextWorkerInv, PTL DEF WorkerSpec

\* What the invariant says of running handlers, slots and exits.
LEMMA SteadyIsHealthy == WorkerInv /\ Steady => HealthyJobKept
  <1> SUFFICES ASSUME WorkerInv, Steady, NEW t \in tasks, t.step = "handler", ~t.missed
               PROVE  OwnsLease(t.worker, t.job, 0) /\ queue[t.job].attemptCount = t.attempt
    BY DEF HealthyJobKept
  <1>1. t \in Task /\ SoundRow(queue[t.job]) /\ Stands(t, queue[t.job]) /\ t.endedAt = 0
    BY TaskRow DEF WorkerInv, TasksAreServed
  <1>2. Holds(t, queue[t.job])
    BY <1>1 DEF Stands, Lost
  <1>3. t.dueIn \in Nat
    BY <1>1, WorkerOptions DEF Task
  <1> QED
    BY <1>1, <1>2, <1>3 DEF Holds, OwnsLease, Running, SoundRow

LEMMA ExitIsClean == WorkerInv => SlotsRespected /\ CleanExit
  <1> SUFFICES ASSUME WorkerInv
               PROVE  SlotsRespected /\ CleanExit
    OBVIOUS
  <1>1. SlotsRespected
    BY DEF WorkerInv, SlotsCounted, SlotsRespected
  <1>2. ASSUME NEW w \in Workers, loop[w] = "exited", faults = 0, NEW j \in Jobs,
               OwnsLease(w, j, 0)
        PROVE  FALSE
    <2>1. PICK t \in tasks : t.worker = queue[j].lockedBy
      BY <1>2 DEF OwnsLease, WorkerInv, RowsAreServed
    <2> QED
      BY <1>2, <2>1 DEF OwnsLease, WorkerInv, TasksAreServed, Serving
  <1> QED
    BY <1>1, <1>2 DEF CleanExit

\* When the report of a task settles its row, the row is held for the task's
\* attempt; no other step of a task changes the status of the row.
LEMMA SettlesItsOwn ==
    ASSUME WorkerInv, Steady, [WorkerNext]_workerVars, NEW t \in tasks \ tasks',
           queue'[t.job].status # queue[t.job].status
    PROVE  queue[t.job].attemptCount = t.attempt
  <1>1. ~UNCHANGED queue /\ ~UNCHANGED tasks
    OBVIOUS
  <1>2. /\ t.job \in Jobs /\ SoundRow(queue[t.job])
    BY TaskRow
  <1>3. ASSUME NEW w \in Workers, LoopStep(w) \/ RequestStop(w)
        PROVE  FALSE
    <2>1. UNCHANGED tasks \/ tasks \subseteq tasks'
      BY <1>3 DEF LoopStep, RequestStop, Start, Reclaim, Fill, ClaimOne, ClaimNone, SlotFreed,
                  LeaveLoop, Exit
    <2> QED
      BY <2>1
  <1>4. ASSUME NEW s \in tasks, TaskStep(s)
        PROVE  queue[t.job].attemptCount = t.attempt
    <2>1. CASE Beat(s)
      <3>1. Heartbeat(s.worker, s.job, 0)
        BY <1>1, <2>1 DEF Beat
      <3>2. s.job \in Jobs /\ SoundRow(queue[s.job])
        BY TaskRow
      <3>3. /\ queue[s.job].status = "RUNNING"
            /\ queue' = [queue EXCEPT ![s.job] = Extended(queue[s.job], 0)]
        BY <3>1 DEF Heartbeat, OwnsLease, Running
      <3>4. Extended(queue[s.job], 0).status = "RUNNING"
        BY <3>2, <3>3, ExtendedIsSound
      <3>5. queue'[t.job].status = queue[t.job].status
        BY <1>2, <3>2, <3>3, <3>4 DEF WorkerInv, WorkerTypeOK, TypeOK
      <3> QED
        BY <3>5
    <2>2. CASE HandlerEnds(s)
      BY <1>1, <2>2 DEF HandlerEnds
    <2>3. CASE Report(s)
      <3>1. s = t
        BY <2>3 DEF Report, Drop
      <3>2. OwnsLease(t.worker, t.job, t.endedAt)
        BY <1>1, <2>3, <3>1 DEF Report
      <3>3. Holds(t, queue[t.job])
        BY <3>2, TaskRow, OwnerHolds
      <3> QED
        BY <3>3 DEF Holds
    <2> QED
      BY <1>4, <2>1, <2>2, <2>3 DEF TaskStep
  <1>5. CASE Misfortune
    BY <1>1, <1>5 DEF Misfortune, ReclaimError, ClaimError, Crash, BeatError, ReportError
  <1>6. CASE Environment
    BY <1>1, <1>6 DEF Environment
  <1>7. CASE Tick
    <2>1. queue'[t.job] = Aged(queue[t.job])
      BY <1>2, <1>7 DEF Tick
    <2> QED
      BY <1>2, <2>1, AgedIsSound
  <1>8. CASE UNCHANGED workerVars
    BY <1>1, <1>8 DEF workerVars
  <1> QED
    BY <1>3, <1>4, <1>5, <1>6, <1>7, <1>8 DEF WorkerNext

\* With one slot per worker and any number of workers, jobs and faults: no job
\* is taken from a worker whose heartbeats arrive, no worker has more tasks than
\* its slot, none exits on a live lease, and the types hold.
THEOREM JobsStaySafe == ASSUME Concurrency = 1 PROVE WorkerSpec => []JobsAreSafe
  <1>1. WorkerInv => JobsAreSafe
    BY SteadyIsHealthy, ExitIsClean DEF JobsAreSafe, Steady, WorkerInv
  <1> QED
    BY <1>1, WorkerInvHolds, PTL

\* With any number of slots too, as long as nothing has failed; and types, slots
\* and exits are right whatever fails.
THEOREM SafeUntilFaults ==
    WorkerSpec => [](/\ WorkerTypeOK /\ SlotsRespected /\ CleanExit
                     /\ faults = 0 => HealthyJobKept)
  <1>1. WorkerInv => /\ WorkerTypeOK /\ SlotsRespected /\ CleanExit
                     /\ faults = 0 => HealthyJobKept
    BY SteadyIsHealthy, ExitIsClean DEF Steady, WorkerInv
  <1> QED
    BY <1>1, WorkerInvHolds, PTL

\* With one slot per worker, a report settles a row only for the attempt that
\* the row is leased for: an outcome that arrives late never settles a later
\* attempt, not even of the same worker.
THEOREM CurrentAttemptSettles ==
    ASSUME Concurrency = 1 PROVE WorkerSpec => OnlyTheCurrentAttemptSettles
  <1>1. WorkerInv /\ [WorkerNext]_workerVars =>
          [\A t \in tasks \ tasks' :
             queue'[t.job].status # queue[t.job].status
                => queue[t.job].attemptCount = t.attempt]_workerVars
    BY SettlesItsOwn DEF Steady
  <1> QED
    BY <1>1, WorkerInvHolds, PTL DEF WorkerSpec, OnlyTheCurrentAttemptSettles

\* Nor with any number of slots, until something fails.
THEOREM CurrentAttemptSettlesUntilFaults ==
    WorkerSpec =>
      [][faults = 0 => \A t \in tasks \ tasks' :
           queue'[t.job].status # queue[t.job].status
              => queue[t.job].attemptCount = t.attempt]_workerVars
  <1>1. WorkerInv /\ [WorkerNext]_workerVars =>
          [faults = 0 => \A t \in tasks \ tasks' :
             queue'[t.job].status # queue[t.job].status
                => queue[t.job].attemptCount = t.attempt]_workerVars
    BY SettlesItsOwn DEF Steady
  <1> QED
    BY <1>1, WorkerInvHolds, PTL DEF WorkerSpec

=============================================================================
