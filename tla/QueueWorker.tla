---------------------------- MODULE QueueWorker -----------------------------
(***************************************************************************)
(* PersistentQueueWorker (apps/worker/src/queue-worker.ts): worker          *)
(* processes that share the job_queue table, each with its polling loop, a  *)
(* bounded set of concurrent tasks, one heartbeat timer per task, graceful  *)
(* stop on SIGTERM and abrupt death.                                        *)
(*                                                                         *)
(* Time.  Instants are measured from the present, which is 0: Tick moves    *)
(* every instant one unit towards the past.  complete() and fail() carry    *)
(* the instant at which the handler ended, and may take up to MaxDelay      *)
(* units to reach the table; instants before that are not told apart.  A    *)
(* claim, and a heartbeat unless it fails, is answered within the unit in   *)
(* which it is sent.  Handlers take any time.                              *)
(***************************************************************************)
EXTENDS JobQueue

CONSTANTS
    Concurrency,       \* tasks per worker
    HeartbeatInterval, \* heartbeatIntervalMs
    MaxDelay,          \* bound: how late a complete() or fail() arrives
    MaxFaults          \* bound: database errors and process deaths

\* What the constructor requires of its options.
ASSUME WorkerOptions ==
    /\ Concurrency \in Nat \ {0}
    /\ HeartbeatInterval \in 1..(LeaseDuration - 1)
    /\ MaxDelay \in Nat
    /\ MaxFaults \in Nat

\* The bound on attempts admits what the requests ask for.
ASSUME BudgetAssumption == \A req \in Requests : req.maxAttempts <= MaxAttemptCap

VARIABLES
    loop,     \* where run() and #fillCapacity() stand, per worker
    stopping, \* #stopRequested
    claimed,  \* the result of #fillCapacity() so far
    tasks,    \* #inFlight: the running #process() calls
    faults    \* database errors and deaths so far

workerVars == <<queue, loop, stopping, claimed, tasks, faults>>

Phase == {"new", "top", "fill", "claim", "full", "sleep", "drain", "exited", "crashed"}

Step == {"handler", "succeeded", "retryable", "permanent"}

\* endedAt is the instant at which the handler ended; missed remembers that
\* some heartbeat of this attempt failed.
Task == [worker    : Workers,
         job       : Jobs,
         attempt   : 1..MaxAttemptCap,
         step      : Step,
         dueIn     : 0..HeartbeatInterval,
         endedAt   : (-MaxDelay)..0,
         leaseLost : BOOLEAN,
         missed    : BOOLEAN]

WorkerTypeOK ==
    /\ TypeOK
    /\ loop \in [Workers -> Phase]
    /\ stopping \in [Workers -> BOOLEAN]
    /\ claimed \in [Workers -> BOOLEAN]
    /\ tasks \subseteq Task
    /\ faults \in 0..MaxFaults

WorkerInit ==
    /\ Init
    /\ loop = [w \in Workers |-> "new"]
    /\ stopping = [w \in Workers |-> FALSE]
    /\ claimed = [w \in Workers |-> FALSE]
    /\ tasks = {}
    /\ faults = 0

InFlight(w) == {t \in tasks : t.worker = w}
Full(w) == Cardinality(InFlight(w)) >= Concurrency
Serving(w) == loop[w] \notin {"new", "exited", "crashed"}
Remains(w) == loop[w] = "new" \/ (Serving(w) /\ ~stopping[w])

Goto(w, phase) == loop' = [loop EXCEPT ![w] = phase]
Fault == faults < MaxFaults /\ faults' = faults + 1

-----------------------------------------------------------------------------
(***************************************************************************)
(* run() and #fillCapacity().                                              *)
(***************************************************************************)
Start(w) ==
    /\ loop[w] = "new"
    /\ Goto(w, "top")
    /\ UNCHANGED <<queue, stopping, claimed, tasks, faults>>

\* requestStop() on SIGTERM.  The platform replaces a worker it stops.
RequestStop(w) ==
    /\ Serving(w) /\ ~stopping[w]
    /\ \E v \in Workers \ {w} : Remains(v)
    /\ stopping' = [stopping EXCEPT ![w] = TRUE]
    /\ UNCHANGED <<queue, loop, claimed, tasks, faults>>

\* The head of the loop and #reclaimExpired().
Reclaim(w) ==
    /\ loop[w] = "top" /\ ~stopping[w]
    /\ Goto(w, "fill")
    /\ claimed' = [claimed EXCEPT ![w] = FALSE]
    /\ IF \E j \in Jobs : Expired(j, 0) THEN ReclaimExpired(0) ELSE UNCHANGED queue
    /\ UNCHANGED <<stopping, tasks, faults>>

ReclaimError(w) ==
    /\ loop[w] = "top" /\ ~stopping[w]
    /\ Fault
    /\ Goto(w, "fill")
    /\ claimed' = [claimed EXCEPT ![w] = FALSE]
    /\ UNCHANGED <<queue, stopping, tasks>>

\* Where run() goes when #fillCapacity() returns.
AfterFill(w) == IF stopping[w] THEN "drain"
                ELSE IF Full(w) THEN "full"
                ELSE IF claimed[w] THEN "top" ELSE "sleep"

\* The head of the loop in #fillCapacity(): claim, or return.
Fill(w) ==
    /\ loop[w] = "fill"
    /\ Goto(w, IF stopping[w] \/ Full(w) THEN AfterFill(w) ELSE "claim")
    /\ UNCHANGED <<queue, stopping, claimed, tasks, faults>>

NewTask(w, j) == [worker    |-> w,
                  job       |-> j,
                  attempt   |-> queue[j].attemptCount + 1,
                  step      |-> "handler",
                  dueIn     |-> HeartbeatInterval,
                  endedAt   |-> 0,
                  leaseLost |-> FALSE,
                  missed    |-> FALSE]

\* The answer to a claim.  A stop requested meanwhile does not undo it.
ClaimOne(w) ==
    /\ loop[w] = "claim"
    /\ \E j \in Jobs : /\ ClaimJob(w, j, HandledJobTypes, 0)
                       /\ tasks' = tasks \cup {NewTask(w, j)}
    /\ Goto(w, "fill")
    /\ claimed' = [claimed EXCEPT ![w] = TRUE]
    /\ UNCHANGED <<stopping, faults>>

ClaimNone(w) ==
    /\ loop[w] = "claim"
    /\ \A j \in Jobs : ~Claimable(j, HandledJobTypes, 0)
    /\ Goto(w, AfterFill(w))
    /\ UNCHANGED <<queue, stopping, claimed, tasks, faults>>

\* The statement fails, or commits and its answer is lost with the connection:
\* then the row is leased to a worker that does not know.
ClaimError(w) ==
    /\ loop[w] = "claim"
    /\ Fault
    /\ UNCHANGED queue \/ Claim(w, HandledJobTypes, 0)
    /\ Goto(w, AfterFill(w))
    /\ UNCHANGED <<stopping, claimed, tasks>>

\* Promise.race over the tasks in flight, which requestStop() does not wake.
SlotFreed(w) ==
    /\ loop[w] = "full" /\ ~Full(w)
    /\ Goto(w, IF stopping[w] THEN "drain" ELSE "top")
    /\ UNCHANGED <<queue, stopping, claimed, tasks, faults>>

\* Mutant: only the polling delay notices the stop.
MutLeaveLoop(w) ==
    /\ loop[w] = "sleep" /\ stopping[w]
    /\ Goto(w, "drain")
    /\ UNCHANGED <<queue, stopping, claimed, tasks, faults>>

\* requestStop() aborts the polling delay, and the head of the loop sees it.
LeaveLoop(w) ==
    /\ loop[w] \in {"sleep", "top"} /\ stopping[w]
    /\ Goto(w, "drain")
    /\ UNCHANGED <<queue, stopping, claimed, tasks, faults>>

\* Promise.all over the tasks in flight; then run() returns.
Exit(w) ==
    /\ loop[w] = "drain" /\ InFlight(w) = {}
    /\ Goto(w, "exited")
    /\ UNCHANGED <<queue, stopping, claimed, tasks, faults>>

\* The process dies with everything it has in memory.
Crash(w) ==
    /\ Serving(w)
    /\ \E v \in Workers \ {w} : Remains(v)
    /\ Fault
    /\ Goto(w, "crashed")
    /\ tasks' = tasks \ InFlight(w)
    /\ UNCHANGED <<queue, stopping, claimed>>

-----------------------------------------------------------------------------
(***************************************************************************)
(* #process().                                                             *)
(***************************************************************************)
Replace(t, u) == tasks' = (tasks \ {t}) \cup {u}
Drop(t) == tasks' = tasks \ {t}

BeatDue(t) == t.step = "handler" /\ ~t.leaseLost /\ t.dueIn = 0

\* The heartbeat timer of a task.
Beat(t) ==
    /\ BeatDue(t)
    /\ IF OwnsLease(t.worker, t.job, 0)
       THEN /\ Heartbeat(t.worker, t.job, 0)
            /\ Replace(t, [t EXCEPT !.dueIn = HeartbeatInterval])
       ELSE /\ Replace(t, [t EXCEPT !.leaseLost = TRUE])
            /\ UNCHANGED queue
    /\ UNCHANGED <<loop, stopping, claimed, faults>>

\* Any error but QueueLeaseLostError is reported and the timer goes on.
BeatError(t) ==
    /\ BeatDue(t)
    /\ Fault
    /\ Replace(t, [t EXCEPT !.dueIn = HeartbeatInterval, !.missed = TRUE])
    /\ UNCHANGED <<queue, loop, stopping, claimed>>

\* The handler returns or throws, which stops the timer.  After a lost lease
\* the outcome is discarded.
HandlerEnds(t) ==
    /\ t.step = "handler"
    /\ IF t.leaseLost
       THEN Drop(t)
       ELSE \E step \in Step \ {"handler"} : Replace(t, [t EXCEPT !.step = step])
    /\ UNCHANGED <<queue, loop, stopping, claimed, faults>>

\* retryAt(): the backoff times 0.75 to 1.25, within 1 s and the cap, rounded up
\* to whole units.
JitteredBackoff(attempt) ==
    LET least == (3 * Backoff(attempt) + 3) \div 4
        most  == (5 * Backoff(attempt) + 3) \div 4
    IN  least..(IF most < BackoffCap THEN most ELSE BackoffCap)

\* complete() or fail(); a lost lease is only reported.
Report(t) ==
    /\ t.step # "handler"
    /\ Drop(t)
    /\ IF ~OwnsLease(t.worker, t.job, t.endedAt) THEN UNCHANGED queue
       ELSE \/ t.step = "succeeded" /\ Complete(t.worker, t.job, t.endedAt)
            \/ t.step = "permanent" /\ Fail(t.worker, t.job, t.endedAt, None)
            \/ /\ t.step = "retryable"
               /\ \E d \in JitteredBackoff(t.attempt) :
                    Fail(t.worker, t.job, t.endedAt, t.endedAt + d)
    /\ UNCHANGED <<loop, stopping, claimed, faults>>

\* The outcome cannot be recorded; the row stays leased until it expires.
ReportError(t) ==
    /\ t.step # "handler"
    /\ Fault
    /\ Drop(t)
    /\ UNCHANGED <<queue, loop, stopping, claimed>>

-----------------------------------------------------------------------------
(***************************************************************************)
(* Time and the rest of the system.                                        *)
(***************************************************************************)
Earlier(instant) ==
    IF instant \in Int /\ instant > -MaxDelay THEN instant - 1 ELSE instant

Aged(row) == IF row = NoRow THEN row
             ELSE [row EXCEPT !.availableAt = Earlier(@),
                              !.heartbeatAt = Earlier(@),
                              !.leaseExpiresAt = Earlier(@)]

Elapsed(t) == IF t.step # "handler" THEN [t EXCEPT !.endedAt = @ - 1]
              ELSE IF t.leaseLost THEN t ELSE [t EXCEPT !.dueIn = @ - 1]

\* Polling delays end with the unit in which they start.
Tick ==
    /\ \A t \in tasks : ~BeatDue(t) /\ t.endedAt > -MaxDelay
    /\ \A w \in Workers : loop[w] # "claim"
    /\ queue' = [j \in Jobs |-> Aged(queue[j])]
    /\ tasks' = {Elapsed(t) : t \in tasks}
    /\ loop' = [w \in Workers |-> IF loop[w] = "sleep" THEN "top" ELSE loop[w]]
    /\ UNCHANGED <<stopping, claimed, faults>>

\* Requests arrive, an operator retries dead letters, connections are deleted.
Environment ==
    /\ \/ \E req \in Requests : Insert(req, 0)
       \/ \E j \in Jobs : RetryDeadLetter(j, 0)
       \/ \E c \in Conns : JobsOf(c) # {} /\ KillConnectionJobs(c)
    /\ UNCHANGED <<loop, stopping, claimed, tasks, faults>>

LoopStep(w) ==
    \/ Start(w) \/ Reclaim(w) \/ Fill(w) \/ ClaimOne(w) \/ ClaimNone(w)
    \/ SlotFreed(w) \/ LeaveLoop(w) \/ Exit(w)

TaskStep(t) == Beat(t) \/ HandlerEnds(t) \/ Report(t)

Misfortune ==
    \/ \E w \in Workers : ReclaimError(w) \/ ClaimError(w) \/ Crash(w)
    \/ \E t \in tasks : BeatError(t) \/ ReportError(t)

WorkerNext ==
    \/ \E w \in Workers : LoopStep(w) \/ RequestStop(w)
    \/ \E t \in tasks : TaskStep(t)
    \/ Misfortune
    \/ Environment
    \/ Tick

WorkerSpec == WorkerInit /\ [][WorkerNext]_workerVars

\* Timers fire, awaited calls are answered and handlers end: each of these is
\* one pending promise of the Node event loop.
WorkerFairness ==
    /\ WF_workerVars(Tick)
    /\ \A w \in Workers : WF_workerVars(LoopStep(w))
    /\ \A w \in Workers, j \in Jobs, a \in 1..MaxAttemptCap :
         /\ WF_workerVars(\E t \in tasks : /\ <<t.worker, t.job, t.attempt>> = <<w, j, a>>
                                           /\ Beat(t))
         /\ WF_workerVars(\E t \in tasks : /\ <<t.worker, t.job, t.attempt>> = <<w, j, a>>
                                           /\ HandlerEnds(t) \/ Report(t))

FairWorkerSpec == WorkerSpec /\ WorkerFairness

-----------------------------------------------------------------------------
(***************************************************************************)
(* Properties.                                                             *)
(***************************************************************************)
\* A healthy long-running job is not reclaimed: as long as none of its
\* heartbeats has failed, a running handler's row is leased to its worker,
\* for its attempt.
HealthyJobKept ==
    \A t \in tasks :
        t.step = "handler" /\ ~t.missed =>
            /\ OwnsLease(t.worker, t.job, 0)
            /\ queue[t.job].attemptCount = t.attempt

\* A worker that lost its lease cannot settle the job: when the report of an
\* attempt changes the row, the row is still leased for that very attempt.
OnlyTheCurrentAttemptSettles ==
    [][\A t \in tasks \ tasks' :
         queue'[t.job].status # queue[t.job].status
            => queue[t.job].attemptCount = t.attempt]_workerVars

\* A worker never has more tasks in flight than it has slots, although the loop
\* awaits between counting them and starting the next.
SlotsRespected == \A w \in Workers : Cardinality(InFlight(w)) <= Concurrency

\* Without database errors, a worker that has exited leaves no live lease
\* behind: a stop requested while a claim is under way does not orphan the
\* claimed job until its lease runs out.
CleanExit ==
    \A w \in Workers : loop[w] = "exited" /\ faults = 0 =>
        \A j \in Jobs : ~OwnsLease(w, j, 0)

\* No job is taken from a healthy worker, no worker takes more than it can serve,
\* and none leaves a job behind; what workers and rows hold keeps its type.
JobsAreSafe == WorkerTypeOK /\ HealthyJobKept /\ SlotsRespected /\ CleanExit

\* A job of a handled type does not stay in the queue for ever, whatever
\* workers die, whatever calls fail (finitely often) and however leases expire.
EveryJobSettles ==
    \A j \in Jobs :
        (Active(j) /\ queue[j].request.jobType \in HandledJobTypes) ~> Terminal(j)

\* SIGTERM ends the process: a stopping worker drains and exits, unless it dies.
StopTerminates == \A w \in Workers : stopping[w] ~> ~Serving(w)

=============================================================================
