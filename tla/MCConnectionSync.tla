-------------------------- MODULE MCConnectionSync --------------------------
(***************************************************************************)
(* The queue's table with two rows, and the work of its jobs on a provider  *)
(* connection.  The connection's jobs are those of JobLifecycle, which the  *)
(* table is shown to implement, so a behaviour runs one of Parts.  For the  *)
(* connection, all actors at once are too many, and a behaviour is of one   *)
(* scenario from its beginning: what arrives, who runs, and how often       *)
(* things fail.                                                            *)
(***************************************************************************)
EXTENDS JobQueue, ConnectionSync

CONSTANTS
    Parts, deletion, update, notice, page, m1, cron, fullImport, discovery, k1, c1

MCSync == [jobType |-> "SYNC_CONNECTION", dedupeKey |-> k1, conn |-> c1,
           priority |-> 100, maxAttempts |-> 2]
MCWebhook == [jobType |-> "PROCESS_WEBHOOK", dedupeKey |-> None, conn |-> None,
              priority |-> 0, maxAttempts |-> 1]
MCUnhandled == [jobType |-> "SYNC_ACCOUNT", dedupeKey |-> k1, conn |-> c1,
                priority |-> 0, maxAttempts |-> 1]
MCQueueRequests == {MCSync, MCWebhook, MCUnhandled}

VARIABLES scenario, part

connectionVars == <<item, status, dated, accounts, event, stage, tries, budget, lock, pc,
                    seen, verdict, faults, lockLosses>>
mcVars == <<connectionVars, queue, scenario, part>>

MCKindOf == [e \in Events |-> CASE e = deletion -> "deleted"
                                [] e = update -> "refresh"
                                [] e = notice -> "notice"
                                [] e = page -> "transactions"]

\* The initial states, the actors and the bounds of each scenario.
Scenarios ==
    [webhooks   |-> [status |-> {"ACTIVE", "DISABLED"}, events |-> {deletion, update},
                     others |-> {}, tries |-> 2, faults |-> 1, losses |-> 0],
     revived    |-> [status |-> {"ACTIVE"}, events |-> {deletion},
                     others |-> {}, tries |-> 3, faults |-> 1, losses |-> 0],
     reconcile  |-> [status |-> {"ACTIVE"}, events |-> {deletion},
                     others |-> {m1, cron}, tries |-> 1, faults |-> 0, losses |-> 0],
     scheduled  |-> [status |-> {"ACTIVE"}, events |-> {deletion},
                     others |-> {cron}, tries |-> 1, faults |-> 1, losses |-> 0],
     requested  |-> [status |-> {"ACTIVE"}, events |-> {deletion},
                     others |-> {m1}, tries |-> 1, faults |-> 1, losses |-> 0],
     pages      |-> [status |-> {"SYNCING"}, events |-> {page, deletion},
                     others |-> {fullImport}, tries |-> 1, faults |-> 0, losses |-> 1],
     commands   |-> [status |-> {"SYNCING", "ABSENT"}, events |-> {deletion},
                     others |-> {fullImport, discovery}, tries |-> 1, faults |-> 0, losses |-> 1],
     discovered |-> [status |-> {"ABSENT"}, events |-> {page, deletion},
                     others |-> {discovery}, tries |-> 1, faults |-> 0, losses |-> 0]]

\* Nobody who is not of the scenario has done anything.
Within(s) ==
    /\ \A x \in Rows : x.event \in s.events \/ event[x] = "ABSENT"
    /\ \A m \in Manuals \ s.others : stage[m] = "unknown"
    /\ \A r \in (Schedulers \cup Importers \cup Discoverers) \ s.others : pc[r] = "idle"
    /\ \A j \in ConnectionJobs : tries[j] <= s.tries
    /\ faults <= s.faults
    /\ lockLosses <= s.losses

\* A part that does not run stays in one of its initial states.
MCInit ==
    /\ part \in Parts
    /\ Init /\ SyncInit
    /\ IF part = "connection" THEN scenario \in DOMAIN Scenarios ELSE scenario = "scheduled"
    /\ part # "connection" => item = "ACTIVE" /\ accounts = "none"
    /\ status \in Scenarios[scenario].status

MCNext ==
    /\ UNCHANGED <<scenario, part>>
    /\ \/ part = "table" /\ Next /\ UNCHANGED connectionVars
       \/ /\ part = "connection" /\ SyncNext /\ UNCHANGED queue
          /\ Within(Scenarios[scenario])'

MCSpec == MCInit /\ [][MCNext]_mcVars
=============================================================================
