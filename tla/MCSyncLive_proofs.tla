-------------------------- MODULE MCSyncLive_proofs --------------------------
(***************************************************************************)
(* What a synchronization promises, and what it waits for, for any          *)
(* constants: the events, jobs and processes of ConnectionSync, the         *)
(* advisory locks of LockPool and the requests of ProviderClient.           *)
(*                                                                           *)
(* Successful jobs have dealt with their event, what has ended stays so,    *)
(* and nothing is done on a state that holds no longer. The inductive       *)
(* invariant SyncInv is about each run by itself (RunInv), because runs     *)
(* meet only in the state they share. A step of another run keeps it for    *)
(* two reasons: shared state moves one way (OneWay), and who closes the     *)
(* connection holds its lock, as long as no lock was lost.                  *)
(*                                                                           *)
(* The other inductive invariants are LockInv, who uses which client of the *)
(* pool, and ClientInv, which API keys exist and who knows them.            *)
(***************************************************************************)
EXTENDS MCSyncLive, TLAPS

-----------------------------------------------------------------------------
(* The inductive invariant.                                                 *)

\* Each kind of run is only at places of its code.
AtItsPlace(r) ==
    /\ pc[r] \in {"load", "report", "over"} => r \in Attempts
    /\ pc[r] = "record" => IsWebhook(r)
    /\ pc[r] \in {"lock"} \cup (Section \ {"import", "collect", "apply"}) => r \in Locking
    /\ pc[r] \in {"refresh", "await", "confirm", "final"} => Reconciles(r)
    /\ pc[r] \in {"import", "collect"} => r \notin Discoverers
    /\ pc[r] = "apply" => r \notin Importers
    /\ KindIs(r, {"deleted"}) =>
         pc[r] \notin {"syncing", "fetch", "import", "collect", "apply"}
    /\ KindIs(r, {"transactions"}) =>
         pc[r] \notin {"syncing", "fetch", "import", "apply", "delete"}

\* What is applied in the end is a snapshot of the Item.
HasSnapshot(r) ==
    pc[r] = "apply" \/ (pc[r] \in {"import", "collect"} /\ KindIs(r, {"refresh", "notice"}))
    => seen[r] \in Snapshot

\* An attempt at an event has an inbox row, which was mapped if it went past
\* load(), and is settled when the attempt reports success.
KnowsItsRow(r) ==
    IsWebhook(r) =>
      /\ pc[r] # "idle" => event[r[1]] # "ABSENT"
      /\ pc[r] \in {"lock", "record"} \cup Section => event[r[1]] # "UNMAPPED"
      /\ pc[r] = "report" /\ verdict[r] = "ok" => InboxSettled(r[1])

\* The handler of a deletion does not end well before the connection is deleted.
HasDeleted(r) ==
    KindIs(r, {"deleted"}) /\ pc[r] \in {"unlock", "record"} /\ verdict[r] = "ok"
    => status = "DELETED"

\* A section is entered and left with the lock, unless its session is gone.
HoldsLock(r) == r \in Locking /\ pc[r] \in Section /\ lockLosses = 0 => lock = r

\* Between its check and its request, a reconciliation's connection is open.
StillOpen(r) ==
    Reconciles(r) /\ pc[r] \in {"fetch", "refresh"} /\ lockLosses = 0 => status \notin Closed

\* Data has been collected before a healthy Item is applied.
HasCollected(r) ==
    /\ r \in Locking /\ ~KindIs(r, {"transactions"})
    /\ pc[r] \in {"collect", "confirm", "final"} \/ (pc[r] = "apply" /\ seen[r] = "ACTIVE")
    => accounts = "active" \/ status = "DELETED"

RunInv(r) ==
    /\ AtItsPlace(r) /\ HasSnapshot(r) /\ KnowsItsRow(r) /\ HasDeleted(r)
    /\ HoldsLock(r) /\ StillOpen(r) /\ HasCollected(r)

\* The job of an inbox row is submitted with it.
RowsHaveJobs == \A x \in Rows : stage[x] = "unknown" <=> event[x] = "ABSENT"

\* The next attempt at a job finds its place unused.
NextIsIdle == \A r \in Attempts : r[2] > tries[r[1]] => pc[r] = "idle"

SyncInv == SuccessIsReal /\ RowsHaveJobs /\ NextIsIdle /\ \A r \in Runs : RunInv(r)

-----------------------------------------------------------------------------
(* Runs and how they move.                                                  *)

\* What a run is of.
LEMMA KindsOfRuns ==
  ASSUME NEW r \in Runs
  PROVE  /\ IsWebhook(r) => r \in Attempts /\ r[1] \in Rows /\ KindOf[r[1].event] \in Kind
         /\ r \in Attempts => r \in Locking /\ r[1] \in ConnectionJobs /\ r[2] \in 1..MaxTries
         /\ r \in Locking <=> IsWebhook(r) \/ Reconciles(r)
         /\ ~(IsWebhook(r) /\ Reconciles(r))
         /\ r \in Schedulers => Reconciles(r) /\ r \notin Attempts
         /\ r \in Locking => r \notin Importers /\ r \notin Discoverers
         /\ r \in Importers => r \notin Discoverers
         /\ r \notin Locking => r \in Importers \/ r \in Discoverers
         /\ r # None
  BY KindAssumption, DistinctAssumption
  DEF Runs, Locking, Attempts, ConnectionJobs, IsWebhook, Reconciles, Rows

\* Only r moves.
Moves(r) ==
    /\ pc' = [pc EXCEPT ![r] = pc'[r]] /\ pc'[r] \in Place
    /\ seen' = [seen EXCEPT ![r] = seen'[r]] /\ seen'[r] \in Snapshot \cup {None}
    /\ verdict' = [verdict EXCEPT ![r] = verdict'[r]] /\ verdict'[r] \in {"ok", "retry", "stop"}

LEMMA GotoMoves ==
  ASSUME SyncTypeOK, NEW r \in Runs, NEW p \in Place, Goto(r, p)
  PROVE  Moves(r) /\ pc'[r] = p /\ seen' = seen /\ verdict' = verdict
  BY DEF SyncTypeOK, Goto, Moves

LEMMA GotoWithMoves ==
  ASSUME SyncTypeOK, NEW r \in Runs, NEW p \in Place, NEW x \in Snapshot, GotoWith(r, p, x)
  PROVE  Moves(r) /\ pc'[r] = p /\ seen'[r] = x /\ verdict' = verdict
  BY DEF SyncTypeOK, GotoWith, Moves

LEMMA LeaveMoves ==
  ASSUME SyncTypeOK, NEW r \in Runs, NEW o \in {"ok", "retry", "stop"}, Leave(r, o)
  PROVE  /\ Moves(r)
         /\ pc'[r] = IF r \in Locking THEN "unlock" ELSE "idle"
         /\ verdict'[r] = IF r \in Attempts THEN o ELSE "ok"
  BY DEF SyncTypeOK, Leave, Moves, Place, Section

-----------------------------------------------------------------------------
(* Steps of others.                                                         *)

\* Shared state moves one way.
OneWay ==
    /\ \A x \in Rows : /\ event[x] \in {"PROCESSED", "UNMAPPED"} => event'[x] = event[x]
                       /\ event[x] # "ABSENT" => event'[x] # "ABSENT"
                       /\ event[x] \notin {"ABSENT", "UNMAPPED"} => event'[x] # "UNMAPPED"
    /\ status = "DELETED" => status' = "DELETED"
    /\ accounts = "active" => accounts' = "active" \/ status' = "DELETED"
    /\ lockLosses' = 0 => lockLosses = 0

\* A run that does not move keeps its invariant, unless its lock is taken away or
\* its connection closed behind its back.
LEMMA OthersKeep ==
  ASSUME SyncTypeOK, OneWay, NEW s \in Runs, RunInv(s),
         pc'[s] = pc[s], seen'[s] = seen[s], verdict'[s] = verdict[s],
         lock = s /\ lockLosses' = 0 => lock' = s,
         lock = s /\ lockLosses' = 0 /\ status \notin Closed => status' \notin Closed
  PROVE  RunInv(s)'
<1> USE KindsOfRuns DEF RunInv, OneWay
<1>1. AtItsPlace(s)' /\ HasSnapshot(s)'
  BY DEF AtItsPlace, HasSnapshot, KindIs, IsWebhook, Reconciles
<1>2. KnowsItsRow(s)'
  BY DEF KnowsItsRow, InboxSettled, IsWebhook, Section
<1>3. HasDeleted(s)' /\ HasCollected(s)'
  BY DEF HasDeleted, HasCollected, KindIs, IsWebhook
<1>4. HoldsLock(s)' /\ StillOpen(s)'
  BY DEF HoldsLock, StillOpen, Reconciles, Section
<1> QED
  BY <1>1, <1>2, <1>3, <1>4

LEMMA RunsKeep ==
  ASSUME SyncInv, OneWay, NEW r \in Runs, Moves(r), RunInv(r)',
         \A s \in Runs \ {r} : lock = s => lock' = s,
         status \notin Closed /\ status' \in Closed /\ lockLosses' = 0 => lock = r
  PROVE  \A s \in Runs : RunInv(s)'
<1> SUFFICES ASSUME NEW s \in Runs, s # r PROVE RunInv(s)'
  OBVIOUS
<1>1. SyncTypeOK /\ RunInv(s)
  BY DEF SyncInv, SuccessIsReal
<1>2. pc'[s] = pc[s] /\ seen'[s] = seen[s] /\ verdict'[s] = verdict[s]
  BY <1>1 DEF SyncTypeOK, Moves
<1> QED
  BY <1>1, <1>2, OthersKeep

\* A step of r that changes nothing else than the lock and the Item.
LEMMA QuietStep ==
  ASSUME SyncInv, NEW r \in Runs, Moves(r), RunInv(r)', r \in Attempts => pc[r] # "idle",
         UNCHANGED <<connVars, event, jobVars, faultVars>>,
         item' \in Snapshot \cup {"GONE"}, lock' \in Locking \cup {None},
         \A s \in Runs \ {r} : lock = s => lock' = s
  PROVE  SyncInv'
<1> USE DEF connVars, jobVars, faultVars
<1>1. SyncTypeOK /\ SyncTypeOK'
  BY DEF SyncInv, SuccessIsReal, SyncTypeOK, Moves
<1>2. SuccessIsReal'
  BY <1>1 DEF SyncInv, SuccessIsReal
<1>3. RowsHaveJobs'
  BY DEF SyncInv, RowsHaveJobs
<1>4. NextIsIdle'
  BY <1>1, KindsOfRuns DEF SyncInv, NextIsIdle, Moves, SyncTypeOK, Runs, Locking
<1>5. OneWay
  BY DEF OneWay
<1>6. \A s \in Runs : RunInv(s)'
  BY <1>5, RunsKeep
<1> QED
  BY <1>2, <1>3, <1>4, <1>6 DEF SyncInv

\* A run that leaves its section.
LEMMA LeaveKeeps ==
  ASSUME SyncInv, NEW r \in Runs, NEW o \in {"ok", "retry", "stop"}, pc[r] \in Section,
         Leave(r, o), UNCHANGED <<event, lock, lockLosses>>,
         KindIs(r, {"deleted"}) /\ o = "ok" => status' = "DELETED"
  PROVE  RunInv(r)'
<1>1. RunInv(r) /\ SyncTypeOK
  BY DEF SyncInv, SuccessIsReal
<1>2. pc'[r] = (IF r \in Locking THEN "unlock" ELSE "idle")
      /\ verdict'[r] = (IF r \in Attempts THEN o ELSE "ok")
  BY <1>1, LeaveMoves
<1> USE <1>1, <1>2, KindsOfRuns DEF RunInv, Section
<1>3. AtItsPlace(r)' /\ HasSnapshot(r)'
  BY DEF AtItsPlace, HasSnapshot, KindIs, IsWebhook, Reconciles
<1>4. KnowsItsRow(r)'
  BY DEF KnowsItsRow, IsWebhook
<1>5. HasDeleted(r)' /\ HasCollected(r)'
  BY DEF HasDeleted, HasCollected, KindIs, IsWebhook
<1>6. HoldsLock(r)' /\ StillOpen(r)'
  BY DEF HoldsLock, StillOpen, Reconciles
<1> QED
  BY <1>3, <1>4, <1>5, <1>6

-----------------------------------------------------------------------------
(* The steps of the runs that only move.                                    *)

LEMMA LoadKeeps ==
  ASSUME SyncInv, NEW r \in Runs, Load(r) PROVE SyncInv'
<1>1. RunInv(r) /\ SyncTypeOK
  BY DEF SyncInv, SuccessIsReal
<1>2. Moves(r) /\ pc'[r] \in {"report", "lock", "record"}
      /\ (pc'[r] = "report" /\ IsWebhook(r) => InboxSettled(r[1]))
      /\ (pc'[r] = "record" => IsWebhook(r) /\ verdict'[r] # "ok")
      /\ (pc'[r] \in {"lock", "record"} /\ IsWebhook(r) => ~InboxSettled(r[1]))
  BY <1>1, GotoMoves, KindsOfRuns DEF Load, Moves, SyncTypeOK, Place
<1>3. RunInv(r)'
  BY <1>1, <1>2, KindsOfRuns
  DEF Load, At, RunInv, AtItsPlace, HasSnapshot, KnowsItsRow, HasDeleted, HoldsLock, StillOpen,
      HasCollected, KindIs, IsWebhook, Reconciles, InboxSettled, Section
<1> QED
  BY <1>1, <1>2, <1>3, QuietStep DEF Load, At, SyncTypeOK

LEMMA AcquireKeeps ==
  ASSUME SyncInv, NEW r \in Runs, Acquire(r) PROVE SyncInv'
<1>1. RunInv(r) /\ SyncTypeOK
  BY DEF SyncInv, SuccessIsReal
<1>2. r \in Locking
  BY <1>1 DEF RunInv, AtItsPlace, Acquire, At
<1>3. Moves(r) /\ pc'[r] = "resolve" /\ seen' = seen /\ verdict' = verdict
  BY <1>1, GotoMoves DEF Acquire, Place, Section
<1>4. RunInv(r)'
  BY <1>1, <1>2, <1>3, KindsOfRuns
  DEF Acquire, At, RunInv, AtItsPlace, HasSnapshot, KnowsItsRow, HasDeleted, HoldsLock,
      StillOpen, HasCollected, KindIs, IsWebhook, Reconciles, InboxSettled, Section
<1> QED
  BY <1>1, <1>2, <1>3, <1>4, QuietStep, KindsOfRuns DEF Acquire, At, SyncTypeOK

\* Where a run goes from its section.
LEMMA AfterUnlockPlace ==
  ASSUME NEW r \in Runs, r \in Locking
  PROVE  /\ AfterUnlock(r) \in {"record", "idle", "report"}
         /\ AfterUnlock(r) = "record" <=> IsWebhook(r)
         /\ AfterUnlock(r) = "report" => r \in Attempts
<1>1. CASE IsWebhook(r)
  BY <1>1, KindsOfRuns DEF AfterUnlock
<1>2. CASE r \in Schedulers
  BY <1>2, KindsOfRuns DEF AfterUnlock
<1>3. CASE ~IsWebhook(r) /\ r \notin Schedulers
  <2>1. AfterUnlock(r) = "report"
    BY <1>3 DEF AfterUnlock
  <2> QED
    BY <1>3, <2>1 DEF Locking
<1> QED
  BY <1>1, <1>2, <1>3

LEMMA UnlockKeeps ==
  ASSUME SyncInv, NEW r \in Runs, Unlock(r) PROVE SyncInv'
<1>1. RunInv(r) /\ SyncTypeOK
  BY DEF SyncInv, SuccessIsReal
<1>2. r \in Locking
  BY <1>1 DEF RunInv, AtItsPlace, Unlock, At, Section
<1>3. /\ AfterUnlock(r) \in {"record", "idle", "report"}
      /\ AfterUnlock(r) = "record" <=> IsWebhook(r)
      /\ AfterUnlock(r) = "report" => r \in Attempts
  BY <1>2, AfterUnlockPlace
<1>4. \/ lock = r /\ lock' = None /\ verdict' = verdict
      \/ lock # r /\ lock' = lock /\ verdict' = [verdict EXCEPT ![r] = "retry"]
  BY DEF Unlock
<1>5. pc' = [pc EXCEPT ![r] = AfterUnlock(r)] /\ pc'[r] = AfterUnlock(r) /\ seen' = seen
  BY <1>1 DEF Unlock, SyncTypeOK
<1>6. Moves(r) /\ (verdict'[r] = "ok" => verdict[r] = "ok")
  BY <1>1, <1>3, <1>4, <1>5 DEF Moves, SyncTypeOK, Place
<1>7. RunInv(r)'
  BY <1>1, <1>2, <1>3, <1>5, <1>6, KindsOfRuns
  DEF Unlock, connVars, faultVars, At, RunInv, AtItsPlace, HasSnapshot, KnowsItsRow, HasDeleted, HoldsLock,
      StillOpen, HasCollected, KindIs, IsWebhook, Reconciles, InboxSettled, Section
<1> QED
  BY <1>1, <1>4, <1>6, <1>7, QuietStep DEF Unlock, At, SyncTypeOK

\* A run in its section that goes on or leaves, and changes at most the Item.
LEMMA SectionQuiet ==
  ASSUME SyncInv, NEW r \in Runs, pc[r] \in Section, Moves(r), RunInv(r)',
         UNCHANGED <<connVars, event, jobVars, lock, faultVars>>,
         item' \in Snapshot \cup {"GONE"}
  PROVE  SyncInv'
<1>1. SyncTypeOK
  BY DEF SyncInv, SuccessIsReal
<1> QED
  BY <1>1, QuietStep DEF SyncTypeOK, Section

LEMMA ResolveKeeps ==
  ASSUME SyncInv, NEW r \in Runs, Resolve(r) PROVE SyncInv'
<1>1. RunInv(r) /\ SyncTypeOK /\ pc[r] = "resolve"
  BY DEF SyncInv, SuccessIsReal, Resolve, At
<1>2. r \in Locking
  BY <1>1 DEF RunInv, AtItsPlace, Section
<1>3. ASSUME NEW o \in {"ok", "retry", "stop"}, Leave(r, o), KindIs(r, {"deleted"}) => o # "ok"
      PROVE  Moves(r) /\ RunInv(r)'
  BY <1>1, <1>3, LeaveKeeps, LeaveMoves DEF Resolve, connVars, faultVars, Section
<1>4. ASSUME NEW p \in {"delete", "syncing", "fetch", "collect"}, Goto(r, p),
             \/ p = "delete" /\ KindIs(r, {"deleted"})
             \/ p = "syncing" /\ KindIs(r, {"refresh"})
             \/ p = "fetch" /\ (KindIs(r, {"notice"}) \/ (Reconciles(r) /\ Enabled))
             \/ p = "collect" /\ KindIs(r, {"transactions"})
      PROVE  Moves(r) /\ RunInv(r)'
  <2>1. Moves(r) /\ pc'[r] = p /\ seen' = seen /\ verdict' = verdict
    BY <1>1, <1>4, GotoMoves DEF Place, Section
  <2> QED
    BY <1>1, <1>2, <1>4, <2>1, KindsOfRuns
    DEF Resolve, Enabled, RunInv, AtItsPlace, HasSnapshot, KnowsItsRow, HasDeleted, HoldsLock,
        StillOpen, HasCollected, KindIs, IsWebhook, Reconciles, InboxSettled, Section, Kind,
        connVars, faultVars, Snapshot, Closed
<1>5. Moves(r) /\ RunInv(r)'
  BY <1>3, <1>4, KindsOfRuns DEF Resolve, Ignores, Abort, KindIs
<1> QED
  BY <1>1, <1>5, SectionQuiet DEF Resolve, Section, SyncTypeOK

LEMMA FetchKeeps ==
  ASSUME SyncInv, NEW r \in Runs, Fetch(r) PROVE SyncInv'
<1>1. RunInv(r) /\ SyncTypeOK /\ pc[r] = "fetch"
  BY DEF SyncInv, SuccessIsReal, Fetch, At
<1>2. r \in Locking
  BY <1>1 DEF RunInv, AtItsPlace, Section
<1>3. ASSUME Leave(r, "retry") PROVE Moves(r) /\ RunInv(r)'
  BY <1>1, <1>3, LeaveKeeps, LeaveMoves DEF Fetch, faultVars, Section
<1>4. ASSUME NEW p \in {"import", "apply"}, GotoWith(r, p, item), item \in Snapshot,
             p = "apply" => item # "ACTIVE"
      PROVE  Moves(r) /\ RunInv(r)'
  <2>1. Moves(r) /\ pc'[r] = p /\ seen'[r] = item /\ verdict' = verdict
    BY <1>1, <1>4, GotoWithMoves DEF Place, Section
  <2> QED
    BY <1>1, <1>2, <1>4, <2>1, KindsOfRuns
    DEF Fetch, RunInv, AtItsPlace, HasSnapshot, KnowsItsRow, HasDeleted, HoldsLock,
        StillOpen, HasCollected, KindIs, IsWebhook, Reconciles, InboxSettled, Section,
        connVars, faultVars
<1>5. ASSUME NEW p \in {"delete", "syncing", "refresh"}, Goto(r, p),
             p \in {"syncing", "refresh"} => Reconciles(r)
      PROVE  Moves(r) /\ RunInv(r)'
  <2>1. Moves(r) /\ pc'[r] = p /\ seen' = seen /\ verdict' = verdict
    BY <1>1, <1>5, GotoMoves DEF Place, Section
  <2> QED
    BY <1>1, <1>2, <1>5, <2>1, KindsOfRuns
    DEF Fetch, RunInv, AtItsPlace, HasSnapshot, KnowsItsRow, HasDeleted, HoldsLock,
        StillOpen, HasCollected, KindIs, IsWebhook, Reconciles, InboxSettled, Section,
        connVars, faultVars
<1>6. Moves(r) /\ RunInv(r)'
  <2>1. item # "GONE" => item \in Snapshot
    BY <1>1 DEF SyncTypeOK
  <2> QED
    BY <1>3, <1>4, <1>5, <2>1 DEF Fetch, ImportsFirst, Abort, Snapshot
<1> QED
  BY <1>1, <1>6, SectionQuiet DEF Fetch, Section, SyncTypeOK

LEMMA RefreshKeeps ==
  ASSUME SyncInv, NEW r \in Runs, Refresh(r) PROVE SyncInv'
<1>1. RunInv(r) /\ SyncTypeOK /\ pc[r] = "refresh"
  BY DEF SyncInv, SuccessIsReal, Refresh, At
<1>2. Reconciles(r) /\ r \in Locking
  BY <1>1, KindsOfRuns DEF RunInv, AtItsPlace
<1>3. PICK p \in {"delete", "await", "syncing"} : Goto(r, p)
  BY DEF Refresh
<1>4. Moves(r) /\ pc'[r] = p /\ seen' = seen /\ verdict' = verdict
  BY <1>1, <1>3, GotoMoves DEF Place, Section
<1>5. RunInv(r)'
  BY <1>1, <1>2, <1>4, KindsOfRuns
  DEF Refresh, RunInv, AtItsPlace, HasSnapshot, KnowsItsRow, HasDeleted, HoldsLock,
      StillOpen, HasCollected, KindIs, IsWebhook, Reconciles, InboxSettled, Section,
      connVars, faultVars
<1> QED
  BY <1>1, <1>4, <1>5, SectionQuiet DEF Refresh, Section, SyncTypeOK, Snapshot

LEMMA AwaitKeeps ==
  ASSUME SyncInv, NEW r \in Runs, Await(r) PROVE SyncInv'
<1>1. RunInv(r) /\ SyncTypeOK /\ pc[r] = "await"
  BY DEF SyncInv, SuccessIsReal, Await, At
<1>2. Reconciles(r) /\ r \in Locking
  BY <1>1, KindsOfRuns DEF RunInv, AtItsPlace
<1>3. ASSUME Leave(r, "retry") PROVE Moves(r) /\ RunInv(r)'
  BY <1>1, <1>3, LeaveKeeps, LeaveMoves DEF Await, faultVars, Section
<1>4. ASSUME GotoWith(r, "apply", item), item \in Snapshot \ {"ACTIVE", "SYNCING"}
      PROVE  Moves(r) /\ RunInv(r)'
  <2>1. Moves(r) /\ pc'[r] = "apply" /\ seen'[r] = item /\ verdict' = verdict
    BY <1>1, <1>4, GotoWithMoves DEF Place, Section
  <2> QED
    BY <1>1, <1>2, <1>4, <2>1, KindsOfRuns
    DEF Await, RunInv, AtItsPlace, HasSnapshot, KnowsItsRow, HasDeleted, HoldsLock,
        StillOpen, HasCollected, KindIs, IsWebhook, Reconciles, InboxSettled, Section,
        connVars, faultVars
<1>5. ASSUME NEW p \in {"delete", "import"}, Goto(r, p)
      PROVE  Moves(r) /\ RunInv(r)'
  <2>1. Moves(r) /\ pc'[r] = p /\ seen' = seen /\ verdict' = verdict
    BY <1>1, <1>5, GotoMoves DEF Place, Section
  <2> QED
    BY <1>1, <1>2, <1>5, <2>1, KindsOfRuns
    DEF Await, RunInv, AtItsPlace, HasSnapshot, KnowsItsRow, HasDeleted, HoldsLock,
        StillOpen, HasCollected, KindIs, IsWebhook, Reconciles, InboxSettled, Section,
        connVars, faultVars
<1>6. Moves(r) /\ RunInv(r)'
  BY <1>3, <1>4, <1>5 DEF Await, Abort
<1> QED
  BY <1>1, <1>6, SectionQuiet DEF Await, Section, SyncTypeOK

LEMMA CollectKeeps ==
  ASSUME SyncInv, NEW r \in Runs, Collect(r) PROVE SyncInv'
<1>1. RunInv(r) /\ SyncTypeOK /\ pc[r] = "collect"
  BY DEF SyncInv, SuccessIsReal, Collect, At
<1>2. ASSUME NEW o \in {"ok", "retry", "stop"}, Leave(r, o) PROVE Moves(r) /\ RunInv(r)'
  <2>1. ~KindIs(r, {"deleted"})
    BY <1>1 DEF RunInv, AtItsPlace
  <2> QED
    BY <1>1, <1>2, <2>1, LeaveKeeps, LeaveMoves DEF Collect, faultVars, Section
<1>3. ASSUME NEW p \in {"apply", "confirm"}, Goto(r, p),
             \/ p = "apply" /\ KindIs(r, {"refresh", "notice"})
             \/ p = "confirm" /\ Reconciles(r)
      PROVE  Moves(r) /\ RunInv(r)'
  <2>1. Moves(r) /\ pc'[r] = p /\ seen' = seen /\ verdict' = verdict
    BY <1>1, <1>3, GotoMoves DEF Place, Section
  <2> QED
    BY <1>1, <1>3, <2>1, KindsOfRuns
    DEF Collect, RunInv, AtItsPlace, HasSnapshot, KnowsItsRow, HasDeleted, HoldsLock,
        StillOpen, HasCollected, KindIs, IsWebhook, Reconciles, InboxSettled, Section,
        connVars, faultVars
<1>4. Moves(r) /\ RunInv(r)'
  BY <1>2, <1>3 DEF Collect, Abort
<1> QED
  BY <1>1, <1>4, SectionQuiet DEF Collect, Section, SyncTypeOK

LEMMA ConfirmKeeps ==
  ASSUME SyncInv, NEW r \in Runs, Confirm(r) PROVE SyncInv'
<1>1. RunInv(r) /\ SyncTypeOK /\ pc[r] = "confirm"
  BY DEF SyncInv, SuccessIsReal, Confirm, At
<1>2. Reconciles(r) /\ r \in Locking
  BY <1>1, KindsOfRuns DEF RunInv, AtItsPlace
<1>3. CASE Leave(r, "stop")
  BY <1>1, <1>3, LeaveKeeps, LeaveMoves, SectionQuiet DEF Confirm, faultVars, Section, SyncTypeOK
<1>4. CASE Goto(r, "final")
  <2>1. Moves(r) /\ pc'[r] = "final" /\ seen' = seen /\ verdict' = verdict
    BY <1>1, <1>4, GotoMoves DEF Place, Section
  <2>2. RunInv(r)'
    BY <1>1, <1>2, <2>1, KindsOfRuns
    DEF Confirm, RunInv, AtItsPlace, HasSnapshot, KnowsItsRow, HasDeleted, HoldsLock,
        StillOpen, HasCollected, KindIs, IsWebhook, Reconciles, InboxSettled, Section,
        connVars, faultVars
  <2> QED
    BY <1>1, <2>1, <2>2, SectionQuiet DEF Confirm, Section, SyncTypeOK
<1> QED
  BY <1>3, <1>4 DEF Confirm

LEMMA FinalKeeps ==
  ASSUME SyncInv, NEW r \in Runs, Final(r) PROVE SyncInv'
<1>1. RunInv(r) /\ SyncTypeOK /\ pc[r] = "final"
  BY DEF SyncInv, SuccessIsReal, Final, At
<1>2. Reconciles(r) /\ r \in Locking
  BY <1>1, KindsOfRuns DEF RunInv, AtItsPlace
<1>3. Moves(r) /\ pc'[r] \in {"delete", "apply"} /\ verdict' = verdict
      /\ (pc'[r] = "apply" => seen'[r] \in Snapshot)
  BY <1>1, GotoMoves, GotoWithMoves DEF Final, Place, Section, SyncTypeOK
<1>4. RunInv(r)'
  BY <1>1, <1>2, <1>3, KindsOfRuns
  DEF Final, RunInv, AtItsPlace, HasSnapshot, KnowsItsRow, HasDeleted, HoldsLock,
      StillOpen, HasCollected, KindIs, IsWebhook, Reconciles, InboxSettled, Section,
      connVars, faultVars
<1> QED
  BY <1>1, <1>3, <1>4, SectionQuiet DEF Final, Section, SyncTypeOK

-----------------------------------------------------------------------------
(* The steps that write to the database.                                    *)

\* A connection that is closed keeps its status, and no other is closed.
LEMMA RetainedKeeps ==
  ASSUME SyncTypeOK, NEW x \in Snapshot, status' = Retained(x)
  PROVE  /\ status' \in LocalStatus
         /\ status' \in Closed <=> status \in Closed
         /\ status \in Closed => status' = status
         /\ status \notin Closed => status' = x
  BY DEF SyncTypeOK, Retained, LocalStatus, Closed, Snapshot

\* A step of r that changes no lock and no row of the inbox.
LEMMA ConnectionStep ==
  ASSUME SyncInv, NEW r \in Runs, Moves(r), RunInv(r)', pc[r] # "idle",
         UNCHANGED <<item, event, tries, budget, lock, faultVars>>,
         status' \in LocalStatus, status = "DELETED" => status' = "DELETED",
         status \notin Closed /\ status' \in Closed /\ lockLosses' = 0 => lock = r,
         dated' \in BOOLEAN, accounts' \in {"none", "active", "inactive"},
         accounts = "active" => accounts' = "active" \/ status' = "DELETED",
         status' = "DELETED" => accounts' # "active",
         stage' \in [ConnectionJobs -> Queue!Stage], \A x \in Rows : stage'[x] = stage[x]
  PROVE  SyncInv'
<1> USE DEF faultVars
<1>1. SyncTypeOK /\ SyncTypeOK'
  BY DEF SyncInv, SuccessIsReal, SyncTypeOK, Moves
<1>2. SuccessIsReal'
  BY <1>1 DEF SyncInv, SuccessIsReal
<1>3. RowsHaveJobs'
  BY DEF SyncInv, RowsHaveJobs
<1>4. NextIsIdle'
  BY <1>1, KindsOfRuns DEF SyncInv, NextIsIdle, Moves, SyncTypeOK, Runs, Locking
<1>5. OneWay
  BY DEF OneWay
<1>6. \A s \in Runs : RunInv(s)'
  BY <1>5, RunsKeep
<1> QED
  BY <1>2, <1>3, <1>4, <1>6 DEF SyncInv

LEMMA SyncingKeeps ==
  ASSUME SyncInv, NEW r \in Runs, Syncing(r) PROVE SyncInv'
<1>1. RunInv(r) /\ SyncTypeOK /\ pc[r] = "syncing"
  BY DEF SyncInv, SuccessIsReal, Syncing, At
<1>2. r \in Locking
  BY <1>1 DEF RunInv, AtItsPlace, Section
<1>3. /\ status' \in LocalStatus /\ (status' \in Closed <=> status \in Closed)
      /\ status \in Closed => status' = status
  BY <1>1, RetainedKeeps DEF Syncing, Snapshot, SyncTypeOK
<1>4. ASSUME Leave(r, "stop") PROVE Moves(r) /\ RunInv(r)'
  BY <1>1, <1>4, LeaveKeeps, LeaveMoves DEF Syncing, faultVars, Section
<1>5. ASSUME NEW p \in {"fetch", "await"}, Goto(r, p),
             IF p = "fetch" THEN IsWebhook(r) ELSE Reconciles(r)
      PROVE  Moves(r) /\ RunInv(r)'
  <2>1. Moves(r) /\ pc'[r] = p /\ seen' = seen /\ verdict' = verdict
    BY <1>1, <1>5, GotoMoves DEF Place, Section
  <2> QED
    BY <1>1, <1>2, <1>3, <1>5, <2>1, KindsOfRuns
    DEF Syncing, RunInv, AtItsPlace, HasSnapshot, KnowsItsRow, HasDeleted, HoldsLock,
        StillOpen, HasCollected, KindIs, IsWebhook, Reconciles, InboxSettled, Section,
        faultVars
<1>6. Moves(r) /\ RunInv(r)'
  BY <1>4, <1>5 DEF Syncing
<1> QED
  BY <1>1, <1>3, <1>6, ConnectionStep
  DEF Syncing, SyncTypeOK, SyncInv, SuccessIsReal, jobVars, Closed

LEMMA ImportKeeps ==
  ASSUME SyncInv, NEW r \in Runs, Import(r) PROVE SyncInv'
<1>1. RunInv(r) /\ SyncTypeOK /\ pc[r] = "import"
  BY DEF SyncInv, SuccessIsReal, Import, At
<1>2. ASSUME NEW o \in {"retry", "stop"}, Leave(r, o), accounts' = accounts PROVE SyncInv'
  <2>1. Moves(r) /\ RunInv(r)'
    BY <1>1, <1>2, LeaveKeeps, LeaveMoves DEF Import, faultVars, Section
  <2> QED
    BY <1>1, <1>2, <2>1, SectionQuiet DEF Import, connVars, Section, SyncTypeOK
<1>3. ASSUME Importable, accounts' = "active", Goto(r, "collect") PROVE SyncInv'
  <2>1. Moves(r) /\ pc'[r] = "collect" /\ seen' = seen /\ verdict' = verdict
    BY <1>1, <1>3, GotoMoves DEF Place, Section
  <2>2. RunInv(r)'
    BY <1>1, <1>3, <2>1, KindsOfRuns
    DEF Import, RunInv, AtItsPlace, HasSnapshot, KnowsItsRow, HasDeleted, HoldsLock,
        StillOpen, HasCollected, KindIs, IsWebhook, Reconciles, InboxSettled, Section,
        faultVars
  <2> QED
    BY <1>1, <1>3, <2>1, <2>2, ConnectionStep
    DEF Import, Importable, Snapshot, SyncTypeOK, jobVars
<1> QED
  BY <1>2, <1>3 DEF Import

LEMMA ApplyKeeps ==
  ASSUME SyncInv, NEW r \in Runs, Apply(r) PROVE SyncInv'
<1>1. RunInv(r) /\ SyncTypeOK /\ pc[r] = "apply" /\ seen[r] \in Snapshot
  BY DEF SyncInv, SuccessIsReal, Apply, At, RunInv, HasSnapshot
<1>2. /\ status' \in LocalStatus /\ (status' \in Closed <=> status \in Closed)
      /\ status \in Closed => status' = status
  BY <1>1, RetainedKeeps DEF Apply
<1>3. ~KindIs(r, {"deleted"})
  BY <1>1 DEF RunInv, AtItsPlace
<1>4. Moves(r) /\ RunInv(r)'
  BY <1>1, <1>3, LeaveKeeps, LeaveMoves DEF Apply, faultVars, Section
<1> QED
  BY <1>1, <1>2, <1>4, ConnectionStep
  DEF Apply, SyncTypeOK, SyncInv, SuccessIsReal, jobVars, Closed

LEMMA DeleteKeeps ==
  ASSUME SyncInv, NEW r \in Runs, Delete(r) PROVE SyncInv'
<1>1. RunInv(r) /\ SyncTypeOK /\ pc[r] = "delete"
  BY DEF SyncInv, SuccessIsReal, Delete, At
<1>2. r \in Locking
  BY <1>1 DEF RunInv, AtItsPlace, Section
<1>3. Moves(r) /\ RunInv(r)'
  BY <1>1, LeaveKeeps, LeaveMoves DEF Delete, faultVars, Section
<1>4. lockLosses' = 0 => lock = r
  BY <1>1, <1>2 DEF Delete, RunInv, HoldsLock, Section, faultVars
<1>5. /\ stage' \in [ConnectionJobs -> Queue!Stage]
      /\ \A x \in Rows : stage'[x] = stage[x]
      /\ tries' = tries /\ budget' = budget
  BY <1>1, DistinctAssumption DEF Delete, Queue!Cancel, Queue!Stage, SyncTypeOK, ConnectionJobs
<1> QED
  BY <1>1, <1>3, <1>4, <1>5, ConnectionStep DEF Delete, SyncTypeOK, LocalStatus, Closed

\* A row of the inbox is marked, in a step of r.
LEMMA MarkStep ==
  ASSUME SyncInv, NEW r \in Runs, IsWebhook(r), pc[r] = "record", Moves(r), RunInv(r)',
         UNCHANGED <<item, connVars, jobVars, lock, lockLosses>>, faults' \in 0..MaxFaults,
         event' = event \/
           \E mark \in {"PROCESSED", "FAILED"} :
              /\ event' = [event EXCEPT ![r[1]] = mark]
              /\ mark = "FAILED" => event[r[1]] \in {"QUEUED", "FAILED"}
              /\ mark = "PROCESSED" => verdict[r] = "ok"
  PROVE  SyncInv'
<1> USE DEF connVars, jobVars
<1>1. SyncTypeOK /\ RunInv(r) /\ r[1] \in Rows /\ event[r[1]] \notin {"ABSENT", "UNMAPPED"}
  BY KindsOfRuns DEF SyncInv, SuccessIsReal, RunInv, KnowsItsRow
<1>2. SyncTypeOK'
  BY <1>1 DEF SyncTypeOK, Moves, EventStatus
<1>3. OneWay
  BY <1>1 DEF OneWay, SyncTypeOK
<1>4. SuccessIsReal'
  <2>1. \A x \in Rows : stage'[x] = "done" => event'[x] \in {"PROCESSED", "UNMAPPED"}
    BY <1>3 DEF OneWay, SyncInv, SuccessIsReal
  <2>2. ASSUME NEW x \in Rows, KindOf[x.event] = "deleted", event'[x] = "PROCESSED"
        PROVE  status' = "DELETED"
    <3>1. CASE event[x] = "PROCESSED"
      BY <2>2, <3>1 DEF SyncInv, SuccessIsReal
    <3>2. CASE event[x] # "PROCESSED"
      <4>1. x = r[1] /\ verdict[r] = "ok"
        BY <1>1, <2>2, <3>2 DEF SyncTypeOK
      <4> QED
        BY <1>1, <2>2, <4>1 DEF RunInv, HasDeleted, KindIs
    <3> QED
      BY <3>1, <3>2
  <2> QED
    BY <1>2, <2>1, <2>2 DEF SyncInv, SuccessIsReal
<1>5. RowsHaveJobs'
  BY <1>1 DEF SyncInv, RowsHaveJobs, SyncTypeOK
<1>6. NextIsIdle'
  BY <1>1, KindsOfRuns DEF SyncInv, NextIsIdle, Moves, SyncTypeOK, Runs, Locking
<1>7. \A s \in Runs : RunInv(s)'
  BY <1>3, RunsKeep
<1> QED
  BY <1>4, <1>5, <1>6, <1>7 DEF SyncInv

LEMMA RecordKeeps ==
  ASSUME SyncInv, NEW r \in Runs, Record(r) PROVE SyncInv'
<1>1. RunInv(r) /\ SyncTypeOK /\ pc[r] = "record"
  BY DEF SyncInv, SuccessIsReal, Record, At
<1>2. IsWebhook(r) /\ r[1] \in Rows /\ event[r[1]] \notin {"ABSENT", "UNMAPPED"}
  BY <1>1, KindsOfRuns DEF RunInv, AtItsPlace, KnowsItsRow
<1>3. Moves(r) /\ pc'[r] = "report" /\ seen' = seen /\ verdict' = verdict
  BY <1>1, GotoMoves DEF Record, Place
<1>4. CASE verdict[r] = "ok"
  <2>1. event' = [event EXCEPT ![r[1]] = "PROCESSED"] /\ event'[r[1]] = "PROCESSED"
    BY <1>1, <1>2, <1>4 DEF Record, SyncTypeOK
  <2>2. RunInv(r)'
    BY <1>1, <1>2, <1>3, <2>1, KindsOfRuns
    DEF RunInv, AtItsPlace, HasSnapshot, KnowsItsRow, HasDeleted, HoldsLock, StillOpen,
        HasCollected, KindIs, IsWebhook, Reconciles, InboxSettled, Section
  <2> QED
    BY <1>1, <1>2, <1>3, <1>4, <2>1, <2>2, MarkStep DEF Record, faultVars, SyncTypeOK
<1>5. CASE verdict[r] # "ok"
  <2>1. event' = [event EXCEPT ![r[1]] = FailedEvent(event[r[1]])]
    BY <1>5 DEF Record
  <2>2. event' = event \/ /\ event' = [event EXCEPT ![r[1]] = "FAILED"]
                          /\ event[r[1]] \in {"QUEUED", "FAILED"}
    BY <1>1, <1>2, <2>1 DEF FailedEvent, SyncTypeOK
  <2>3. event'[r[1]] # "ABSENT"
    BY <1>1, <1>2, <2>2 DEF SyncTypeOK
  <2>4. RunInv(r)'
    BY <1>1, <1>2, <1>3, <1>5, <2>3, KindsOfRuns
    DEF RunInv, AtItsPlace, HasSnapshot, KnowsItsRow, HasDeleted, HoldsLock, StillOpen,
        HasCollected, KindIs, IsWebhook, Reconciles, Section
  <2> QED
    BY <1>1, <1>2, <1>3, <2>2, <2>4, MarkStep DEF Record, faultVars, SyncTypeOK
<1> QED
  BY <1>4, <1>5

\* Jobs move, and no run with them but r.
LEMMA JobsStep ==
  ASSUME SyncInv, UNCHANGED <<item, connVars, event, tries, lock, lockLosses>>,
         faults' \in 0..MaxFaults, budget' \in [ConnectionJobs -> 0..MaxTries],
         stage' \in [ConnectionJobs -> Queue!Stage],
         \A x \in Rows : stage'[x] = "unknown" <=> stage[x] = "unknown",
         \A x \in Rows : stage'[x] = "done" =>
                           stage[x] = "done" \/ event[x] \in {"PROCESSED", "UNMAPPED"},
         \/ UNCHANGED runVars
         \/ \E r \in Runs : Moves(r) /\ RunInv(r)' /\ pc[r] # "idle"
  PROVE  SyncInv'
<1> USE DEF connVars, runVars
<1>1. SyncTypeOK /\ SyncTypeOK'
  BY DEF SyncInv, SuccessIsReal, SyncTypeOK, Moves
<1>2. SuccessIsReal'
  BY <1>1 DEF SyncInv, SuccessIsReal
<1>3. RowsHaveJobs'
  BY DEF SyncInv, RowsHaveJobs
<1>4. NextIsIdle'
  BY <1>1, KindsOfRuns DEF SyncInv, NextIsIdle, Moves, SyncTypeOK, Runs, Locking
<1>5. OneWay
  BY DEF OneWay
<1>6. \A s \in Runs : RunInv(s)'
  <2>1. CASE UNCHANGED runVars
    BY <1>1, <1>5, <2>1, OthersKeep DEF SyncInv
  <2>2. CASE \E r \in Runs : Moves(r) /\ RunInv(r)' /\ pc[r] # "idle"
    BY <1>5, <2>2, RunsKeep
  <2> QED
    BY <2>1, <2>2
<1> QED
  BY <1>2, <1>3, <1>4, <1>6 DEF SyncInv

\* An attempt that fails leaves its job to another, or to the operator.
LEMMA GiveUpMoves ==
  ASSUME SyncTypeOK, NEW j \in ConnectionJobs, NEW again \in BOOLEAN, GiveUp(j, again)
  PROVE  /\ stage' \in [ConnectionJobs -> Queue!Stage]
         /\ stage[j] = "trying" /\ stage'[j] \in {"waiting", "dead"}
         /\ \A i \in ConnectionJobs \ {j} : stage'[i] = stage[i]
         /\ tries' = tries /\ budget' = budget
<1>1. GiveUp(j, again) => Queue!GiveUp({j}, {}) \/ Queue!GiveUp({}, {j})
  BY DEF GiveUp
<1> QED
  BY <1>1 DEF Queue!GiveUp, Queue!Stage, SyncTypeOK

LEMMA ReportKeeps ==
  ASSUME SyncInv, NEW r \in Runs, Report(r) PROVE SyncInv'
<1>1. RunInv(r) /\ SyncTypeOK /\ pc[r] = "report"
  BY DEF SyncInv, SuccessIsReal, Report, At
<1>2. r \in Attempts /\ r[1] \in ConnectionJobs /\ (r[1] \in Rows => IsWebhook(r))
  BY <1>1, KindsOfRuns DEF RunInv, AtItsPlace, IsWebhook, Attempts
<1>3. Moves(r) /\ pc'[r] = "over" /\ seen' = seen /\ verdict' = verdict
  BY <1>1, GotoMoves DEF Report, Place
<1>4. RunInv(r)'
  BY <1>1, <1>2, <1>3, KindsOfRuns
  DEF Report, RunInv, AtItsPlace, HasSnapshot, KnowsItsRow, HasDeleted, HoldsLock, StillOpen,
      HasCollected, KindIs, IsWebhook, Reconciles, Section
<1>5. CASE UNCHANGED jobVars
  BY <1>1, <1>3, <1>4, <1>5, JobsStep DEF Report, jobVars, faultVars, SyncTypeOK
<1>6. CASE verdict[r] = "ok" /\ Queue!Succeed(r[1])
  <2>1. r[1] \in Rows => event[r[1]] \in {"PROCESSED", "UNMAPPED"}
    BY <1>1, <1>2, <1>6 DEF RunInv, KnowsItsRow, InboxSettled
  <2>2. /\ stage[r[1]] = "trying" /\ stage' = [stage EXCEPT ![r[1]] = "done"]
        /\ stage' \in [ConnectionJobs -> Queue!Stage] /\ tries' = tries /\ budget' = budget
    BY <1>1, <1>2, <1>6 DEF Queue!Succeed, Queue!Stage, SyncTypeOK
  <2>3. \A x \in Rows : /\ stage'[x] = "unknown" <=> stage[x] = "unknown"
                        /\ stage'[x] = "done" =>
                             stage[x] = "done" \/ event[x] \in {"PROCESSED", "UNMAPPED"}
    BY <1>1, <2>1, <2>2 DEF SyncTypeOK, ConnectionJobs
  <2> QED
    BY <1>1, <1>3, <1>4, <2>2, <2>3, JobsStep DEF Report, faultVars, SyncTypeOK
<1>7. CASE GiveUp(r[1], verdict[r] = "retry")
  <2>1. /\ stage' \in [ConnectionJobs -> Queue!Stage]
        /\ stage[r[1]] = "trying" /\ stage'[r[1]] \in {"waiting", "dead"}
        /\ \A i \in ConnectionJobs \ {r[1]} : stage'[i] = stage[i]
        /\ tries' = tries /\ budget' = budget
    BY <1>1, <1>2, <1>7, GiveUpMoves
  <2>2. \A x \in Rows : /\ stage'[x] = "unknown" <=> stage[x] = "unknown"
                        /\ stage'[x] = "done" => stage[x] = "done"
    BY <2>1 DEF ConnectionJobs
  <2> QED
    BY <1>1, <1>3, <1>4, <2>1, <2>2, JobsStep DEF Report, faultVars, SyncTypeOK
<1> QED
  BY <1>5, <1>6, <1>7 DEF Report

-----------------------------------------------------------------------------
(* The provider, the inbox, the queue and the operator.                     *)

LEMMA ItemKeeps ==
  ASSUME SyncInv, ItemChanges PROVE SyncInv'
<1> USE DEF ItemChanges, connVars, jobVars, runVars, faultVars
<1>1. SyncTypeOK /\ SyncTypeOK'
  BY DEF SyncInv, SuccessIsReal, SyncTypeOK
<1>2. \A s \in Runs : RunInv(s)'
  BY <1>1, OthersKeep DEF SyncInv, OneWay
<1> QED
  BY <1>1, <1>2 DEF SyncInv, SuccessIsReal, RowsHaveJobs, NextIsIdle

LEMMA IngestKeeps ==
  ASSUME SyncInv, NEW e \in Events, Ingest(e) PROVE SyncInv'
<1> DEFINE row == [event |-> e, mapped |-> Mapped(e)]
<1>1. SyncTypeOK /\ row \in Rows /\ event[row] = "ABSENT"
  BY DEF SyncInv, SuccessIsReal, Ingest, Rows, Mapped
<1>2. PICK mark \in {"QUEUED", "UNMAPPED"} : event' = [event EXCEPT ![row] = mark]
  BY DEF Ingest
<1>3. /\ stage[row] = "unknown" /\ stage' = [stage EXCEPT ![row] = "waiting"]
      /\ tries' = tries /\ budget' = [budget EXCEPT ![row] = Budget]
      /\ UNCHANGED <<item, connVars, lock, runVars, faultVars>>
  BY DEF Ingest, Queue!Submit
<1> HIDE DEF row
<1> USE DEF connVars, runVars, faultVars
<1>4. SyncTypeOK'
  BY <1>1, <1>2, <1>3, BoundAssumption DEF SyncTypeOK, EventStatus, Queue!Stage, ConnectionJobs
<1>5. OneWay
  BY <1>1, <1>2, <1>3 DEF OneWay, SyncTypeOK
<1>6. \A s \in Runs : RunInv(s)'
  BY <1>1, <1>3, <1>5, OthersKeep DEF SyncInv
<1>7. RowsHaveJobs'
  BY <1>1, <1>2, <1>3 DEF SyncInv, RowsHaveJobs, SyncTypeOK, ConnectionJobs
<1>8. SuccessIsReal'
  BY <1>1, <1>2, <1>3, <1>4 DEF SyncInv, SuccessIsReal, SyncTypeOK, ConnectionJobs
<1>9. NextIsIdle'
  BY <1>3 DEF SyncInv, NextIsIdle
<1> QED
  BY <1>6, <1>7, <1>8, <1>9 DEF SyncInv

LEMMA RequestKeeps ==
  ASSUME SyncInv, NEW m \in Manuals, RequestReconciliation(m) PROVE SyncInv'
<1>1. SyncTypeOK /\ m \in ConnectionJobs /\ m \notin Rows
  BY DistinctAssumption DEF SyncInv, SuccessIsReal, ConnectionJobs
<1>2. /\ stage[m] = "unknown" /\ stage' = [stage EXCEPT ![m] = "waiting"]
      /\ tries' = tries /\ budget' = [budget EXCEPT ![m] = Budget]
  BY DEF RequestReconciliation, Queue!Submit
<1>3. stage' \in [ConnectionJobs -> Queue!Stage] /\ \A x \in Rows : stage'[x] = stage[x]
  BY <1>1, <1>2 DEF SyncTypeOK, Queue!Stage, ConnectionJobs
<1>4. budget' \in [ConnectionJobs -> 0..MaxTries]
  BY <1>1, <1>2, BoundAssumption DEF SyncTypeOK
<1> QED
  BY <1>1, <1>2, <1>3, <1>4, JobsStep DEF RequestReconciliation, SyncTypeOK, faultVars

LEMMA RetryKeeps ==
  ASSUME SyncInv, NEW j \in ConnectionJobs, RetryDead(j) PROVE SyncInv'
<1>1. SyncTypeOK
  BY DEF SyncInv, SuccessIsReal
<1>2. /\ stage[j] = "dead" /\ stage' = [stage EXCEPT ![j] = "waiting"] /\ tries' = tries
      /\ tries[j] < MaxTries
      /\ budget' = [budget EXCEPT ![j] = IF budget[j] > tries[j] THEN budget[j] ELSE tries[j] + 1]
  BY DEF RetryDead, Queue!Revive
<1>3. stage' \in [ConnectionJobs -> Queue!Stage]
      /\ \A x \in Rows : stage'[x] = stage[x] \/ (stage[x] = "dead" /\ stage'[x] = "waiting")
  BY <1>1, <1>2 DEF SyncTypeOK, Queue!Stage, ConnectionJobs
<1>4. budget' \in [ConnectionJobs -> 0..MaxTries]
  BY <1>1, <1>2, BoundAssumption DEF SyncTypeOK
<1> QED
  BY <1>1, <1>2, <1>3, <1>4, JobsStep DEF RetryDead, SyncTypeOK, faultVars

LEMMA ExpiryKeeps ==
  ASSUME SyncInv, NEW j \in ConnectionJobs, LeaseExpires(j) PROVE SyncInv'
<1>1. SyncTypeOK
  BY DEF SyncInv, SuccessIsReal
<1>2. /\ stage' \in [ConnectionJobs -> Queue!Stage]
      /\ stage[j] = "trying" /\ stage'[j] \in {"waiting", "dead"}
      /\ \A i \in ConnectionJobs \ {j} : stage'[i] = stage[i]
      /\ tries' = tries /\ budget' = budget
  BY <1>1, GiveUpMoves DEF LeaseExpires
<1>3. faults' \in 0..MaxFaults /\ lockLosses' = lockLosses
  BY <1>1, BoundAssumption DEF LeaseExpires, Fault, faultVars, SyncTypeOK
<1>4. \A x \in Rows : /\ stage'[x] = "unknown" <=> stage[x] = "unknown"
                      /\ stage'[x] = "done" => stage[x] = "done"
  BY <1>2 DEF ConnectionJobs
<1> QED
  BY <1>1, <1>2, <1>3, <1>4, JobsStep DEF LeaseExpires, SyncTypeOK

\* An attempt takes a place nobody is at.
LEMMA AttemptKeeps ==
  ASSUME SyncInv, NEW j \in ConnectionJobs, BeginAttempt(j) PROVE SyncInv'
<1>1. SyncTypeOK
  BY DEF SyncInv, SuccessIsReal
<1>2. /\ stage[j] = "waiting" /\ stage' = [stage EXCEPT ![j] = "trying"]
      /\ tries[j] < budget[j] /\ tries' = [tries EXCEPT ![j] = tries[j] + 1]
      /\ budget' = budget
      /\ UNCHANGED <<item, connVars, event, lock, faultVars>>
  BY DEF BeginAttempt, Queue!Try
<1>3. tries[j] + 1 \in 1..MaxTries
  BY <1>1, <1>2, BoundAssumption DEF SyncTypeOK
<1>4. PICK r \in Attempts : r = <<j, tries[j] + 1>>
  BY <1>3 DEF Attempts
<1>5. r \in Runs /\ r[1] = j /\ r[2] = tries[j] + 1 /\ Goto(r, "load")
  BY <1>4 DEF BeginAttempt, Runs, Locking
<1> USE DEF connVars, faultVars
<1>6. pc[r] = "idle" /\ RunInv(r)
  BY <1>1, <1>4, <1>5 DEF SyncInv, NextIsIdle, SyncTypeOK
<1>7. Moves(r) /\ pc'[r] = "load" /\ seen' = seen /\ verdict' = verdict
  BY <1>1, <1>4, <1>5, GotoMoves DEF Place
<1>8. SyncTypeOK'
  BY <1>1, <1>2, <1>3, <1>7, BoundAssumption DEF SyncTypeOK, Moves, Queue!Stage
<1>9. SuccessIsReal' /\ RowsHaveJobs'
  BY <1>1, <1>2, <1>8 DEF SyncInv, SuccessIsReal, RowsHaveJobs, SyncTypeOK, ConnectionJobs
<1>10. NextIsIdle'
  <2> SUFFICES ASSUME NEW s \in Attempts, s[2] > tries'[s[1]] PROVE pc'[s] = "idle"
    BY DEF NextIsIdle
  <2>1. s \in Runs /\ s[1] \in ConnectionJobs /\ s[2] \in 1..MaxTries
    BY KindsOfRuns DEF Runs, Locking
  <2>2. s # r /\ s[2] > tries[s[1]]
    BY <1>1, <1>2, <1>4, <1>5, <2>1 DEF SyncTypeOK, Attempts
  <2> QED
    BY <1>1, <1>7, <2>1, <2>2 DEF SyncInv, NextIsIdle, Moves, SyncTypeOK
<1>11. RunInv(r)'
  <2>1. IsWebhook(r) => event'[r[1]] # "ABSENT"
    BY <1>1, <1>2, <1>5, KindsOfRuns DEF SyncInv, RowsHaveJobs
  <2> QED
    BY <1>2, <1>4, <1>5, <1>6, <1>7, <2>1, KindsOfRuns
    DEF RunInv, AtItsPlace, HasSnapshot, KnowsItsRow, HasDeleted, HoldsLock, StillOpen,
        HasCollected, KindIs, IsWebhook, Reconciles, Section
<1>12. \A s \in Runs : RunInv(s)'
  BY <1>2, <1>5, <1>7, <1>11, RunsKeep DEF OneWay
<1> QED
  BY <1>9, <1>10, <1>12 DEF SyncInv

\* The processes that have no job begin.
LEMMA BeginKeeps ==
  ASSUME SyncInv, NEW r \in Runs,
         \/ r \in Schedulers /\ BeginSchedule(r)
         \/ r \in Importers /\ BeginImport(r)
         \/ r \in Discoverers /\ BeginDiscovery(r)
  PROVE  SyncInv'
<1>1. RunInv(r) /\ SyncTypeOK /\ pc[r] = "idle"
  BY DEF SyncInv, SuccessIsReal, BeginSchedule, BeginImport, BeginDiscovery, At
<1>2. r \notin Attempts /\ ~IsWebhook(r)
  BY KindsOfRuns
<1>3. /\ Moves(r) /\ verdict' = verdict
      /\ \/ r \in Schedulers /\ pc'[r] = "lock"
         \/ r \in Importers /\ pc'[r] = "import"
         \/ r \in Discoverers /\ pc'[r] = "apply" /\ seen'[r] \in Snapshot
  BY <1>1, GotoMoves, GotoWithMoves
  DEF BeginSchedule, BeginImport, BeginDiscovery, Place, Section, SyncTypeOK
<1>4. RunInv(r)'
  BY <1>1, <1>2, <1>3, KindsOfRuns
  DEF RunInv, AtItsPlace, HasSnapshot, KnowsItsRow, HasDeleted, HoldsLock, StillOpen,
      HasCollected, KindIs, IsWebhook, Reconciles, Section
<1>5. UNCHANGED <<item, connVars, event, jobVars, lock, faultVars>>
  BY DEF BeginSchedule, BeginImport, BeginDiscovery
<1> QED
  BY <1>1, <1>2, <1>3, <1>4, <1>5, QuietStep DEF SyncTypeOK

-----------------------------------------------------------------------------
(* What can go wrong.                                                       *)

\* A failing call counts as a fault.
LEMMA FaultCounts ==
  ASSUME SyncTypeOK, Fault PROVE faults' \in 0..MaxFaults /\ lockLosses' = lockLosses
  BY BoundAssumption DEF SyncTypeOK, Fault

\* A step of r that changes only its place and perhaps frees its lock, with a fault.
LEMMA FaultStep ==
  ASSUME SyncInv, NEW r \in Runs, Fault, Moves(r), RunInv(r)', pc[r] # "idle",
         UNCHANGED <<item, connVars, event, jobVars>>,
         lock' \in {lock, None}, lock' # lock => lock = r
  PROVE  SyncInv'
<1> USE DEF connVars, jobVars
<1>1. SyncTypeOK /\ faults' \in 0..MaxFaults /\ lockLosses' = lockLosses
  BY FaultCounts DEF SyncInv, SuccessIsReal
<1>2. SyncTypeOK'
  BY <1>1 DEF SyncTypeOK, Moves
<1>3. SuccessIsReal' /\ RowsHaveJobs'
  BY <1>2 DEF SyncInv, SuccessIsReal, RowsHaveJobs
<1>4. NextIsIdle'
  BY <1>1, KindsOfRuns DEF SyncInv, NextIsIdle, Moves, SyncTypeOK, Runs, Locking
<1>5. \A s \in Runs : RunInv(s)'
  BY <1>1, RunsKeep DEF OneWay
<1> QED
  BY <1>3, <1>4, <1>5 DEF SyncInv

\* A call in the section, or the one for the lock, throws.
LEMMA SectionThrows ==
  ASSUME SyncInv, NEW r \in Runs, Fault, pc[r] \in (Section \ {"unlock"}) \cup {"lock"},
         NEW o \in {"retry", "stop"},
         IF pc[r] = "lock" THEN /\ pc' = [pc EXCEPT ![r] = AfterUnlock(r)]
                                /\ verdict' = [verdict EXCEPT ![r] = o]
                                /\ UNCHANGED seen
                           ELSE Leave(r, o),
         UNCHANGED <<item, connVars, event, jobVars, lock>>
  PROVE  SyncInv'
<1>1. RunInv(r) /\ SyncTypeOK /\ pc[r] # "idle" /\ lockLosses' = lockLosses
  BY FaultCounts DEF SyncInv, SuccessIsReal, Section
<1>2. CASE pc[r] # "lock"
  <2>1. Moves(r) /\ RunInv(r)'
    BY <1>1, <1>2, LeaveKeeps, LeaveMoves
  <2> QED
    BY <1>1, <2>1, FaultStep
<1>3. CASE pc[r] = "lock"
  <2>1. r \in Locking
    BY <1>1, <1>3 DEF RunInv, AtItsPlace
  <2>2. /\ AfterUnlock(r) \in {"record", "idle", "report"}
        /\ AfterUnlock(r) = "record" <=> IsWebhook(r)
        /\ AfterUnlock(r) = "report" => r \in Attempts
    BY <2>1, AfterUnlockPlace
  <2>3. Moves(r) /\ pc'[r] = AfterUnlock(r) /\ verdict'[r] # "ok" /\ seen' = seen
    BY <1>1, <1>3, <2>2 DEF Moves, SyncTypeOK, Place
  <2>4. RunInv(r)'
    BY <1>1, <1>3, <2>1, <2>2, <2>3, KindsOfRuns
    DEF RunInv, AtItsPlace, HasSnapshot, KnowsItsRow, HasDeleted, HoldsLock, StillOpen,
        HasCollected, KindIs, IsWebhook, Reconciles, Section
  <2> QED
    BY <1>1, <2>3, <2>4, FaultStep
<1> QED
  BY <1>2, <1>3

LEMMA ThrowsKeeps ==
  ASSUME SyncInv, NEW r \in Runs, Throws(r) PROVE SyncInv'
<1>1. RunInv(r) /\ SyncTypeOK /\ Fault /\ faults' \in 0..MaxFaults /\ lockLosses' = lockLosses
      /\ UNCHANGED <<item, connVars, jobVars, lock>>
  BY FaultCounts DEF SyncInv, SuccessIsReal, Throws
<1>2. ASSUME pc[r] \in (Section \ {"unlock"}) \cup {"lock"}, UNCHANGED event,
             \E o \in {"retry", "stop"} :
                IF At(r, "lock")
                THEN /\ pc' = [pc EXCEPT ![r] = AfterUnlock(r)]
                     /\ verdict' = [verdict EXCEPT ![r] = o]
                     /\ UNCHANGED seen
                ELSE Leave(r, o)
      PROVE  SyncInv'
  BY <1>1, <1>2, SectionThrows DEF At
<1>3. ASSUME pc[r] = "load", pc' = [pc EXCEPT ![r] = "report"], UNCHANGED <<seen, event>>,
             NEW o \in {"retry", "stop"}, verdict' = [verdict EXCEPT ![r] = o]
      PROVE  SyncInv'
  <2>1. Moves(r) /\ pc'[r] = "report" /\ verdict'[r] # "ok"
    BY <1>1, <1>3 DEF Moves, SyncTypeOK, Place
  <2>2. RunInv(r)'
    BY <1>1, <1>3, <2>1, KindsOfRuns
    DEF RunInv, AtItsPlace, HasSnapshot, KnowsItsRow, HasDeleted, HoldsLock, StillOpen,
        HasCollected, KindIs, IsWebhook, Reconciles, Section
  <2> QED
    BY <1>1, <1>3, <2>1, <2>2, FaultStep
<1>4. ASSUME pc[r] = "record", verdict[r] = "ok", UNCHANGED <<pc, seen>>,
             event' = event \/ event' = [event EXCEPT ![r[1]] = "PROCESSED"],
             verdict' = [verdict EXCEPT ![r] = "retry"]
      PROVE  SyncInv'
  <2>1. IsWebhook(r) /\ r[1] \in Rows
    BY <1>1, <1>4, KindsOfRuns DEF RunInv, AtItsPlace
  <2>2. Moves(r) /\ pc'[r] = "record" /\ verdict'[r] = "retry"
    BY <1>1, <1>4 DEF Moves, SyncTypeOK, Place
  <2>3. event'[r[1]] \notin {"ABSENT", "UNMAPPED"}
    BY <1>1, <1>4, <2>1 DEF RunInv, KnowsItsRow, SyncTypeOK
  <2>4. RunInv(r)'
    BY <1>1, <1>4, <2>1, <2>2, <2>3, KindsOfRuns
    DEF RunInv, AtItsPlace, HasSnapshot, KnowsItsRow, HasDeleted, HoldsLock, StillOpen,
        HasCollected, KindIs, IsWebhook, Reconciles, Section
  <2> QED
    BY <1>1, <1>4, <2>1, <2>2, <2>4, MarkStep
<1>5. ASSUME pc[r] \in {"record", "report"}, pc[r] = "record" => verdict[r] # "ok",
             Goto(r, IF pc[r] = "record" THEN "report" ELSE "over"), UNCHANGED event
      PROVE  SyncInv'
  <2>1. Moves(r) /\ pc'[r] = (IF pc[r] = "record" THEN "report" ELSE "over")
        /\ seen' = seen /\ verdict' = verdict
    BY <1>1, <1>5, GotoMoves DEF Place
  <2>2. RunInv(r)'
    BY <1>1, <1>5, <2>1, KindsOfRuns
    DEF RunInv, AtItsPlace, HasSnapshot, KnowsItsRow, HasDeleted, HoldsLock, StillOpen,
        HasCollected, KindIs, IsWebhook, Reconciles, Section
  <2> QED
    BY <1>1, <1>5, <2>1, <2>2, FaultStep
<1>6. ASSUME pc[r] = "unlock", verdict[r] = "ok", UNCHANGED <<pc, seen, event>>,
             verdict' = [verdict EXCEPT ![r] = "retry"], r \in Attempts
      PROVE  SyncInv'
  <2>1. Moves(r) /\ pc'[r] = "unlock" /\ verdict'[r] = "retry"
    BY <1>1, <1>6 DEF Moves, SyncTypeOK, Place
  <2>2. RunInv(r)'
    BY <1>1, <1>6, <2>1, KindsOfRuns
    DEF RunInv, AtItsPlace, HasSnapshot, KnowsItsRow, HasDeleted, HoldsLock, StillOpen,
        HasCollected, KindIs, IsWebhook, Reconciles, Section
  <2> QED
    BY <1>1, <1>6, <2>1, <2>2, FaultStep
<1> QED
  BY <1>2, <1>3, <1>4, <1>5, <1>6 DEF Throws, At

LEMMA DiesKeeps ==
  ASSUME SyncInv, NEW r \in Runs, Dies(r) PROVE SyncInv'
<1>1. RunInv(r) /\ SyncTypeOK /\ pc[r] # "idle" /\ lockLosses' = lockLosses
  BY FaultCounts DEF SyncInv, SuccessIsReal, Dies
<1>2. Moves(r) /\ pc'[r] = (IF r \in Attempts THEN "over" ELSE "idle")
  BY <1>1 DEF Dies, Moves, SyncTypeOK, Place
<1>3. RunInv(r)'
  BY <1>1, <1>2, KindsOfRuns
  DEF Dies, RunInv, AtItsPlace, HasSnapshot, KnowsItsRow, HasDeleted, HoldsLock, StillOpen,
      HasCollected, KindIs, IsWebhook, Reconciles, Section
<1> QED
  BY <1>1, <1>2, <1>3, FaultStep DEF Dies

LEMMA LossKeeps ==
  ASSUME SyncInv, LosesLock PROVE SyncInv'
<1> USE DEF LosesLock, connVars, jobVars, runVars
<1>1. SyncTypeOK /\ SyncTypeOK' /\ lockLosses' # 0
  BY BoundAssumption DEF SyncInv, SuccessIsReal, SyncTypeOK
<1>2. \A s \in Runs : RunInv(s)'
  BY <1>1, OthersKeep DEF SyncInv, OneWay
<1> QED
  BY <1>1, <1>2 DEF SyncInv, SuccessIsReal, RowsHaveJobs, NextIsIdle

-----------------------------------------------------------------------------
(* Theorems.                                                                *)

\* Nothing has happened yet.
LEMMA InitKeeps == SyncInit => SyncInv
<1> SUFFICES ASSUME SyncInit PROVE SyncInv
  OBVIOUS
<1>1. SyncTypeOK
  <2>1. status \in LocalStatus
    BY StatusAssumption DEF SyncInit
  <2>2. event \in [Rows -> EventStatus] /\ pc \in [Runs -> Place]
    BY DEF SyncInit, EventStatus, Place
  <2>3. /\ stage = [j \in ConnectionJobs |-> "unknown"]
        /\ tries = [j \in ConnectionJobs |-> 0] /\ budget = [j \in ConnectionJobs |-> 0]
    BY DEF SyncInit, Queue!Init
  <2>4. 0 \in 0..MaxTries
    BY BoundAssumption
  <2>5. /\ stage \in [ConnectionJobs -> Queue!Stage]
        /\ tries \in [ConnectionJobs -> 0..MaxTries] /\ budget \in [ConnectionJobs -> 0..MaxTries]
    BY <2>3, <2>4 DEF Queue!Stage
  <2>6. faults \in 0..MaxFaults /\ lockLosses \in 0..LockLosses
    BY BoundAssumption DEF SyncInit
  <2>7. seen \in [Runs -> Snapshot \cup {None}] /\ verdict \in [Runs -> {"ok", "retry", "stop"}]
    BY DEF SyncInit
  <2>8. /\ item \in Snapshot \cup {"GONE"} /\ dated \in BOOLEAN
        /\ accounts \in {"none", "active", "inactive"} /\ lock \in Locking \cup {None}
    BY DEF SyncInit
  <2> QED
    BY <2>1, <2>2, <2>5, <2>6, <2>7, <2>8 DEF SyncTypeOK
<1>2. SuccessIsReal /\ RowsHaveJobs
  BY <1>1, StatusAssumption DEF SyncInit, Queue!Init, SuccessIsReal, RowsHaveJobs, ConnectionJobs
<1>3. \A r \in Runs : pc[r] = "idle" /\ RunInv(r)
  BY KindsOfRuns
  DEF SyncInit, RunInv, AtItsPlace, HasSnapshot, KnowsItsRow, HasDeleted, HoldsLock,
      StillOpen, HasCollected, Section
<1>4. NextIsIdle
  BY <1>3 DEF NextIsIdle, Runs, Locking
<1> QED
  BY <1>2, <1>3, <1>4 DEF SyncInv

\* Every step keeps the invariant.
LEMMA StepKeeps == SyncInv /\ [SyncNext]_syncVars => SyncInv'
<1> SUFFICES ASSUME SyncInv, [SyncNext]_syncVars PROVE SyncInv'
  OBVIOUS
<1>1. CASE UNCHANGED syncVars
  <2>1. \A s \in Runs : RunInv(s)'
    BY <1>1, OthersKeep
    DEF SyncInv, SuccessIsReal, OneWay, syncVars, connVars, jobVars, runVars, faultVars
  <2> QED
    BY <1>1, <2>1
    DEF SyncInv, SuccessIsReal, SyncTypeOK, RowsHaveJobs, NextIsIdle, syncVars, connVars,
        jobVars, runVars, faultVars
<1>2. ASSUME NEW r \in Runs, SectionStep(r) PROVE SyncInv'
  BY <1>2, ResolveKeeps, SyncingKeeps, FetchKeeps, RefreshKeeps, AwaitKeeps, ImportKeeps,
     CollectKeeps, ConfirmKeeps, FinalKeeps, ApplyKeeps, DeleteKeeps DEF SectionStep
<1>3. ASSUME NEW r \in Runs, RunStep(r) \/ Acquire(r) \/ Throws(r) \/ Dies(r) PROVE SyncInv'
  BY <1>2, <1>3, LoadKeeps, UnlockKeeps, RecordKeeps, ReportKeeps, AcquireKeeps, ThrowsKeeps,
     DiesKeeps DEF RunStep
<1>4. ASSUME NEW j \in ConnectionJobs, RetryDead(j) \/ BeginAttempt(j) \/ LeaseExpires(j) PROVE SyncInv'
  BY <1>4, RetryKeeps, AttemptKeeps, ExpiryKeeps
<1>5. ASSUME NEW r, \/ r \in Schedulers /\ BeginSchedule(r)
                    \/ r \in Importers /\ BeginImport(r)
                    \/ r \in Discoverers /\ BeginDiscovery(r)
      PROVE  SyncInv'
  BY <1>5, BeginKeeps DEF Runs, Locking
<1> QED
  BY <1>1, <1>3, <1>4, <1>5, ItemKeeps, IngestKeeps, RequestKeeps, LossKeeps DEF SyncNext

LEMMA InvariantHolds == SyncSpec => []SyncInv
  BY InitKeeps, StepKeeps, PTL DEF SyncSpec

\* A job that ends in success has dealt with its event, a processed deletion has
\* deleted the connection, and no account of a deleted connection is active: for any
\* number of events, attempts, processes, faults and lost locks.
THEOREM SuccessHolds == SyncSpec => []SuccessIsReal
<1>1. SyncInv => SuccessIsReal
  BY DEF SyncInv
<1> QED
  BY <1>1, InvariantHolds, PTL

\* Only three steps write local_status.
LEMMA WhoWritesStatus ==
  ASSUME [SyncNext]_syncVars, status' # status
  PROVE  \E r \in Runs : Syncing(r) \/ Apply(r) \/ Delete(r)
<1>1. \E r \in Runs : SectionStep(r)
  BY DEF SyncNext, syncVars, connVars, RunStep, ItemChanges, Ingest, RequestReconciliation,
         RetryDead, BeginAttempt, LeaseExpires, BeginSchedule, BeginImport, BeginDiscovery,
         Load, Acquire, Unlock, Record, Report, Throws, Dies, LosesLock
<1> QED
  BY <1>1 DEF SectionStep, connVars, Resolve, Fetch, Refresh, Await, Import, Collect, Confirm, Final

\* Only three steps write to the inbox.
LEMMA WhoWritesEvents ==
  ASSUME [SyncNext]_syncVars, event' # event
  PROVE  (\E e \in Events : Ingest(e)) \/ (\E r \in Runs : Record(r) \/ Throws(r))
  BY DEF SyncNext, syncVars, RunStep, SectionStep, ItemChanges, RequestReconciliation,
         RetryDead, BeginAttempt, LeaseExpires, BeginSchedule, BeginImport, BeginDiscovery,
         Load, Acquire, Unlock, Report, Dies, LosesLock, Resolve, Syncing, Fetch, Refresh,
         Await, Import, Collect, Confirm, Final, Apply, Delete

\* A settled row of the inbox stays settled.
LEMMA ProcessedStep == SyncInv /\ [SyncNext]_syncVars => ProcessedStays
<1> SUFFICES ASSUME SyncInv, [SyncNext]_syncVars, NEW x \in Rows,
                    event[x] \in {"PROCESSED", "UNMAPPED"}, event' # event
             PROVE  event'[x] = event[x]
  BY DEF ProcessedStays
<1>1. SyncTypeOK
  BY DEF SyncInv, SuccessIsReal
<1>2. CASE \E e \in Events : Ingest(e)
  BY <1>1, <1>2 DEF Ingest, Rows, SyncTypeOK
<1>3. ASSUME NEW r \in Runs, Record(r) \/ Throws(r) PROVE event'[x] = event[x]
  <2>1. CASE pc[r] = "record"
    <3>1. IsWebhook(r) /\ r[1] \in Rows /\ event[r[1]] # "UNMAPPED"
      BY <2>1, KindsOfRuns DEF SyncInv, RunInv, AtItsPlace, KnowsItsRow
    <3>2. event' = event \/ event' = [event EXCEPT ![r[1]] = "PROCESSED"]
                         \/ event' = [event EXCEPT ![r[1]] = FailedEvent(event[r[1]])]
      BY <1>3 DEF Record, Throws
    <3> QED
      BY <1>1, <3>1, <3>2 DEF FailedEvent, SyncTypeOK
  <2>2. CASE pc[r] # "record"
    BY <1>3, <2>2 DEF Record, Throws, At
  <2> QED
    BY <2>1, <2>2
<1> QED
  BY <1>2, <1>3, WhoWritesEvents

\* Nobody reopens a closed connection.
LEMMA ClosedStep == SyncInv /\ [SyncNext]_syncVars => ClosedStays
<1> SUFFICES ASSUME SyncInv, [SyncNext]_syncVars, status \in Closed, status' # status
             PROVE  status' = "DELETED"
  BY DEF ClosedStays
<1> QED
  BY WhoWritesStatus DEF Syncing, Apply, Delete, Retained

\* Processed events stay processed and closed connections closed, whoever else is
\* still running, retried or without its lock.
THEOREM EndsStay == SyncSpec => EndsAreFinal
  BY InvariantHolds, ProcessedStep, ClosedStep, PTL DEF SyncSpec, EndsAreFinal

\* A refresh is requested for an open connection.
LEMMA RefreshStep == SyncInv => RefreshesOpen
  BY KindsOfRuns DEF SyncInv, RunInv, AtItsPlace, StillOpen, RefreshesOpen, Requested, At, Runs

\* Whoever shows a syncing connection as ACTIVE has its data, or is discovery.
LEMMA ActiveStep == SyncInv /\ [SyncNext]_syncVars => ActiveIsCollected
<1> SUFFICES ASSUME SyncInv, [SyncNext]_syncVars, status = "SYNCING", status' = "ACTIVE"
             PROVE  accounts = "active" \/ \E r \in Discoverers : At(r, "apply") /\ pc'[r] # "apply"
  BY DEF ActiveIsCollected
<1>1. PICK r \in Runs : Syncing(r) \/ Apply(r) \/ Delete(r)
  BY WhoWritesStatus
<1>2. Apply(r) /\ pc[r] = "apply" /\ seen[r] = "ACTIVE"
  BY <1>1 DEF Syncing, Apply, Delete, Retained, Closed, At
<1>3. RunInv(r) /\ SyncTypeOK
  BY DEF SyncInv, SuccessIsReal
<1>4. CASE r \in Locking
  BY <1>2, <1>3, <1>4 DEF RunInv, AtItsPlace, HasCollected
<1>5. CASE r \notin Locking
  <2>1. r \in Discoverers
    BY <1>2, <1>3, <1>5, KindsOfRuns DEF RunInv, AtItsPlace
  <2>2. pc'[r] = "idle"
    BY <1>2, <1>3, <1>5, LeaveMoves DEF Apply
  <2> QED
    BY <1>2, <2>1, <2>2 DEF At
<1> QED
  BY <1>4, <1>5

\* No refresh of a closed connection while locks hold, and no handler shows a syncing
\* connection as ACTIVE before its data was collected.
THEOREM NothingIsPremature == SyncSpec => NothingPremature
  BY InvariantHolds, RefreshStep, ActiveStep, PTL DEF SyncSpec, NothingPremature

USE NoneIsNothing
-----------------------------------------------------------------------------
(* The advisory locks.                                                      *)

Using == {"lock", "section", "query", "unlock"}
Inside == {"section", "query", "unlock"}

\* Places, clients and locks have their types.
LockTypes ==
    /\ taskPlace \in [Tasks -> Lp!Place]
    /\ client \in [Tasks -> Lp!Clients \cup {None}]
    /\ held \in [Lp!Keys -> Lp!Clients \cup {None}]

\* A task has a client from the answer of connect() to its release, and nobody else
\* has the same.
ClientsAreOwn ==
    /\ \A t \in Tasks : client[t] # None <=> taskPlace[t] \in Using
    /\ \A t, u \in Tasks : client[t] # None /\ client[t] = client[u] => t = u

\* A key is held by the client of a task inside its section.
HeldInside ==
    \A k \in Lp!Keys : held[k] # None =>
      \E t \in Tasks : client[t] = held[k] /\ KeyOf[t] = k /\ taskPlace[t] \in Inside

LockInv == LockTypes /\ ClientsAreOwn /\ HeldInside

-----------------------------------------------------------------------------
\* LockInv says what the locks promise.
LEMMA InvImpliesSound == LockInv => Lp!LocksAreSound
<1> SUFFICES ASSUME LockInv PROVE Lp!LocksAreSound
  OBVIOUS
<1>1. Lp!NoLockLeftBehind
  BY DEF LockInv, HeldInside, Lp!NoLockLeftBehind
<1>2. Lp!SectionsExclude
  BY DEF LockInv, LockTypes, ClientsAreOwn, Lp!SectionsExclude, Using, Lp!Place
<1> QED
  BY <1>1, <1>2 DEF Lp!LocksAreSound

\* A task that releases its client, with what that client held freed, keeps LockInv.
LEMMA ReleaseFreed ==
  ASSUME LockInv, NEW t \in Tasks, taskPlace[t] \in Using,
         held' = Lp!Freed(client[t]), Lp!Release(t), Lp!Goto(t, "idle")
  PROVE  LockInv'
<1> USE DEF LockInv, Lp!Freed, Lp!Release, Lp!Goto
<1>1. LockTypes'
  BY DEF LockTypes, Lp!Place
<1>2. ClientsAreOwn'
  BY DEF LockTypes, ClientsAreOwn, Using
<1>3. HeldInside'
  <2> SUFFICES ASSUME NEW k \in Lp!Keys, held'[k] # None
               PROVE  \E u \in Tasks : /\ client'[u] = held'[k] /\ KeyOf[u] = k
                                     /\ taskPlace'[u] \in Inside
    BY DEF HeldInside
  <2>1. held'[k] = held[k] /\ held[k] # client[t]
    BY DEF LockTypes
  <2>2. PICK u \in Tasks : client[u] = held[k] /\ KeyOf[u] = k /\ taskPlace[u] \in Inside
    BY <2>1 DEF HeldInside
  <2>3. u # t
    BY <2>1, <2>2
  <2> QED
    BY <2>1, <2>2, <2>3 DEF LockTypes
<1> QED
  BY <1>1, <1>2, <1>3

\* A task that moves inside its section, with every lock and client as it was.
LEMMA MovesInside ==
  ASSUME LockInv, NEW t \in Tasks, taskPlace[t] \in Inside, NEW p \in Inside, Lp!Goto(t, p),
         UNCHANGED <<client, held>>
  PROVE  LockInv'
<1> USE DEF LockInv, Lp!Goto, Inside
<1>1. LockTypes'
  BY DEF LockTypes, Lp!Place
<1>2. ClientsAreOwn'
  BY DEF LockTypes, ClientsAreOwn, Using
<1>3. HeldInside'
  BY DEF LockTypes, HeldInside
<1> QED
  BY <1>1, <1>2, <1>3

-----------------------------------------------------------------------------
\* LockInv holds of an idle pool.
LEMMA InitLocks == Lp!Init => LockInv
  BY DEF Lp!Init, LockInv, LockTypes, ClientsAreOwn, HeldInside, Lp!Place, Using

\* No step of a task breaks it.
LEMMA StepLocks ==
  ASSUME LockInv, [Lp!Next]_(Lp!vars) PROVE LockInv'
<1>1. CASE UNCHANGED Lp!vars
  BY <1>1 DEF Lp!vars, LockInv, LockTypes, ClientsAreOwn, HeldInside
<1>2. ASSUME NEW t \in Tasks, Lp!Connect(t) PROVE LockInv'
  <2> USE <1>2 DEF LockInv, Lp!Connect, Lp!Goto
  <2>1. LockTypes'
    BY DEF LockTypes, Lp!Place
  <2>2. ClientsAreOwn'
    BY DEF LockTypes, ClientsAreOwn, Using
  <2>3. HeldInside'
    BY DEF LockTypes, HeldInside, Inside
  <2> QED
    BY <2>1, <2>2, <2>3
<1>3. ASSUME NEW t \in Tasks, Lp!Lend(t) PROVE LockInv'
  <2>1. PICK c \in Lp!Free :
          \/ /\ taskPlace[t] = "connect"
             /\ client' = [client EXCEPT ![t] = c]
             /\ Lp!Goto(t, "lock")
          \/ client' = client /\ taskPlace' = taskPlace
    BY <1>3 DEF Lp!Lend
  <2>2. held' = held
    BY <1>3 DEF Lp!Lend
  <2>3. CASE client' = client /\ taskPlace' = taskPlace
    BY <2>2, <2>3 DEF LockInv, LockTypes, ClientsAreOwn, HeldInside
  <2>4. CASE /\ taskPlace[t] = "connect"
             /\ client' = [client EXCEPT ![t] = c]
             /\ Lp!Goto(t, "lock")
    <3> USE <2>2, <2>4 DEF LockInv, Lp!Goto
    <3>1. /\ c \in Lp!Clients /\ c # None
          /\ \A u \in Tasks : client[u] # c
      BY DEF Lp!Free, Lp!Lent
    <3>2. LockTypes'
      BY <3>1 DEF LockTypes, Lp!Place
    <3>3. ClientsAreOwn'
      BY <3>1 DEF LockTypes, ClientsAreOwn, Using
    <3>4. HeldInside'
      BY DEF LockTypes, HeldInside, Inside
    <3> QED
      BY <3>2, <3>3, <3>4
  <2> QED
    BY <2>1, <2>3, <2>4
<1>4. ASSUME NEW t \in Tasks, Lp!Acquire(t) PROVE LockInv'
  <2> USE <1>4 DEF LockInv, Lp!Acquire, Lp!Goto
  <2>1. client[t] \in Lp!Clients /\ KeyOf[t] \in Lp!Keys
    BY DEF LockTypes, ClientsAreOwn, Using, Lp!Keys
  <2>2. LockTypes'
    BY <2>1 DEF LockTypes, Lp!Place
  <2>3. ClientsAreOwn'
    BY DEF LockTypes, ClientsAreOwn, Using
  <2>4. HeldInside'
    BY <2>1 DEF LockTypes, HeldInside, Inside
  <2> QED
    BY <2>2, <2>3, <2>4
<1>5. ASSUME NEW t \in Tasks, Lp!Refused(t) PROVE LockInv'
  <2> USE <1>5 DEF LockInv, Lp!Refused, Lp!Goto, Lp!Release
  <2>1. LockTypes'
    BY DEF LockTypes, Lp!Place
  <2>2. ClientsAreOwn'
    BY DEF LockTypes, ClientsAreOwn, Using
  <2>3. HeldInside'
    BY DEF LockTypes, HeldInside, Inside
  <2> QED
    BY <2>1, <2>2, <2>3
<1>6. ASSUME NEW t \in Tasks, Lp!LockFails(t) PROVE LockInv'
  BY <1>6, ReleaseFreed DEF Lp!LockFails, Using
<1>7. ASSUME NEW t \in Tasks, Lp!Query(t) PROVE LockInv'
  BY <1>7, MovesInside DEF Lp!Query, Inside
<1>8. ASSUME NEW t \in Tasks, Lp!QueryEnds(t) PROVE LockInv'
  BY <1>8, MovesInside DEF Lp!QueryEnds, Inside
<1>9. ASSUME NEW t \in Tasks, Lp!SessionLost(t) PROVE LockInv'
  <2> USE <1>9 DEF LockInv, Lp!SessionLost, Lp!Freed
  <2>1. LockTypes'
    BY DEF LockTypes
  <2>2. ClientsAreOwn'
    BY DEF ClientsAreOwn
  <2>3. HeldInside'
    BY DEF LockTypes, HeldInside
  <2> QED
    BY <2>1, <2>2, <2>3
<1>10. ASSUME NEW t \in Tasks, Lp!Unlock(t) PROVE LockInv'
  BY <1>10, ReleaseFreed DEF Lp!Unlock, Lp!AfterFailedUnlock, Using
<1> QED
  BY <1>1, <1>2, <1>3, <1>4, <1>5, <1>6, <1>7, <1>8, <1>9, <1>10 DEF Lp!Next

\* Whatever queries fail and sessions end, no key stays locked behind a section that is
\* over and no two sections of a key hold it, for any tasks, keys and pool.
THEOREM LocksSound == MCSpec => []LocksAreSound
<1>1. MCInit => LockInv
  BY InitLocks DEF MCInit
<1>2. LockInv /\ [MCNext]_allVars => LockInv'
  <2>1. [MCNext]_allVars => [Lp!Next]_(Lp!vars)
    BY DEF MCNext, allVars, lockVars, Lp!vars
  <2> QED
    BY <2>1, StepLocks
<1>3. LockInv => LocksAreSound
  BY InvImpliesSound DEF LocksAreSound
<1> QED
  BY <1>1, <1>2, <1>3, PTL DEF MCSpec

-----------------------------------------------------------------------------
(* The client of the provider.                                              *)

ClientTypes ==
    /\ age \in [Pc!Keys -> Pc!Age]
    /\ cached \in Pc!Keys \cup {None}
    /\ refreshes \in Nat
    /\ requestPlace \in [Requests -> Pc!Place]
    /\ key \in [Requests -> Pc!Keys \cup {None}]
    /\ refused \in [Requests -> SUBSET Pc!Keys]
    /\ effects \in [Requests -> Nat]

Issued == {k \in Pc!Keys : age[k] # "unissued"}
Holding == {"send", "sent", "sleep"}

\* The provider numbers its keys; only what it has issued is cached, used or refused.
KeysAreIssued ==
    /\ \A i \in Pc!Keys, j \in Issued : i < j => i \in Issued
    /\ cached \in Issued \cup {None}
    /\ \A r \in Requests : /\ requestPlace[r] \in Holding => key[r] \in Issued
                           /\ refused[r] \subseteq Issued

\* A refused key is not cached while the request it was refused to goes on.
RefusedIsDropped == \A r \in Requests : requestPlace[r] # "failed" => cached \notin refused[r]

\* The provider has not acted on an unsafe request that is still under way.
UnsafeIsPending ==
    \A r \in Requests \ Safe :
      /\ requestPlace[r] # "sleep"
      /\ requestPlace[r] \notin {"succeeded", "failed"} => effects[r] = 0

ClientInv ==
    /\ ClientTypes /\ KeysAreIssued /\ RefusedIsDropped /\ UnsafeIsPending
    /\ Pc!OneRefresh /\ Pc!RefusedKeyIsGone /\ Pc!UnsafeActsOnce

-----------------------------------------------------------------------------
\* ClientInv holds before any request.
LEMMA InitClient == ASSUME Pc!Init PROVE ClientInv
<1>1. ClientTypes /\ KeysAreIssued /\ RefusedIsDropped
  BY DEF Pc!Init, ClientTypes, KeysAreIssued, RefusedIsDropped, Issued, Holding,
         Pc!Age, Pc!Place
<1>2. UnsafeIsPending /\ Pc!OneRefresh /\ Pc!RefusedKeyIsGone /\ Pc!UnsafeActsOnce
  BY DEF Pc!Init, UnsafeIsPending, Pc!OneRefresh, Pc!RefusedKeyIsGone, Pc!UnsafeActsOnce,
         Pc!Refreshing
<1> QED
  BY <1>1, <1>2 DEF ClientInv

\* A request that goes on with its key, or ends, without a new key or refusal.
LEMMA GoesOn ==
  ASSUME ClientInv, NEW r \in Requests, requestPlace[r] # "await",
         NEW place \in Pc!Place \ {"await"}, Pc!Goto(r, place),
         place \in Holding => requestPlace[r] \in Holding,
         place = "sleep" => r \in Safe,
         requestPlace[r] = "failed" => place = "failed",
         effects' \in [Requests -> Nat],
         \A q \in Requests : q # r => effects'[q] = effects[q],
         r \notin Safe =>
           /\ effects'[r] <= 1
           /\ place \notin {"succeeded", "failed"} => effects'[r] = 0,
         UNCHANGED <<age, cached, refreshes, key, refused>>
  PROVE  ClientInv'
<1> USE DEF ClientInv, Pc!Goto
<1>1. ClientTypes'
  BY DEF ClientTypes
<1>2. KeysAreIssued'
  BY DEF ClientTypes, KeysAreIssued, Issued
<1>3. RefusedIsDropped'
  BY DEF ClientTypes, RefusedIsDropped
<1>4. UnsafeIsPending' /\ Pc!UnsafeActsOnce'
  BY DEF ClientTypes, UnsafeIsPending, Pc!UnsafeActsOnce
<1>5. Pc!OneRefresh'
  BY DEF ClientTypes, Pc!OneRefresh, Pc!Refreshing
<1>6. Pc!RefusedKeyIsGone'
  BY DEF ClientTypes, Pc!RefusedKeyIsGone, Holding
<1> QED
  BY <1>1, <1>2, <1>3, <1>4, <1>5, <1>6

\* A request that is refused its key: it is invalidated and the request asks for another.
LEMMA Renews ==
  ASSUME ClientInv, NEW r \in Requests, requestPlace[r] = "sent",
         cached' = Pc!Invalidated(key[r]),
         refused' = [refused EXCEPT ![r] = refused[r] \cup {key[r]}],
         Pc!Goto(r, "key"), UNCHANGED <<age, refreshes, key, effects>>
  PROVE  ClientInv'
<1> USE DEF ClientInv, Pc!Goto, Pc!Invalidated
<1>0. key[r] \in Issued /\ Issued' = Issued /\ key[r] # None
  BY DEF KeysAreIssued, Holding, Issued
<1>1. ClientTypes'
  BY <1>0 DEF ClientTypes, Pc!Place, Issued
<1>2. KeysAreIssued'
  BY <1>0 DEF ClientTypes, KeysAreIssued, Holding
<1>3. RefusedIsDropped'
  BY <1>0, <1>1 DEF ClientTypes, RefusedIsDropped
<1>4. UnsafeIsPending' /\ Pc!UnsafeActsOnce'
  BY DEF ClientTypes, UnsafeIsPending, Pc!UnsafeActsOnce
<1>5. Pc!OneRefresh'
  BY DEF ClientTypes, Pc!OneRefresh, Pc!Refreshing
<1>6. Pc!RefusedKeyIsGone'
  BY DEF ClientTypes, Pc!RefusedKeyIsGone
<1> QED
  BY <1>1, <1>2, <1>3, <1>4, <1>5, <1>6

\* A request that is refused twice ends, and leaves the key to the others.
LEMMA GivesUp ==
  ASSUME ClientInv, NEW r \in Requests, requestPlace[r] = "sent",
         refused' = [refused EXCEPT ![r] = refused[r] \cup {key[r]}],
         Pc!Goto(r, "failed"), UNCHANGED <<age, cached, refreshes, key, effects>>
  PROVE  ClientInv'
<1> USE DEF ClientInv, Pc!Goto
<1>0. key[r] \in Issued /\ Issued' = Issued
  BY DEF KeysAreIssued, Holding, Issued
<1>1. ClientTypes'
  BY <1>0 DEF ClientTypes, Pc!Place, Issued
<1>2. KeysAreIssued'
  BY <1>0 DEF ClientTypes, KeysAreIssued, Holding
<1>3. RefusedIsDropped'
  BY DEF ClientTypes, RefusedIsDropped
<1>4. UnsafeIsPending' /\ Pc!UnsafeActsOnce'
  BY DEF ClientTypes, UnsafeIsPending, Pc!UnsafeActsOnce
<1>5. Pc!OneRefresh'
  BY DEF ClientTypes, Pc!OneRefresh, Pc!Refreshing
<1>6. Pc!RefusedKeyIsGone'
  BY DEF ClientTypes, Pc!RefusedKeyIsGone
<1> QED
  BY <1>1, <1>2, <1>3, <1>4, <1>5, <1>6

-----------------------------------------------------------------------------
\* An answer of the provider keeps ClientInv.
LEMMA AnswerKeeps ==
  ASSUME ClientInv, NEW r \in Requests, NEW answered \in Pc!Status,
         Pc!Answer(r, answered)
  PROVE  ClientInv'
<1>1. effects' = effects \/ effects' = [effects EXCEPT ![r] = effects[r] + 1]
  BY DEF Pc!Answer
<1>2. /\ effects' \in [Requests -> Nat]
      /\ \A q \in Requests : q # r => effects'[q] = effects[q]
      /\ r \notin Safe => effects'[r] <= 1
  BY <1>1 DEF Pc!Answer, ClientInv, ClientTypes, UnsafeIsPending
<1>3. requestPlace[r] = "sent" /\ UNCHANGED <<age, refreshes, key>>
  BY DEF Pc!Answer
<1>4. CASE answered = "unauthorized"
  BY <1>3, <1>4, Renews, GivesUp DEF Pc!Answer
<1>5. CASE answered # "unauthorized"
  <2>1. UNCHANGED <<cached, refused>>
    BY <1>5 DEF Pc!Answer
  <2>2. PICK place \in {"sleep", "succeeded", "failed"} : Pc!Goto(r, place)
                                                 /\ (place = "sleep" => r \in Safe)
    BY <1>5 DEF Pc!Answer, Pc!MayRetry
  <2> QED
    BY <1>2, <1>3, <2>1, <2>2, GoesOn DEF Pc!Place, Holding
<1> QED
  BY <1>4, <1>5

\* The end of a refresh keeps ClientInv.
LEMMA RefreshedKeeps == ASSUME ClientInv, Pc!Refreshed PROVE ClientInv'
<1> DEFINE Awaiting == {r \in Requests : requestPlace[r] = "await"}
<1> USE DEF ClientInv, Pc!Settled
<1>1. refreshes = 1 /\ refreshes' = 0
  BY DEF Pc!Refreshed, Pc!Refreshing, Pc!OneRefresh, ClientTypes
<1>2. UNCHANGED <<refused, effects>>
  BY DEF Pc!Refreshed
<1>3. CASE \E k \in Pc!Keys :
            /\ age[k] = "unissued"
            /\ \A older \in 1..k - 1 : age[older] # "unissued"
            /\ age' = [age EXCEPT ![k] = "fresh"]
            /\ cached' = k
            /\ key' = [r \in Requests |-> IF Pc!Settled(r, TRUE) THEN k ELSE key[r]]
            /\ requestPlace' = [r \in Requests |->
                 IF Pc!Settled(r, TRUE) THEN "send" ELSE requestPlace[r]]
  <2>1. PICK k \in Pc!Keys :
            /\ age[k] = "unissued"
            /\ \A older \in 1..k - 1 : age[older] # "unissued"
            /\ age' = [age EXCEPT ![k] = "fresh"]
            /\ cached' = k
            /\ key' = [r \in Requests |-> IF requestPlace[r] = "await" THEN k ELSE key[r]]
            /\ requestPlace' = [r \in Requests |->
                 IF requestPlace[r] = "await" THEN "send" ELSE requestPlace[r]]
    BY <1>3
  <2>2. k \notin Issued /\ Issued' = Issued \cup {k}
    BY <2>1 DEF Issued, ClientTypes
  <2>3. \A i \in Pc!Keys : i < k => i \in Issued
    <3> SUFFICES ASSUME NEW i \in Pc!Keys, i < k PROVE i \in Issued
      OBVIOUS
    <3>1. i \in 1..k - 1
      BY DEF Pc!Keys
    <3> QED
      BY <2>1, <3>1 DEF Issued
  <2>4. ClientTypes'
    BY <1>1, <1>2, <2>1 DEF ClientTypes, Pc!Age, Pc!Place
  <2>5. KeysAreIssued'
    BY <1>2, <2>1, <2>2, <2>3 DEF KeysAreIssued, Holding, ClientTypes
  <2>6. RefusedIsDropped'
    BY <1>2, <2>1, <2>2 DEF KeysAreIssued, RefusedIsDropped, ClientTypes
  <2>7. UnsafeIsPending' /\ Pc!UnsafeActsOnce'
    BY <1>2, <2>1 DEF UnsafeIsPending, Pc!UnsafeActsOnce, ClientTypes
  <2>8. Pc!OneRefresh'
    BY <1>1, <2>1 DEF Pc!OneRefresh, Pc!Refreshing, ClientTypes
  <2>9. Pc!RefusedKeyIsGone'
    BY <1>2, <2>1, <2>2 DEF Pc!RefusedKeyIsGone, KeysAreIssued, ClientTypes
  <2> QED
    BY <2>4, <2>5, <2>6, <2>7, <2>8, <2>9
<1>4. CASE /\ requestPlace' = [r \in Requests |->
                IF Pc!Settled(r, FALSE) THEN "failed" ELSE requestPlace[r]]
           /\ UNCHANGED <<age, cached, key>>
  <2>1. ClientTypes'
    BY <1>1, <1>2, <1>4 DEF ClientTypes, Pc!Place
  <2>2. KeysAreIssued' /\ RefusedIsDropped'
    BY <1>2, <1>4 DEF KeysAreIssued, RefusedIsDropped, Holding, Issued
  <2>3. UnsafeIsPending' /\ Pc!UnsafeActsOnce'
    BY <1>2, <1>4 DEF UnsafeIsPending, Pc!UnsafeActsOnce
  <2>4. Pc!OneRefresh'
    BY <1>1, <1>4 DEF Pc!OneRefresh, Pc!Refreshing, ClientTypes
  <2>5. Pc!RefusedKeyIsGone'
    BY <1>2, <1>4 DEF Pc!RefusedKeyIsGone
  <2> QED
    BY <2>1, <2>2, <2>3, <2>4, <2>5
<1> QED
  BY <1>3, <1>4 DEF Pc!Refreshed

\* A request that asks for a key gets the cached one or awaits a refresh.
LEMMA GetApiKeyKeeps ==
  ASSUME ClientInv, NEW r \in Requests, Pc!GetApiKey(r) PROVE ClientInv'
<1> USE DEF ClientInv, Pc!Goto
<1>0. /\ requestPlace[r] = "key"
      /\ UNCHANGED <<age, cached, refused, effects>> /\ Issued' = Issued
  BY DEF Pc!GetApiKey, Issued
<1>1. CASE /\ cached # None /\ key' = [key EXCEPT ![r] = cached]
           /\ Pc!Goto(r, "send") /\ UNCHANGED refreshes
  <2>1. ClientTypes'
    BY <1>0, <1>1 DEF ClientTypes, Pc!Place
  <2>2. KeysAreIssued' /\ RefusedIsDropped'
    BY <1>0, <1>1 DEF KeysAreIssued, RefusedIsDropped, ClientTypes
  <2>3. UnsafeIsPending' /\ Pc!UnsafeActsOnce'
    BY <1>0, <1>1 DEF UnsafeIsPending, Pc!UnsafeActsOnce, ClientTypes
  <2>4. Pc!OneRefresh'
    BY <1>0, <1>1 DEF Pc!OneRefresh, Pc!Refreshing, ClientTypes
  <2>5. Pc!RefusedKeyIsGone'
    BY <1>0, <1>1 DEF Pc!RefusedKeyIsGone, RefusedIsDropped, ClientTypes
  <2> QED
    BY <2>1, <2>2, <2>3, <2>4, <2>5
<1>2. CASE /\ refreshes' = IF Pc!Refreshing THEN refreshes ELSE refreshes + 1
           /\ Pc!Goto(r, "await") /\ UNCHANGED key
  <2>1. ClientTypes'
    BY <1>0, <1>2 DEF ClientTypes, Pc!Place
  <2>2. KeysAreIssued' /\ RefusedIsDropped'
    BY <1>0, <1>2 DEF KeysAreIssued, RefusedIsDropped, ClientTypes, Holding
  <2>3. UnsafeIsPending' /\ Pc!UnsafeActsOnce'
    BY <1>0, <1>2 DEF UnsafeIsPending, Pc!UnsafeActsOnce, ClientTypes
  <2>4. Pc!OneRefresh'
    BY <1>0, <1>2 DEF Pc!OneRefresh, Pc!Refreshing, ClientTypes
  <2>5. Pc!RefusedKeyIsGone'
    BY <1>0, <1>2 DEF Pc!RefusedKeyIsGone, ClientTypes
  <2> QED
    BY <2>1, <2>2, <2>3, <2>4, <2>5
<1> QED
  BY <1>1, <1>2 DEF Pc!GetApiKey

\* Every step keeps ClientInv.
LEMMA StepClient == ASSUME ClientInv, [Pc!Next]_(Pc!vars) PROVE ClientInv'
<1>1. CASE UNCHANGED Pc!vars
  BY <1>1 DEF Pc!vars, Pc!keyVars, Pc!localVars, ClientInv, ClientTypes, KeysAreIssued, Issued,
              RefusedIsDropped, UnsafeIsPending, Pc!OneRefresh, Pc!Refreshing, Pc!RefusedKeyIsGone,
              Pc!UnsafeActsOnce
<1>2. ASSUME NEW k \in Pc!Keys, Pc!Ages(k) PROVE ClientInv'
  <2>1. UNCHANGED <<cached, refreshes, requestPlace, key, refused, effects>>
    BY <1>2 DEF Pc!Ages, Pc!localVars
  <2>2. age' \in [Pc!Keys -> Pc!Age] /\ Issued' = Issued
    BY <1>2 DEF Pc!Ages, ClientInv, ClientTypes, Pc!Age, Issued
  <2> QED
    BY <2>1, <2>2 DEF ClientInv, ClientTypes, KeysAreIssued, RefusedIsDropped, UnsafeIsPending,
                      Pc!OneRefresh, Pc!Refreshing, Pc!RefusedKeyIsGone, Pc!UnsafeActsOnce
<1>3. ASSUME NEW k \in Pc!Keys, Pc!Revoke(k) PROVE ClientInv'
  BY <1>3 DEF Pc!Revoke, Pc!localVars, ClientInv, ClientTypes, KeysAreIssued, Issued,
              RefusedIsDropped, UnsafeIsPending, Pc!OneRefresh, Pc!Refreshing, Pc!RefusedKeyIsGone,
              Pc!UnsafeActsOnce
<1>4. ASSUME Pc!Refreshed PROVE ClientInv'
  BY <1>4, RefreshedKeeps
<1>5. ASSUME NEW r \in Requests, Pc!GetApiKey(r) PROVE ClientInv'
  BY <1>5, GetApiKeyKeeps
<1>6. ASSUME NEW r \in Requests, Pc!Begin(r) \/ Pc!Send(r) \/ Pc!BreakOff(r) \/ Pc!WakeUp(r)
      PROVE  ClientInv'
  <2>1. /\ \/ effects' = effects
           \/ requestPlace[r] = "sent" /\ effects' = [effects EXCEPT ![r] = effects[r] + 1]
                             /\ Pc!Goto(r, "failed")
        /\ UNCHANGED <<age, cached, refreshes, key, refused>>
    BY <1>6 DEF Pc!Begin, Pc!Send, Pc!BreakOff, Pc!WakeUp, Pc!keyVars, Pc!localVars
  <2>2. PICK place \in {"key", "send", "sent", "failed"} :
          /\ Pc!Goto(r, place)
          /\ requestPlace[r] \notin {"await", "failed", "succeeded"}
          /\ place \in Holding => requestPlace[r] \in Holding
          /\ effects' # effects => place = "failed"
    BY <1>6 DEF Pc!Begin, Pc!Send, Pc!BreakOff, Pc!WakeUp, Holding
  <2>3. /\ effects' \in [Requests -> Nat]
        /\ \A q \in Requests : q # r => effects'[q] = effects[q]
        /\ r \notin Safe => /\ effects'[r] <= 1
                            /\ place \notin {"succeeded", "failed"} => effects'[r] = 0
    BY <2>1, <2>2 DEF ClientInv, ClientTypes, UnsafeIsPending
  <2> QED
    BY <2>1, <2>2, <2>3, GoesOn DEF Pc!Place
<1>7. ASSUME NEW r \in Requests, NEW answered \in Pc!Status, Pc!Answer(r, answered) PROVE ClientInv'
  BY <1>7, AnswerKeeps
<1> QED
  BY <1>1, <1>2, <1>3, <1>4, <1>5, <1>6, <1>7 DEF Pc!Next

-----------------------------------------------------------------------------
\* The client only moves as ProviderClient says.
LEMMA ClientMoves == [MCNext]_allVars => [Pc!Next]_(Pc!vars)
  BY DEF MCNext, allVars, clientVars, Pc!vars, Pc!keyVars, Pc!localVars

\* However their refreshes, invalidations and lost answers interleave, requests share
\* one refresh, none of them sends again a key it was refused, and the provider acts at
\* most once on a request that is not safe to repeat.
THEOREM RequestsSound == MCSpec => []RequestsAreSound
<1>1. MCInit => ClientInv
  BY InitClient DEF MCInit
<1>2. ClientInv /\ [MCNext]_allVars => ClientInv'
  BY ClientMoves, StepClient
<1>3. ClientInv => RequestsAreSound
  BY DEF ClientInv, Pc!KeysAreShared, Pc!RequestsAreSound, RequestsAreSound
<1> QED
  BY <1>1, <1>2, <1>3, PTL DEF MCSpec

\* A refusal that comes late does not drop the key that replaced the refused one.
THEOREM NewerKept == MCSpec => NewerKeyIsKept
<1> DEFINE Kept == cached # None /\ cached' # cached =>
                     \/ cached' # None /\ cached' > cached
                     \/ cached' = None /\ \E r \in Requests : cached \in refused'[r]
<1>1. ASSUME ClientInv, [Pc!Next]_(Pc!vars), cached # None, cached' # cached
      PROVE  \/ cached' # None /\ cached' > cached
             \/ cached' = None /\ \E r \in Requests : cached \in refused'[r]
  <2>1. \/ Pc!Refreshed
        \/ \E r \in Requests, answered \in Pc!Status : Pc!Answer(r, answered)
    BY <1>1 DEF Pc!Next, Pc!vars, Pc!keyVars, Pc!Ages, Pc!Revoke, Pc!Begin, Pc!GetApiKey,
                Pc!Send, Pc!BreakOff, Pc!WakeUp
  <2>2. CASE Pc!Refreshed
    <3>1. PICK k \in Pc!Keys : age[k] = "unissued" /\ cached' = k
      BY <1>1, <2>2 DEF Pc!Refreshed
    <3>2. cached \in Issued /\ k \notin Issued
      BY <1>1, <3>1 DEF ClientInv, KeysAreIssued, Issued
    <3>3. ~ (k < cached) /\ k # cached
      BY <1>1, <3>2 DEF ClientInv, KeysAreIssued
    <3>4. k \in Int /\ cached \in Int
      BY <3>2 DEF Pc!Keys, Issued
    <3>5. k # None
      OBVIOUS
    <3> QED
      BY <3>1, <3>3, <3>4, <3>5
  <2>3. ASSUME NEW r \in Requests, NEW answered \in Pc!Status, Pc!Answer(r, answered)
        PROVE  cached' = None /\ cached \in refused'[r]
    <3>1. /\ cached' = Pc!Invalidated(key[r])
          /\ refused' = [refused EXCEPT ![r] = refused[r] \cup {key[r]}]
      BY <1>1, <2>3 DEF Pc!Answer
    <3>2. cached' = None /\ cached = key[r]
      BY <1>1, <3>1 DEF Pc!Invalidated
    <3> QED
      BY <1>1, <3>1, <3>2 DEF ClientInv, ClientTypes
  <2> QED
    BY <2>1, <2>2, <2>3
<1>2. ClientInv /\ [MCNext]_allVars => ClientInv'
  BY ClientMoves, StepClient
<1>3. ClientInv /\ [MCNext]_allVars => [Kept]_(Pc!vars)
  BY <1>1, ClientMoves
<1>4. MCInit => ClientInv
  BY InitClient DEF MCInit
<1> QED
  BY <1>2, <1>3, <1>4, PTL DEF MCSpec, NewerKeyIsKept, Pc!NewerKeyIsKept, Kept
=============================================================================
