------------------------------- MODULE LockPool -------------------------------
(***************************************************************************)
(* The advisory locks of packages/db/src/advisory-lock.ts and the pool of   *)
(* clients they are taken from (client.ts).  A section keeps the client its *)
(* lock was taken on and runs its own queries on other clients of the same  *)
(* pool.  A task is a job slot, a schedule or a command: it runs one locked *)
(* section after another, always under the same key.                        *)
(*                                                                         *)
(* pg-pool serves connect() in order.  A client is one PostgreSQL session:  *)
(* when it ends, by itself or because it is released with an error, its     *)
(* advisory locks end with it.  Pool, session and lock table are external.  *)
(***************************************************************************)
EXTENDS Integers, FiniteSets, Sequences

CONSTANTS
    Tasks,
    Trying,     \* the tasks that use tryWithAdvisoryLock()
    KeyOf,      \* the lock key of each task
    PoolSize,
    None,
    MaxQueries, \* bound on the queries of each task's section
    MaxFaults   \* bound on failed lock and unlock queries and lost sessions

Clients == 1..PoolSize
Keys == {KeyOf[t] : t \in Tasks}
Place == {"idle", "connect", "lock", "section", "query", "unlock"}

VARIABLES
    pc,
    client,  \* the client each task's lock is taken on
    helper,  \* the client of the query its section runs
    queries, \* the queries its section has run
    pending, \* tasks whose connect() is not answered, in order
    lock,    \* the client that holds each key
    faults

vars == <<pc, client, helper, queries, pending, lock, faults>>

\* Clients, places and the queue keep their types, and a task waits in the queue once.
TypeOK ==
    /\ pc \in [Tasks -> Place]
    /\ client \in [Tasks -> Clients \cup {None}]
    /\ helper \in [Tasks -> Clients \cup {None}]
    /\ queries \in [Tasks -> Nat] /\ \A t \in Tasks : queries[t] <= MaxQueries[t]
    /\ \A i \in DOMAIN pending : pending[i] \in Tasks
    /\ \A i, j \in DOMAIN pending : pending[i] = pending[j] => i = j
    /\ lock \in [Keys -> Clients \cup {None}]
    /\ faults \in 0..MaxFaults

Init ==
    /\ pc = [t \in Tasks |-> "idle"]
    /\ client = [t \in Tasks |-> None]
    /\ helper = [t \in Tasks |-> None]
    /\ queries = [t \in Tasks |-> 0]
    /\ pending = <<>>
    /\ lock = [k \in Keys |-> None]
    /\ faults = 0

Goto(t, place) == pc' = [pc EXCEPT ![t] = place]

Fault == faults < MaxFaults /\ faults' = faults + 1

Lent == {client[t] : t \in Tasks} \cup {helper[t] : t \in Tasks}
Free == Clients \ Lent

\* connect(): the request joins the queue.
Connect(t) ==
    /\ pc[t] = "idle"
    /\ Goto(t, "connect")
    /\ pending' = Append(pending, t)
    /\ UNCHANGED <<client, helper, queries, lock, faults>>

\* The pool answers the first request when a client is free.
Lend(t) ==
    /\ pending # <<>> /\ Head(pending) = t
    /\ pending' = Tail(pending)
    /\ Free # {}
    /\ LET c == CHOOSE c \in Free : TRUE IN
         \/ /\ pc[t] = "connect"
            /\ client' = [client EXCEPT ![t] = c]
            /\ Goto(t, "lock")
            /\ UNCHANGED helper
         \/ /\ pc[t] = "query"
            /\ helper' = [helper EXCEPT ![t] = c]
            /\ UNCHANGED <<client, pc>>
    /\ UNCHANGED <<queries, lock, faults>>

Acquire(t) ==
    /\ pc[t] = "lock" /\ lock[KeyOf[t]] = None
    /\ lock' = [lock EXCEPT ![KeyOf[t]] = client[t]]
    /\ Goto(t, "section")
    /\ UNCHANGED <<client, helper, queries, pending, faults>>

\* release(): the client goes back to the pool as it is.
Release(t) == client' = [client EXCEPT ![t] = None]

\* The locks once the session of client c has ended.
Freed(c) == [k \in Keys |-> IF lock[k] = c THEN None ELSE lock[k]]

\* pg_try_advisory_lock() answers that another session holds the key.
Refused(t) ==
    /\ pc[t] = "lock" /\ t \in Trying
    /\ lock[KeyOf[t]] # None
    /\ Release(t)
    /\ Goto(t, "idle")
    /\ UNCHANGED <<helper, queries, pending, lock, faults>>

\* The lock query fails: the client is released with the error.
LockFails(t) ==
    /\ pc[t] = "lock"
    /\ Fault
    /\ lock' = Freed(client[t])
    /\ Release(t)
    /\ Goto(t, "idle")
    /\ UNCHANGED <<helper, queries, pending>>

\* The section runs a query of its own.
Query(t) ==
    /\ pc[t] = "section"
    /\ Goto(t, "query")
    /\ pending' = Append(pending, t)
    /\ UNCHANGED <<client, helper, queries, lock, faults>>

\* The query ends, and with it the section or not; a failed query ends it too.
QueryEnds(t) ==
    /\ pc[t] = "query" /\ helper[t] # None
    /\ helper' = [helper EXCEPT ![t] = None]
    /\ queries' = [queries EXCEPT ![t] = @ + 1]
    /\ \/ Goto(t, "section") /\ queries'[t] < MaxQueries[t]
       \/ Goto(t, "unlock")
    /\ UNCHANGED <<client, pending, lock, faults>>

\* The session of the lock ends although the section still runs.
SessionLost(t) ==
    /\ pc[t] \in {"section", "query", "unlock"}
    /\ lock[KeyOf[t]] = client[t]
    /\ Fault
    /\ lock' = Freed(client[t])
    /\ UNCHANGED <<pc, client, helper, queries, pending>>

\* Mutant: a client whose unlock failed is released as if it had succeeded.
MutAfterFailedUnlock(c) == lock

\* release(error) ends the session, and its locks with it.
AfterFailedUnlock(c) == Freed(c)

\* runAndUnlock() after the section: pg_advisory_unlock() is answered, also when the
\* session held nothing any more, or fails.
Unlock(t) ==
    /\ pc[t] = "unlock"
    /\ \/ lock' = Freed(client[t]) /\ UNCHANGED faults
       \/ Fault /\ lock' = AfterFailedUnlock(client[t])
    /\ Release(t)
    /\ Goto(t, "idle")
    /\ queries' = [queries EXCEPT ![t] = 0]
    /\ UNCHANGED <<helper, pending>>

Next == \E t \in Tasks :
    \/ Connect(t) \/ Lend(t) \/ Acquire(t) \/ Refused(t) \/ LockFails(t)
    \/ Query(t) \/ QueryEnds(t) \/ SessionLost(t) \/ Unlock(t)

\* The pool and the event loop serve who can go on; PostgreSQL grants a lock in the
\* order of its waiters, so none of them is passed over for ever.
Fairness == \A t \in Tasks :
    /\ WF_vars(Lend(t)) /\ WF_vars(Query(t)) /\ WF_vars(QueryEnds(t)) /\ WF_vars(Unlock(t))
    /\ IF t \in Trying THEN WF_vars(Acquire(t) \/ Refused(t)) ELSE SF_vars(Acquire(t))

Spec == Init /\ [][Next]_vars /\ Fairness

-----------------------------------------------------------------------------

\* A client in the pool holds no lock: a lock is held by a session that a task is still
\* using for it, so no failed section leaves its key locked behind.
NoLockLeftBehind == \A k \in Keys :
    lock[k] # None => \E t \in Tasks : client[t] = lock[k] /\ KeyOf[t] = k

\* Two sections of one key run together only when one of them lost its session.
SectionsExclude == \A t, u \in Tasks :
    /\ t # u /\ KeyOf[t] = KeyOf[u]
    /\ {pc[t], pc[u]} \subseteq {"section", "query", "unlock"}
    => lock[KeyOf[t]] # client[t] \/ lock[KeyOf[u]] # client[u]

\* What the locks promise: no key stays locked behind a failed section, and sections of
\* one key exclude each other.
LocksAreSound == NoLockLeftBehind /\ SectionsExclude

\* Every task that asks for its lock gets it and ends its section, or is refused: the
\* clients that lock holders and waiters keep leave one for the queries of the sections.
SectionsEnd == \A t \in Tasks : pc[t] = "connect" ~> pc[t] = "idle"
=============================================================================
