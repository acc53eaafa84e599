------------------------------ MODULE MCSyncLive ------------------------------
(***************************************************************************)
(* What a synchronization waits for: a small connection under fairness, the *)
(* advisory locks over their pool, and the client of the provider's API.    *)
(* They share no state in the models, so a behaviour runs one of Parts.  In *)
(* the others nothing has begun, so that none of their fair steps is         *)
(* enabled.                                                                *)
(***************************************************************************)
EXTENDS ConnectionSync, FiniteSets, Sequences

CONSTANTS
    Parts, notice,
    Tasks, Trying, KeyOf, PoolSize, MaxQueries, MaxLockFaults,
    Requests, Safe, MaxRetries, MaxKeys, MaxRevoked

MCKindOf == [e \in Events |-> "notice"]

VARIABLES taskPlace, client, helper, queries, pending, held, lockFaults
lockVars == <<taskPlace, client, helper, queries, pending, held, lockFaults>>

\* Every task of the worker synchronizes the same connection.
MCKeyOf == [t \in Tasks |-> "connection"]
MCMaxQueries == [t \in Tasks |-> IF t \in Trying THEN 2 ELSE 1]
Lp == INSTANCE LockPool WITH
        MaxFaults <- MaxLockFaults,
        pc <- taskPlace, lock <- held, faults <- lockFaults

VARIABLES age, revoked, cached, refreshes, requestPlace, key, refused, renewed, retries,
          attempts, effects
clientVars == <<age, revoked, cached, refreshes, requestPlace, key, refused, renewed,
                retries, attempts, effects>>
Pc == INSTANCE ProviderClient WITH pc <- requestPlace

VARIABLE part
connectionVars == <<item, status, dated, accounts, event, stage, tries, budget, lock, pc,
                    seen, verdict, faults, lockLosses>>
allVars == <<connectionVars, lockVars, clientVars, part>>

ASSUME NoneIsNothing == None \notin Lp!Clients \cup Pc!Keys

MCInit == /\ part \in Parts
          /\ SyncInit /\ (part # "connection" => item = "ACTIVE" /\ accounts = "none")
          /\ Lp!Init /\ Pc!Init

MCNext ==
    \/ /\ part = "connection" /\ SyncNext
       /\ UNCHANGED <<part, lockVars, clientVars>>
    \/ /\ part = "locks" /\ Lp!Next
       /\ UNCHANGED <<part, connectionVars, clientVars>>
    \/ /\ part = "client" /\ Pc!Next
       /\ UNCHANGED <<part, connectionVars, lockVars>>

MCSpec == MCInit /\ [][MCNext]_allVars /\ SyncFairness /\ Lp!Fairness /\ Pc!Fairness

\* LocksAreSound of LockPool.
LocksAreSound == Lp!LocksAreSound

\* KeysAreShared and UnsafeActsOnce of ProviderClient.
RequestsAreSound == Pc!RequestsAreSound

\* NewerKeyIsKept of ProviderClient.
NewerKeyIsKept == Pc!NewerKeyIsKept

\* SectionsEnd of LockPool and RequestsEnd of ProviderClient: whoever waits for a
\* lock, a pool client or an API key goes on.
WaitersGoOn == Lp!SectionsEnd /\ Pc!RequestsEnd
=============================================================================
