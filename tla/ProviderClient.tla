---------------------------- MODULE ProviderClient ----------------------------
(***************************************************************************)
(* The client of the provider's API: the API key shared by all requests     *)
(* (api-key-provider.ts) and a request's attempts (the loop of request() in *)
(* authenticated-http-client.ts).  The provider itself is external.         *)
(*                                                                         *)
(* Code between two awaits is one step.  A key is "fresh" until the refresh *)
(* skew before its expiry, then "aging", then "dead"; the provider may also *)
(* revoke it early.  An attempt may be answered, or time out or break off,  *)
(* after the provider acted on it or not.                                   *)
(***************************************************************************)
EXTENDS Integers, FiniteSets

CONSTANTS
    Requests,
    Safe,        \* requests whose method is GET, HEAD or OPTIONS
    MaxRetries,
    None,
    MaxKeys,     \* bound: keys the provider issues
    MaxRevoked   \* bound: keys it revokes early

Keys == 1..MaxKeys
Age == {"unissued", "fresh", "aging", "dead"}
Place == {"idle", "key", "await", "send", "sent", "sleep", "succeeded", "failed"}
Status == {"ok", "unauthorized", "retryable", "rejected"}

VARIABLES
    age,      \* of each key, by the client's clock
    revoked,  \* keys the provider no longer takes although they are not dead
    cached,   \* #cached
    refreshes, \* requests to /auth in flight, for #refreshPromise
    pc,
    key,      \* each request's local apiKey
    refused,  \* keys a request was answered 401 for
    renewed,  \* authenticationRetried
    retries,  \* retryCount
    attempts,
    effects   \* times the provider acted on each request

keyVars == <<age, revoked, cached, refreshes>>
localVars == <<key, refused, renewed, retries, attempts>>
vars == <<keyVars, pc, localVars, effects>>

\* Keys, places and counters keep their types, and a request its attempts in bound.
TypeOK ==
    /\ age \in [Keys -> Age]
    /\ revoked \subseteq Keys
    /\ cached \in Keys \cup {None}
    /\ refreshes \in 0..Cardinality(Requests)
    /\ pc \in [Requests -> Place]
    /\ key \in [Requests -> Keys \cup {None}]
    /\ refused \in [Requests -> SUBSET Keys]
    /\ renewed \in [Requests -> BOOLEAN]
    /\ retries \in [Requests -> 0..MaxRetries]
    /\ attempts \in [Requests -> 0..MaxRetries + 2]
    /\ effects \in [Requests -> 0..MaxRetries + 2]

Init ==
    /\ age = [k \in Keys |-> "unissued"]
    /\ revoked = {}
    /\ cached = None
    /\ refreshes = 0
    /\ pc = [r \in Requests |-> "idle"]
    /\ key = [r \in Requests |-> None]
    /\ refused = [r \in Requests |-> {}]
    /\ renewed = [r \in Requests |-> FALSE]
    /\ retries = [r \in Requests |-> 0]
    /\ attempts = [r \in Requests |-> 0]
    /\ effects = [r \in Requests |-> 0]

Goto(r, place) == pc' = [pc EXCEPT ![r] = place]

-----------------------------------------------------------------------------
(* Time and the provider.                                                   *)

Ages(k) ==
    /\ age[k] \in {"fresh", "aging"}
    /\ age' = [age EXCEPT ![k] = IF age[k] = "fresh" THEN "aging" ELSE "dead"]
    /\ UNCHANGED <<revoked, cached, refreshes, pc, localVars, effects>>

Revoke(k) ==
    /\ age[k] \in {"fresh", "aging"} /\ k \notin revoked
    /\ Cardinality(revoked) < MaxRevoked
    /\ revoked' = revoked \cup {k}
    /\ UNCHANGED <<age, cached, refreshes, pc, localVars, effects>>

Accepted(k) == age[k] \in {"fresh", "aging"} /\ k \notin revoked

-----------------------------------------------------------------------------
(* The key.                                                                 *)

Begin(r) ==
    /\ pc[r] = "idle"
    /\ Goto(r, "key")
    /\ UNCHANGED <<keyVars, localVars, effects>>

Refreshing == refreshes > 0

\* getApiKey(): the cached key while it is fresh, else the refresh in flight, else
\* a refresh of its own.
GetApiKey(r) ==
    /\ pc[r] = "key"
    /\ \/ /\ cached # None /\ age[cached] = "fresh"
          /\ key' = [key EXCEPT ![r] = cached]
          /\ Goto(r, "send")
          /\ UNCHANGED refreshes
       \/ /\ cached # None => age[cached] # "fresh"
          /\ refreshes' = IF Refreshing THEN refreshes ELSE refreshes + 1
          /\ Goto(r, "await")
          /\ UNCHANGED key
    /\ UNCHANGED <<age, revoked, cached, refused, renewed, retries, attempts, effects>>

\* Mutant: a refresh that fails settles nobody's promise.
MutSettled(r, ok) == pc[r] = "await" /\ ok

\* The end of #refreshPromise reaches all who await it.
Settled(r, ok) == pc[r] = "await"

\* #refresh() ends, with a new key or an error, for all who await it.
Refreshed ==
    /\ Refreshing
    /\ \/ \E k \in Keys :
            /\ age[k] = "unissued"
            /\ \A older \in 1..k - 1 : age[older] # "unissued"
            /\ age' = [age EXCEPT ![k] = "fresh"]
            /\ cached' = k
            /\ key' = [r \in Requests |-> IF Settled(r, TRUE) THEN k ELSE key[r]]
            /\ pc' = [r \in Requests |-> IF Settled(r, TRUE) THEN "send" ELSE pc[r]]
       \/ /\ pc' = [r \in Requests |-> IF Settled(r, FALSE) THEN "failed" ELSE pc[r]]
          /\ UNCHANGED <<age, cached, key>>
    /\ refreshes' = refreshes - 1
    /\ UNCHANGED <<revoked, refused, renewed, retries, attempts, effects>>

\* Mutant: invalidate() drops whatever key is cached.
MutInvalidated(k) == None

\* invalidate().
Invalidated(k) == IF cached = k THEN None ELSE cached

-----------------------------------------------------------------------------
(* Attempts.                                                                *)

Send(r) ==
    /\ pc[r] = "send"
    /\ attempts' = [attempts EXCEPT ![r] = attempts[r] + 1]
    /\ Goto(r, "sent")
    /\ UNCHANGED <<keyVars, key, refused, renewed, retries, effects>>

\* Mutant: every method is retried.
MutMayRetry(r) == retries[r] < MaxRetries

MayRetry(r) == r \in Safe /\ retries[r] < MaxRetries

\* The answer to an attempt, and what the loop of request() makes of it.
Answer(r, status) ==
    /\ pc[r] = "sent"
    /\ status = "unauthorized" <=> ~Accepted(key[r])
    /\ \/ status = "retryable" /\ UNCHANGED effects
       \/ /\ status \in {"ok", "retryable"}
          /\ effects' = [effects EXCEPT ![r] = effects[r] + 1]
       \/ status \in {"unauthorized", "rejected"} /\ UNCHANGED effects
    /\ \/ /\ status = "unauthorized" /\ ~renewed[r]
          /\ cached' = Invalidated(key[r])
          /\ renewed' = [renewed EXCEPT ![r] = TRUE]
          /\ refused' = [refused EXCEPT ![r] = refused[r] \cup {key[r]}]
          /\ Goto(r, "key")
          /\ UNCHANGED retries
       \/ /\ status = "retryable" /\ MayRetry(r)
          /\ retries' = [retries EXCEPT ![r] = retries[r] + 1]
          /\ Goto(r, "sleep")
          /\ UNCHANGED <<cached, renewed, refused>>
       \/ /\ status = "ok"
          /\ Goto(r, "succeeded")
          /\ UNCHANGED <<cached, renewed, refused, retries>>
       \/ /\ \/ status = "unauthorized" /\ renewed[r]
             \/ status = "retryable" /\ ~MayRetry(r)
             \/ status = "rejected"
          /\ Goto(r, "failed")
          /\ refused' = IF status = "unauthorized"
                          THEN [refused EXCEPT ![r] = refused[r] \cup {key[r]}] ELSE refused
          /\ UNCHANGED <<cached, renewed, retries>>
    /\ UNCHANGED <<age, revoked, refreshes, key, attempts>>

\* The timeout, the caller's signal or the network ends an attempt without an
\* answer: nothing is retried.
BreakOff(r) ==
    /\ pc[r] = "sent"
    /\ \/ UNCHANGED effects
       \/ Accepted(key[r]) /\ effects' = [effects EXCEPT ![r] = effects[r] + 1]
    /\ Goto(r, "failed")
    /\ UNCHANGED <<keyVars, localVars>>

WakeUp(r) ==
    /\ pc[r] = "sleep"
    /\ Goto(r, "send")
    /\ UNCHANGED <<keyVars, localVars, effects>>

Next ==
    \/ \E k \in Keys : Ages(k) \/ Revoke(k)
    \/ Refreshed
    \/ \E r \in Requests : \/ Begin(r) \/ GetApiKey(r) \/ Send(r) \/ BreakOff(r) \/ WakeUp(r)
                           \/ \E status \in Status : Answer(r, status)

\* The event loop runs what is ready, timers fire, and fetch() settles.
Fairness ==
    /\ WF_vars(Refreshed)
    /\ \A r \in Requests :
         WF_vars(GetApiKey(r) \/ Send(r) \/ BreakOff(r) \/ WakeUp(r))

Spec == Init /\ [][Next]_vars /\ Fairness

-----------------------------------------------------------------------------
(* Properties.                                                              *)

\* One refresh is in flight at most, and someone awaits it: requests that find the
\* key missing, aging or refused share it.
OneRefresh ==
    /\ refreshes <= 1
    /\ Refreshing <=> \E r \in Requests : pc[r] = "await"

\* After a 401 a request never sends the refused key again, however the requests'
\* invalidations and refreshes interleave.
RefusedKeyIsGone ==
    \A r \in Requests :
      pc[r] \in {"send", "sent", "sleep"} => key[r] \notin refused[r]

\* Requests share one refresh, and none of them sends a key it was refused.
KeysAreShared == OneRefresh /\ RefusedKeyIsGone

\* A key leaves the cache only for a newer one, or if a request was refused with
\* it: a late 401 for an older key does not drop the key that replaced it.
NewerKeyIsKept ==
    [][cached # None /\ cached' # cached =>
         \/ cached' # None /\ cached' > cached
         \/ cached' = None /\ \E r \in Requests : cached \in refused'[r]]_vars

\* The provider acts at most once on a request whose method is not safe to repeat,
\* whatever answers are lost.
UnsafeActsOnce == \A r \in Requests \ Safe : effects[r] <= 1

\* Requests share their key, and none that is unsafe to repeat is acted on twice.
RequestsAreSound == KeysAreShared /\ UnsafeActsOnce

\* Every request ends: it awaits no refresh, and sleeps before no attempt, for ever.
RequestsEnd ==
    \A r \in Requests : pc[r] = "key" ~> pc[r] \in {"succeeded", "failed"}
=============================================================================
