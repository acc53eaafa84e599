-------------------------- MODULE MerchantResolution --------------------------
(***************************************************************************)
(* The merchants of one workspace: resolution of imported descriptions,      *)
(* canonical confirmations and alias confirmations, by sessions that run     *)
(* beside each other, and renames and merges by the management API, whose    *)
(* transactions are one step here (ClassificationCatalog has their locks).   *)
(*                                                                          *)
(* A statement of resolve() sees what is committed when it runs; a           *)
(* confirmation commits with its last statement.  Left out: the list of      *)
(* similar merchants a provisional answer carries for review, names, MCCs.   *)
(***************************************************************************)
EXTENDS Integers, FiniteSets, Sequences

CONSTANTS
    Ids, Keys, Hashes, None,
    Sessions,
    Does,       \* "resolve", "canonical" or "alias"
    Input,      \* of each session: keys, provisional, hash; key, hash; alias, match
    Fits(_, _), \* Fits(a, k): pattern alias a is a prefix of, or within, key k
    MaxEdits    \* bound: renames and merges

VARIABLES
    merchant, \* the rows: present, normalized_key, cnpj_hash
    alias,    \* merchant_alias by alias_normalized: active and confirmed
    pc,       \* the next statement of each session
    at,       \* which of its keys a resolution looks up
    found,    \* what a confirmation has read
    answer,   \* what each session returned: a merchant, None, or "failed"
    held,     \* advisory and row locks: who, what, shared or exclusive
    edits

vars == <<merchant, alias, pc, at, found, answer, held, edits>>

Present == {m \in Ids : merchant[m].present}
Absent == [present |-> FALSE, key |-> None, hash |-> None]

\* The rows, sessions and locks keep their types; keys and identities are unique.
TypeOK ==
    /\ merchant \in [Ids -> [present : BOOLEAN, key : Keys \cup {None},
                             hash : Hashes \cup {None}]]
    /\ \A m, n \in Present : m # n => /\ merchant[m].key # merchant[n].key
                                      /\ merchant[m].hash # None
                                         => merchant[m].hash # merchant[n].hash
    /\ \A k \in Keys : alias[k] # None => alias[k].merchant \in Present
    /\ pc \in [Sessions -> {"idle", "alias", "key", "hash", "pattern", "insert", "raced",
                            "identity", "read", "write", "over"}]
    /\ at \in [Sessions -> 1..3]
    /\ found \in [Sessions -> SUBSET Ids]
    /\ answer \in [Sessions -> Ids \cup {None, "failed"}]
    /\ \A h \in held : h[1] \in Sessions
    /\ edits \in 0..MaxEdits

Init ==
    /\ merchant = [m \in Ids |-> Absent]
    /\ alias = [k \in Keys |-> None]
    /\ pc = [s \in Sessions |-> "idle"]
    /\ at = [s \in Sessions |-> 1]
    /\ found = [s \in Sessions |-> {}]
    /\ answer = [s \in Sessions |-> None]
    /\ held = {}
    /\ edits = 0

Goto(s, place) == pc' = [pc EXCEPT ![s] = place]

\* commit or rollback: the answer, and every lock of the session is gone.
End(s, result) ==
    /\ Goto(s, "over")
    /\ answer' = [answer EXCEPT ![s] = result]
    /\ held' = {h \in held : h[1] # s}

MayLock(s, what, mode) ==
    \A h \in held : (h[1] # s /\ h[2] = what) => (mode = "shared" /\ h[3] = "shared")
Locks(s, whats, mode) == held' = held \cup {<<s, w, mode>> : w \in whats}

\* Mutant: the table without its unique constraints.
MutUnique(m, key, hash) == TRUE

\* The unique constraints of the table.
Unique(m, key, hash) ==
    \A n \in Present \ {m} : merchant[n].key # key /\ (hash # None => merchant[n].hash # hash)

Matching(key, hash) ==
    {m \in Present : merchant[m].key = key \/ (hash # None /\ merchant[m].hash = hash)}

-----------------------------------------------------------------------------
(* resolve().                                                               *)

Begin(s) ==
    /\ pc[s] = "idle"
    /\ Does[s] = "resolve"
    /\ Goto(s, "alias")
    /\ UNCHANGED <<merchant, alias, at, found, answer, held, edits>>

\* A lookup of the current key, or of the next one, or the next kind of lookup.
Lookup(s, place, hits, next) ==
    /\ pc[s] = place
    /\ \/ \E m \in hits : End(s, m) /\ UNCHANGED at
       \/ /\ hits = {}
          /\ IF place \in {"alias", "key"} /\ at[s] < Len(Input[s].keys)
               THEN at' = [at EXCEPT ![s] = at[s] + 1] /\ Goto(s, place)
               ELSE at' = [at EXCEPT ![s] = 1] /\ Goto(s, next)
          /\ UNCHANGED <<answer, held>>
    /\ UNCHANGED <<merchant, alias, found, edits>>

CurrentKey(s) == Input[s].keys[at[s]]

ExactAlias(s) ==
    Lookup(s, "alias",
           {m \in Present : alias[CurrentKey(s)] # None /\ alias[CurrentKey(s)].merchant = m},
           "key")

ExactKey(s) == Lookup(s, "key", {m \in Present : merchant[m].key = CurrentKey(s)}, "hash")

ProviderIdentity(s) ==
    Lookup(s, "hash",
           {m \in Present : Input[s].hash # None /\ merchant[m].hash = Input[s].hash}, "pattern")

\* A pattern alias answers when all that fit are of one merchant.
PatternMerchants(s) ==
    {alias[a].merchant : a \in {a \in Keys : /\ alias[a] # None
                                             /\ alias[a].match = "pattern"
                                             /\ \E i \in DOMAIN Input[s].keys :
                                                  Fits(a, Input[s].keys[i])}}
PatternAlias(s) ==
    Lookup(s, "pattern",
           IF Cardinality(PatternMerchants(s)) = 1 THEN PatternMerchants(s) ELSE {}, "insert")

\* insert ... on conflict do nothing, and the commit.
Insert(s) ==
    /\ pc[s] = "insert"
    /\ IF Unique(None, Input[s].provisional, Input[s].hash)
         THEN \E m \in Ids \ Present :
                /\ merchant' = [merchant EXCEPT ![m] = [present |-> TRUE,
                                                        key |-> Input[s].provisional,
                                                        hash |-> Input[s].hash]]
                /\ End(s, m)
         ELSE Goto(s, "raced") /\ UNCHANGED <<merchant, answer, held>>
    /\ UNCHANGED <<alias, at, found, edits>>

\* Mutant: an insert that does nothing is not followed by a lookup.
MutWinner(s) == {}

\* The row the insert collided with, by key before identity.
Winner(s) ==
    LET rows == Matching(Input[s].provisional, Input[s].hash)
        byKey == {m \in rows : merchant[m].key = Input[s].provisional}
    IN IF byKey # {} THEN byKey ELSE rows

Raced(s) ==
    /\ pc[s] = "raced"
    /\ \/ \E m \in Winner(s) : End(s, m)
       \/ Winner(s) = {} /\ End(s, "failed")
    /\ UNCHANGED <<merchant, alias, at, found, edits>>

-----------------------------------------------------------------------------
(* createCanonicalMerchant() and confirmAlias().                            *)

\* The advisory lock of the key or of the alias.
LockName(s) ==
    /\ pc[s] = "idle"
    /\ Does[s] # "resolve"
    /\ MayLock(s, <<Does[s], Input[s].key>>, "exclusive")
    /\ Locks(s, {<<Does[s], Input[s].key>>}, "exclusive")
    /\ Goto(s, IF Does[s] = "canonical" /\ Input[s].hash # None THEN "identity" ELSE "read")
    /\ UNCHANGED <<merchant, alias, at, found, answer, edits>>

LockIdentity(s) ==
    /\ pc[s] = "identity"
    /\ MayLock(s, <<"identity", Input[s].hash>>, "exclusive")
    /\ Locks(s, {<<"identity", Input[s].hash>>}, "exclusive")
    /\ Goto(s, "read")
    /\ UNCHANGED <<merchant, alias, at, found, answer, edits>>

\* The rows of the name or the identity, FOR UPDATE: they must be one.
ReadCanonical(s) ==
    /\ pc[s] = "read"
    /\ Does[s] = "canonical"
    /\ LET rows == Matching(Input[s].key, Input[s].hash)
       IN /\ \A m \in rows : MayLock(s, m, "exclusive")
          /\ IF Cardinality(rows) > 1
               THEN End(s, "failed") /\ UNCHANGED found
               ELSE /\ Locks(s, rows, "exclusive")
                    /\ found' = [found EXCEPT ![s] = rows]
                    /\ Goto(s, "write")
                    /\ UNCHANGED answer
    /\ UNCHANGED <<merchant, alias, at, edits>>

\* The insert or the update, which a unique constraint may refuse.
WriteCanonical(s) ==
    /\ pc[s] = "write"
    /\ Does[s] = "canonical"
    /\ \E m \in IF found[s] = {} THEN Ids \ Present ELSE found[s] :
         IF Unique(m, Input[s].key, Input[s].hash)
           THEN /\ merchant' = [merchant EXCEPT ![m] =
                                  [present |-> TRUE, key |-> Input[s].key,
                                   hash |-> IF Input[s].hash # None THEN Input[s].hash
                                            ELSE merchant[m].hash]]
                /\ End(s, m)
           ELSE End(s, "failed") /\ UNCHANGED merchant
    /\ UNCHANGED <<alias, at, found, edits>>

\* Mutant: the alias of another merchant is taken over.
MutOthers(k, m) == FALSE

\* The alias is another merchant's: MerchantAliasConflictError.
Others(k, m) == alias[k] # None /\ alias[k].merchant # m

\* The target FOR SHARE, then the alias's row.
ReadAlias(s) ==
    /\ pc[s] = "read"
    /\ Does[s] = "alias"
    /\ LET target == Input[s].target
       IN IF target \in Present /\ ~Others(Input[s].key, target)
            THEN /\ MayLock(s, target, "shared")
                 /\ Locks(s, {target}, "shared")
                 /\ Goto(s, "write")
                 /\ UNCHANGED answer
            ELSE End(s, "failed")
    /\ UNCHANGED <<merchant, alias, at, found, edits>>

WriteAlias(s) ==
    /\ pc[s] = "write"
    /\ Does[s] = "alias"
    /\ IF Others(Input[s].key, Input[s].target)
         THEN End(s, "failed") /\ UNCHANGED alias
         ELSE /\ alias' = [alias EXCEPT ![Input[s].key] =
                             [merchant |-> Input[s].target, match |-> Input[s].match]]
              /\ End(s, Input[s].target)
    /\ UNCHANGED <<merchant, at, found, edits>>

\* A statement fails or the process dies: nothing is committed.
Abort(s) ==
    /\ pc[s] \notin {"idle", "over"}
    /\ edits < MaxEdits /\ edits' = edits + 1
    /\ End(s, "failed")
    /\ UNCHANGED <<merchant, alias, at, found>>

-----------------------------------------------------------------------------
(* The management API.                                                      *)

Rename(m, k) ==
    /\ edits < MaxEdits /\ edits' = edits + 1
    /\ m \in Present
    /\ MayLock(None, m, "exclusive")
    /\ Unique(m, k, None)
    /\ merchant' = [merchant EXCEPT ![m].key = k]
    /\ UNCHANGED <<alias, pc, at, found, answer, held>>

\* mergeMerchants(): the source's key becomes an alias of the target, its aliases follow.
Merge(m, into) ==
    /\ edits < MaxEdits /\ edits' = edits + 1
    /\ {m, into} \subseteq Present /\ m # into
    /\ MayLock(None, m, "exclusive") /\ MayLock(None, into, "exclusive")
    /\ LET k == merchant[m].key
       IN /\ alias[k] # None => alias[k].merchant \in {m, into}
          /\ alias' = [a \in Keys |->
                         IF a = k THEN [merchant |-> into,
                                          match |-> IF alias[k] # None THEN alias[k].match
                                                    ELSE "exact"]
                         ELSE IF alias[a] # None /\ alias[a].merchant = m
                                THEN [alias[a] EXCEPT !.merchant = into]
                                ELSE alias[a]]
    /\ merchant' = [merchant EXCEPT ![m] = Absent]
    /\ UNCHANGED <<pc, at, found, answer, held>>

Next ==
    \/ \E s \in Sessions : \/ Begin(s) \/ ExactAlias(s) \/ ExactKey(s)
                           \/ ProviderIdentity(s) \/ PatternAlias(s) \/ Insert(s) \/ Raced(s)
                           \/ LockName(s) \/ LockIdentity(s) \/ ReadCanonical(s)
                           \/ WriteCanonical(s) \/ ReadAlias(s) \/ WriteAlias(s) \/ Abort(s)
    \/ \E m \in Ids : \/ \E k \in Keys : Rename(m, k)
                      \/ \E n \in Ids : Merge(m, n)

Spec == Init /\ [][Next]_vars

-----------------------------------------------------------------------------
(* Properties.                                                              *)

Untouched == edits = 0 /\ \A s \in Sessions : Does[s] # "resolve" => pc[s] = "idle"

\* A merchant has what the input of s looks for: a key, or the provider's identity.
Bears(m, s) ==
    \/ merchant[m].key = Input[s].provisional
    \/ \E i \in DOMAIN Input[s].keys : merchant[m].key = Input[s].keys[i]
    \/ Input[s].hash # None /\ merchant[m].hash = Input[s].hash

\* The provisional merchant of w's input, which w has answered with.
Provisional(w, m) ==
    /\ pc[w] = "over" /\ answer[w] = m
    /\ merchant[m].key = Input[w].provisional /\ merchant[m].hash = Input[w].hash

\* Until somebody edits the merchants, no resolution fails, whatever it races with,
\* and each finds what it looked for.  Resolutions of one input give one merchant
\* (provisional creation is idempotent: README.md, PF-051), but where the resolution
\* of another input, of which they share a key or an identity, has left them its
\* own provisional merchant to find.
ResolutionsAgree ==
    Untouched
    => \A s \in Sessions :
         pc[s] = "over" =>
           /\ answer[s] \in Present /\ Bears(answer[s], s)
           /\ \A u \in Sessions :
                pc[u] = "over" /\ Input[u] = Input[s] /\ answer[u] # answer[s]
                => \E w \in Sessions, m \in {answer[s], answer[u]} :
                     Input[w] # Input[s] /\ Provisional(w, m)

\* A confirmed alias leaves its merchant only when that merchant is merged away,
\* however two confirmations of it are interleaved.
AliasesStay ==
    [][\A k \in Keys :
         alias[k] # None => \/ alias'[k].merchant = alias[k].merchant
                            \/ ~merchant'[alias[k].merchant].present]_vars
=============================================================================
