----------------------------- MODULE Replacement -----------------------------
(***************************************************************************)
(* Replacement links: after each successful sync run, transactions deleted  *)
(* in its window are matched with those created in it; links are confirmed  *)
(* by policy or reviewed by a user, and a confirmed one carries the         *)
(* predecessor's user state and tags over to the successor.                 *)
(*                                                                         *)
(* Each database transaction is one step: it locks the link and both        *)
(* transactions before it reads their user data, and detection holds its    *)
(* transactions FOR SHARE against the same locks.  Instants are replaced by *)
(* the runs whose window contains them.                                     *)
(***************************************************************************)
EXTENDS Integers, FiniteSets

CONSTANTS
    Old, New,     \* transactions that are deleted, and that are created
    Score,        \* each comparable pair of Old \X New: "sure" reaches the threshold
    Runs,
    Locking,      \* runs under the connection's advisory lock
    Tags,
    MaxDeletions, \* bound: deletions of a transaction
    MaxEdits,     \* bound: edits by users
    MaxDeaths,    \* bound: processes that die
    None

Stored == Old \cup New
Pair == DOMAIN Score
Predecessor(l) == l[1]
Successor(l) == l[2]

VARIABLES
    live,        \* transactions whose status is not DELETED
    deletedIn,   \* runs whose window contains deleted_at
    createdIn,   \* runs whose window contains created_at
    deletions,   \* of each transaction so far
    state,       \* transaction_user_state: who wrote it, or None
    tags,        \* transaction_tag
    link,        \* transaction_identity_link.status, or None
    transferred, \* TRANSACTION_REPLACEMENT_STATE_TRANSFERRED audit events
    pc, auto, clash, \* each run: its place, links to transfer, link to demote
    lock, edits, deaths

rowVars == <<live, deletedIn, createdIn, deletions>>
userVars == <<state, tags, edits>>
linkVars == <<link, transferred>>
runVars == <<pc, auto, clash, lock, deaths>>
vars == <<rowVars, userVars, linkVars, runVars>>

Confirmed == {"AUTO_CONFIRMED", "USER_CONFIRMED"}
LinkStatus == Confirmed \cup {"NEEDS_REVIEW", "REJECTED"}
Place == {"idle", "running", "detect", "transfer", "over", "failed", "dead"}

\* The rows, links and runs keep their types.
TypeOK ==
    /\ live \subseteq Stored
    /\ deletedIn \in [Old -> SUBSET Runs] /\ createdIn \in [New -> SUBSET Runs]
    /\ deletions \in [Old -> 0..MaxDeletions]
    /\ state \in [Stored -> Stored \cup {None}]
    /\ tags \in [Stored -> SUBSET Tags]
    /\ link \in [Pair -> LinkStatus \cup {None}]
    /\ transferred \in [Pair -> Nat]
    /\ pc \in [Runs -> Place] /\ auto \in [Runs -> SUBSET Pair]
    /\ clash \in [Runs -> Pair \cup {None}]
    /\ lock \in Locking \cup {None}
    /\ edits \in 0..MaxEdits /\ deaths \in 0..MaxDeaths

Init ==
    /\ live = Old
    /\ deletedIn = [t \in Old |-> {}] /\ createdIn = [t \in New |-> {}]
    /\ deletions = [t \in Old |-> 0]
    /\ state = [t \in Stored |-> None]
    /\ tags = [t \in Stored |-> {}]
    /\ link = [l \in Pair |-> None]
    /\ transferred = [l \in Pair |-> 0]
    /\ pc = [r \in Runs |-> "idle"]
    /\ auto = [r \in Runs |-> {}] /\ clash = [r \in Runs |-> None]
    /\ lock = None /\ edits = 0 /\ deaths = 0

-----------------------------------------------------------------------------
(* What a running run imports.  Its instants fall into the window of every  *)
(* run that is running.                                                     *)

Running == {r \in Runs : pc[r] = "running"}

Start(r) ==
    /\ pc[r] = "idle"
    /\ IF r \in Locking THEN lock = None /\ lock' = r ELSE UNCHANGED lock
    /\ pc' = [pc EXCEPT ![r] = "running"]
    /\ UNCHANGED <<rowVars, userVars, linkVars, auto, clash, deaths>>

Deletes(t) ==
    /\ Running # {} /\ t \in live /\ deletions[t] < MaxDeletions
    /\ live' = live \ {t}
    /\ deletedIn' = [deletedIn EXCEPT ![t] = Running]
    /\ deletions' = [deletions EXCEPT ![t] = deletions[t] + 1]
    /\ UNCHANGED <<createdIn, userVars, linkVars, runVars>>

\* An identity that reappears becomes live again.
Reappears(t) ==
    /\ Running # {} /\ t \in Old \ live
    /\ live' = live \cup {t}
    /\ deletedIn' = [deletedIn EXCEPT ![t] = {}]
    /\ UNCHANGED <<createdIn, deletions, userVars, linkVars, runVars>>

Creates(t) ==
    /\ Running # {} /\ t \notin live
    /\ live' = live \cup {t}
    /\ createdIn' = [createdIn EXCEPT ![t] = Running]
    /\ UNCHANGED <<deletedIn, deletions, userVars, linkVars, runVars>>

Completes(r) ==
    /\ pc[r] = "running"
    /\ pc' = [pc EXCEPT ![r] = "detect"]
    /\ UNCHANGED <<rowVars, userVars, linkVars, auto, clash, lock, deaths>>

-----------------------------------------------------------------------------
(* detectForSync(): one transaction for the links, one per transfer.        *)

Candidates(r) ==
    {l \in Pair : /\ Predecessor(l) \notin live /\ r \in deletedIn[Predecessor(l)]
                  /\ Successor(l) \in live /\ r \in createdIn[Successor(l)]}

\* Mutant: tags do not count as user data.
MutHasUserData(t) == state[t] # None

HasUserData(t) == state[t] # None \/ tags[t] # {}

Unambiguous(r, l) ==
    \A k \in Candidates(r) \ {l} :
      Predecessor(k) # Predecessor(l) /\ Successor(k) # Successor(l)

Verdict(r, l) ==
    IF /\ Score[l] = "sure" /\ Unambiguous(r, l) /\ ~HasUserData(Successor(l))
      THEN "AUTO_CONFIRMED" ELSE "NEEDS_REVIEW"

\* The upsert keeps what was decided.
Upserted(r) ==
    [l \in Pair |-> IF l \in Candidates(r) /\ link[l] \in {None, "NEEDS_REVIEW"}
                      THEN Verdict(r, l) ELSE link[l]]

\* Mutant: no such index.
MutOneActivePerPredecessor(links) == TRUE

\* transaction_identity_link_active_predecessor_uq.
OneActivePerPredecessor(links) ==
    \A k, l \in Pair : (/\ k # l /\ Predecessor(k) = Predecessor(l)
                        /\ links[k] \in Confirmed) => links[l] \notin Confirmed

Ended(r, place) ==
    /\ pc' = [pc EXCEPT ![r] = place]
    /\ lock' = IF lock = r THEN None ELSE lock

Detect(r) ==
    /\ pc[r] = "detect"
    /\ IF OneActivePerPredecessor(Upserted(r))
         THEN /\ link' = Upserted(r)
              /\ auto' = [auto EXCEPT ![r] =
                            {l \in Candidates(r) : link'[l] = "AUTO_CONFIRMED"}]
              /\ pc' = [pc EXCEPT ![r] = "transfer"]
              /\ UNCHANGED lock
         ELSE Ended(r, "failed") /\ UNCHANGED <<link, auto>>
    /\ UNCHANGED <<rowVars, userVars, transferred, clash, deaths>>

\* The successor takes the predecessor's user data, once.
Copy(l) ==
    /\ state' = [state EXCEPT ![Successor(l)] = state[Predecessor(l)]]
    /\ tags' = [tags EXCEPT ![Successor(l)] = tags[Predecessor(l)]]
    /\ transferred' = [transferred EXCEPT ![l] = transferred[l] + 1]

Done(r, l) == auto' = [auto EXCEPT ![r] = auto[r] \ {l}]

\* transferConfirmed() of an automatic link, for each of the run's in turn.
Transfer(r, l) ==
    /\ pc[r] = "transfer" /\ clash[r] = None /\ l \in auto[r]
    /\ \/ /\ transferred[l] > 0 /\ link[l] # "REJECTED"
          /\ Done(r, l)
          /\ UNCHANGED <<state, tags, linkVars, pc, lock, clash>>
       \/ /\ link[l] = "REJECTED" \/ (transferred[l] = 0 /\ link[l] # "AUTO_CONFIRMED")
          /\ Ended(r, "failed")
          /\ UNCHANGED <<state, tags, linkVars, auto, clash>>
       \/ /\ transferred[l] = 0 /\ link[l] = "AUTO_CONFIRMED"
          /\ HasUserData(Successor(l))
          /\ clash' = [clash EXCEPT ![r] = l]
          /\ UNCHANGED <<state, tags, linkVars, auto, pc, lock>>
       \/ /\ transferred[l] = 0 /\ link[l] = "AUTO_CONFIRMED"
          /\ ~HasUserData(Successor(l))
          /\ Copy(l) /\ Done(r, l)
          /\ UNCHANGED <<link, pc, lock, clash>>
    /\ UNCHANGED <<rowVars, edits, deaths>>

\* After a conflict the link goes back to review, in a statement of its own.
Demote(r) ==
    /\ clash[r] # None
    /\ link' = IF link[clash[r]] = "AUTO_CONFIRMED"
                 THEN [link EXCEPT ![clash[r]] = "NEEDS_REVIEW"] ELSE link
    /\ Done(r, clash[r])
    /\ clash' = [clash EXCEPT ![r] = None]
    /\ UNCHANGED <<rowVars, userVars, transferred, pc, lock, deaths>>

Finish(r) ==
    /\ pc[r] = "transfer" /\ auto[r] = {}
    /\ Ended(r, "over")
    /\ UNCHANGED <<rowVars, userVars, linkVars, auto, clash, deaths>>

Dies(r) ==
    /\ pc[r] \in {"running", "detect", "transfer"} /\ deaths < MaxDeaths
    /\ deaths' = deaths + 1
    /\ Ended(r, "dead")
    /\ auto' = [auto EXCEPT ![r] = {}] /\ clash' = [clash EXCEPT ![r] = None]
    /\ UNCHANGED <<rowVars, userVars, linkVars>>

-----------------------------------------------------------------------------
(* Users: reviewCandidate(), and edits of a transaction's state and tags.   *)

Confirm(l) ==
    /\ link[l] \in LinkStatus \ {"REJECTED"} /\ transferred[l] = 0
    /\ ~HasUserData(Successor(l))
    /\ OneActivePerPredecessor([link EXCEPT ![l] = "USER_CONFIRMED"])
    /\ link' = [link EXCEPT ![l] = "USER_CONFIRMED"]
    /\ Copy(l)
    /\ UNCHANGED <<rowVars, edits, runVars>>

Reject(l) ==
    /\ link[l] = "NEEDS_REVIEW"
    /\ link' = [link EXCEPT ![l] = "REJECTED"]
    /\ UNCHANGED <<rowVars, userVars, transferred, runVars>>

Edits(t) ==
    /\ t \in live \cup Old /\ edits < MaxEdits
    /\ \/ state' = [state EXCEPT ![t] = t] /\ UNCHANGED tags
       \/ \E g \in Tags : /\ tags' = [tags EXCEPT ![t] = IF g \in tags[t] THEN tags[t] \ {g}
                                                          ELSE tags[t] \cup {g}]
                          /\ state' = [state EXCEPT ![t] = t]
       \/ \E g \in Tags : \* a rule's tag, through evaluateTransaction()
            tags' = [tags EXCEPT ![t] = tags[t] \cup {g}] /\ UNCHANGED state
       \/ \E g \in tags[t] : tags' = [tags EXCEPT ![t] = tags[t] \ {g}] /\ UNCHANGED state
    /\ edits' = edits + 1
    /\ UNCHANGED <<rowVars, linkVars, runVars>>

Next ==
    \/ \E r \in Runs : Start(r) \/ Completes(r) \/ Detect(r) \/ Demote(r) \/ Finish(r) \/ Dies(r)
    \/ \E r \in Runs : \E l \in auto[r] : Transfer(r, l)
    \/ \E t \in Old : Deletes(t) \/ Reappears(t)
    \/ \E t \in New : Creates(t)
    \/ \E l \in Pair : Confirm(l) \/ Reject(l)
    \/ \E t \in Stored : Edits(t)

Spec == Init /\ [][Next]_vars

-----------------------------------------------------------------------------
(* Properties.                                                              *)

\* A transfer fills only a successor without user data, and carries over what the
\* predecessor has: no edit made between detection and transfer is overwritten.
NothingOverwritten ==
    [][\A l \in Pair : transferred'[l] # transferred[l] =>
         /\ state[Successor(l)] = None /\ tags[Successor(l)] = {}
         /\ state'[Successor(l)] = state[Predecessor(l)]
         /\ tags'[Successor(l)] = tags[Predecessor(l)]]_vars

\* User data moves over a link at most once, however often it is detected and
\* confirmed, and a predecessor's to one successor only.
TransferredOnce ==
    \A l \in Pair : /\ transferred[l] <= 1
                    /\ \A k \in Pair \ {l} :
                         (Predecessor(k) = Predecessor(l) /\ transferred[k] > 0)
                         => transferred[l] = 0

\* A link whose data was moved stays confirmed: it cannot go back to review and
\* be rejected with the data left behind.  (Runs under the connection's lock.)
TransferredStaysConfirmed ==
    Runs \subseteq Locking => \A l \in Pair : transferred[l] > 0 => link[l] \in Confirmed

\* A link confirmed by policy has had its data moved, unless its run is still at
\* it, or died or failed between the two commits.
ConfirmedIsTransferred ==
    \A l \in Pair :
      (link[l] \in Confirmed /\ transferred[l] = 0)
      => \E r \in Runs : l \in auto[r] \/ pc[r] \in {"dead", "failed"}

\* Links and transfers agree, whatever runs and reviewers do: the data of a predecessor
\* has moved once, over a link that stays confirmed.
TransfersMatchLinks ==
    TransferredOnce /\ TransferredStaysConfirmed /\ ConfirmedIsTransferred

\* The ADR's promise: a run that finished, other than by its process dying, has a
\* candidate for every comparable pair of its window.
CandidatesAreCreated ==
    [][\A r \in Runs : (pc[r] = "detect" /\ pc'[r] \notin {"detect", "dead"})
         => \A l \in Candidates(r) : link'[l] # None]_vars
=============================================================================
