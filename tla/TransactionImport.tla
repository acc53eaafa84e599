-------------------------- MODULE TransactionImport --------------------------
(***************************************************************************)
(* The transactions of one open connection: sync runs, the pages and the    *)
(* deletions they store, and the provider they read, which is external.     *)
(*                                                                         *)
(* A run is one execution of importTransactions() (kind "full"), or of      *)
(* processTransactionEvent() for transactions/created and updated ("page")  *)
(* or transactions/deleted ("deleted").  A step is one database transaction *)
(* or one provider request; a page takes two, because its reads precede its *)
(* writes.  A request or statement may fail, a commit may lose its answer,  *)
(* and the process may die, at most MaxFaults times in all.                 *)
(*                                                                         *)
(* A transaction's facts are its fingerprint, and its raw snapshots follow  *)
(* them.  The provider's mapper yields PENDING, POSTED or UNKNOWN, one live *)
(* status here.  Left out: encryption; history dates and coverage are in    *)
(* AccountHistory, bill links in CardBills, the system role in              *)
(* RoleDetection, what detectForSync() does in Replacement.                 *)
(***************************************************************************)
EXTENDS Integers, FiniteSets, Functions

CONSTANTS
    Accounts, Transactions,
    AccountOf,   \* the account of each transaction
    PageOf,      \* the page, counted from 0, the provider lists it on
    LastPage,    \* the last of them
    Prints,      \* fingerprints
    Runs, KindOf,
    Locking,     \* runs made under the connection's advisory lock
    None,
    MaxPages,    \* maxPagesPerAccount
    MaxChanges,  \* bound: changes at the provider
    MaxFaults    \* bound: failures, lost answers and deaths

Kinds == {"full", "page", "deleted"}
Cursor == 0..(LastPage + 1)
Unlisted == {"unborn", "gone"}
Row == [status : {"ABSENT", "LIVE", "DELETED"}, print : Prints \cup {None},
        review : {"NONE", "POSSIBLE"}, inserter : Runs \cup {None},
        writer : Runs \cup {None}]
Place == {"idle", "fetch", "store", "write", "account", "delete", "complete",
          "fail", "detect", "over"}

\* The provider lists each transaction on one page of its account.
ProviderAssumption ==
    /\ IsFiniteSet(Transactions)
    /\ AccountOf \in [Transactions -> Accounts]
    /\ LastPage \in Nat
    /\ PageOf \in [Transactions -> 0..LastPage]

ASSUME ProviderAssumption

\* Only a full import may be made outside the lock: processTransactionEvent() is
\* called by a handler that holds it.
RunsAssumption ==
    /\ KindOf \in [Runs -> Kinds]
    /\ Locking \subseteq Runs
    /\ \A r \in Runs : KindOf[r] # "full" => r \in Locking

ASSUME RunsAssumption

BoundsAssumption == MaxPages \in Nat /\ MaxChanges \in Nat /\ MaxFaults \in Nat

ASSUME BoundsAssumption

\* None is none of the things it stands in for, and a print is no mark of an
\* unlisted transaction.
DistinctAssumption ==
    /\ None \notin Prints /\ None \notin Runs /\ None \notin Accounts
    /\ None \notin Nat
    /\ Prints \cap Unlisted = {}

ASSUME DistinctAssumption

VARIABLES
    provided,   \* each transaction at the provider: its print, or Unlisted
    owed,       \* transactions whose deletion event is not yet applied
    rows,       \* financial_transaction, with the runs that inserted and last wrote it
    deletions,  \* DELETE revisions: the row, and the run that wrote them
    moved,      \* rows an update gave another fingerprint
    run,        \* sync_run.status and its counters
    pc, ids, todo, account, cursor, requested, page, \* each run's locals
    expected,   \* what a full run must find: listed since it started
    seen,       \* rows as a run's page read them
    lock, rowLock, \* the connection's lock; each account's FOR UPDATE
    changes, faults

providerVars == <<provided, owed, changes>>
tableVars == <<rows, deletions, moved, run>>
localVars == <<ids, todo, account, cursor, requested, page, seen>>
lockVars == <<lock, rowLock>>
vars == <<providerVars, tableVars, pc, localVars, expected, lockVars, faults>>

Counters == [inserted : 0..Cardinality(Transactions), updated : Nat,
             deleted : 0..Cardinality(Transactions), seen : Nat]
RunStatus == {"ABSENT", "RUNNING", "SUCCEEDED", "FAILED"}

\* The rows, runs and locals keep their types.
TypeOK ==
    /\ provided \in [Transactions -> Prints \cup Unlisted]
    /\ owed \subseteq Transactions
    /\ rows \in [Transactions -> Row]
    /\ deletions \subseteq Transactions \X Runs
    /\ moved \subseteq Transactions
    /\ run \in [Runs -> [status : RunStatus, count : Counters]]
    /\ pc \in [Runs -> Place]
    /\ ids \in [Runs -> SUBSET Transactions]
    /\ todo \in [Runs -> SUBSET Accounts]
    /\ account \in [Runs -> Accounts \cup {None}]
    /\ cursor \in [Runs -> Cursor \cup {None}]
    /\ requested \in [Runs -> SUBSET Cursor]
    /\ lock \in Locking \cup {None}
    /\ rowLock \in [Accounts -> Runs \cup {None}]

Zero == [inserted |-> 0, updated |-> 0, deleted |-> 0, seen |-> 0]

Init ==
    /\ provided \in [Transactions -> Prints \cup {"unborn"}]
    /\ owed = {}
    /\ rows = [t \in Transactions |->
                 [status |-> "ABSENT", print |-> None, review |-> "NONE",
                  inserter |-> None, writer |-> None]]
    /\ deletions = {}
    /\ moved = {}
    /\ run = [r \in Runs |-> [status |-> "ABSENT", count |-> Zero]]
    /\ pc = [r \in Runs |-> "idle"]
    /\ ids = [r \in Runs |-> {}]
    /\ todo = [r \in Runs |-> {}]
    /\ account = [r \in Runs |-> None]
    /\ cursor = [r \in Runs |-> None]
    /\ requested = [r \in Runs |-> {}]
    /\ page = [r \in Runs |-> None]
    /\ expected = [r \in Runs |-> {}]
    /\ seen = [r \in Runs |-> None]
    /\ lock = None
    /\ rowLock = [a \in Accounts |-> None]
    /\ changes = 0
    /\ faults = 0

-----------------------------------------------------------------------------
(* The provider: transactions appear, change, vanish (which it notifies)    *)
(* and may reappear under their identity.                                   *)

Listed(t) == provided[t] \in Prints

ProviderLists(t) ==
    /\ changes < MaxChanges
    /\ \E p \in Prints \ {provided[t]} : provided' = [provided EXCEPT ![t] = p]
    /\ changes' = changes + 1
    /\ UNCHANGED <<owed, tableVars, pc, localVars, expected, lockVars, faults>>

ProviderRemoves(t) ==
    /\ changes < MaxChanges
    /\ Listed(t)
    /\ provided' = [provided EXCEPT ![t] = "gone"]
    /\ owed' = owed \cup {t}
    /\ expected' = [r \in Runs |-> expected[r] \ {t}]
    /\ changes' = changes + 1
    /\ UNCHANGED <<tableVars, pc, localVars, lockVars, faults>>

-----------------------------------------------------------------------------
(* A run's life.                                                            *)

Goto(r, place) == pc' = [pc EXCEPT ![r] = place]

\* What a run knows dies with it.
Forgets(r) ==
    /\ ids' = [ids EXCEPT ![r] = {}] /\ todo' = [todo EXCEPT ![r] = {}]
    /\ account' = [account EXCEPT ![r] = None] /\ cursor' = [cursor EXCEPT ![r] = None]
    /\ requested' = [requested EXCEPT ![r] = {}] /\ page' = [page EXCEPT ![r] = None]
    /\ seen' = [seen EXCEPT ![r] = None]

Released(r) == lock' = IF lock = r THEN None ELSE lock

\* Mutant: processTransactionEvent() and the import outside the lock.
MutTakesLock(r) == FALSE

TakesLock(r) == r \in Locking

\* startSync(), startWebhookSync(): the lock first, for a run that takes it.
Start(r) ==
    /\ pc[r] = "idle"
    /\ IF TakesLock(r) THEN lock = None /\ lock' = r ELSE UNCHANGED lock
    /\ run' = [run EXCEPT ![r] = [status |-> "RUNNING", count |-> Zero]]
    /\ \/ /\ KindOf[r] = "full"
          /\ todo' = [todo EXCEPT ![r] = Accounts]
          /\ expected' = [expected EXCEPT ![r] = {t \in Transactions : Listed(t)}]
          /\ UNCHANGED ids
       \/ /\ KindOf[r] # "full"
          /\ \E a \in Accounts : /\ KindOf[r] = "deleted" => \E t \in owed : AccountOf[t] = a
                                 /\ todo' = [todo EXCEPT ![r] = {a}]
          /\ ids' = [ids EXCEPT ![r] = {t \in owed : /\ KindOf[r] = "deleted"
                                                     /\ AccountOf[t] \in todo'[r]}]
          /\ UNCHANGED expected
    /\ Goto(r, "fetch")
    /\ UNCHANGED <<providerVars, rows, deletions, moved, account, cursor, requested,
                   page, seen, rowLock, faults>>

\* The first cursor of an account: none, or the one a created or updated event names.
FirstCursor(r) == IF KindOf[r] = "page" THEN Cursor ELSE {None}

PageAt(c) == IF c = None THEN 0 ELSE c

\* What the provider may name as the next page: the one that follows, after the last
\* one none or an empty page, or, wrongly, one it has named before.
NextCursor(c, named) ==
    (IF PageAt(c) < LastPage THEN {} ELSE {None}) \cup (({PageAt(c) + 1} \cup named) \cap Cursor)

PageNumber(r) ==
    Cardinality(requested[r]) + (IF KindOf[r] = "page" \/ cursor[r] = None THEN 1 ELSE 2)

\* No account is left to read.
Finished(r) ==
    /\ account[r] = None /\ todo[r] = {}
    /\ Goto(r, "complete")
    /\ UNCHANGED <<localVars, faults>>

\* The next account, from its first cursor.
NextAccount(r) ==
    /\ account[r] = None
    /\ \E a \in todo[r], c \in FirstCursor(r) :
         /\ account' = [account EXCEPT ![r] = a]
         /\ todo' = [todo EXCEPT ![r] = todo[r] \ {a}]
         /\ cursor' = [cursor EXCEPT ![r] = c]
    /\ requested' = [requested EXCEPT ![r] = {}]
    /\ UNCHANGED <<pc, ids, page, seen, faults>>

\* A page more than the limit, or a cursor that was requested before.
TooFar(r) == PageNumber(r) > MaxPages \/ cursor[r] \in requested[r]

GivesUp(r) ==
    /\ account[r] # None /\ TooFar(r)
    /\ Goto(r, "fail")
    /\ UNCHANGED <<localVars, faults>>

\* What the provider lists on the page a run asks for.
Listing(r) == [t \in {t \in Transactions : /\ Listed(t) /\ AccountOf[t] = account[r]
                                          /\ PageOf[t] = PageAt(cursor[r])}
               |-> provided[t]]

\* The request and its answer; a page whose next cursor was requested before fails.
Request(r) ==
    /\ account[r] # None /\ ~TooFar(r)
    /\ requested' = [requested EXCEPT ![r] = requested[r] \cup ({cursor[r]} \ {None})]
    /\ \E next \in NextCursor(cursor[r], requested'[r]) :
         /\ page' = [page EXCEPT ![r] = [next |-> next, items |-> Listing(r)]]
         /\ Goto(r, IF next # None /\ next \in requested'[r] THEN "fail" ELSE "store")
    /\ UNCHANGED <<ids, todo, account, cursor, seen, faults>>

\* One round of the paging loop.
Fetch(r) ==
    /\ pc[r] = "fetch"
    /\ Finished(r) \/ NextAccount(r) \/ GivesUp(r) \/ Request(r)
    /\ UNCHANGED <<providerVars, tableVars, expected, lockVars>>

\* Mutant: the account is read without FOR UPDATE.
MutAccountFree(a) == TRUE

AccountFree(a) == rowLock[a] = None

\* importPage() up to its reads: the run and the account are locked first.
Read(r) ==
    /\ pc[r] = "store"
    /\ IF run[r].status = "RUNNING"
         THEN /\ AccountFree(account[r])
              /\ rowLock' = [rowLock EXCEPT ![account[r]] = r]
              /\ seen' = [seen EXCEPT ![r] = rows]
              /\ Goto(r, "write")
         ELSE Goto(r, "fail") /\ UNCHANGED <<rowLock, seen>>
    /\ UNCHANGED <<providerVars, tableVars, ids, todo, account, cursor, requested, page,
                   expected, lock, faults>>

\* What a page does to the table: existing rows take its facts, and become live
\* again; new rows, and the rows they collide with, are marked for review.
New(r) == {t \in DOMAIN page[r].items : seen[r][t].status = "ABSENT"}

Changed(r) == {t \in DOMAIN page[r].items \ New(r) :
                 \/ seen[r][t].print # page[r].items[t]
                 \/ seen[r][t].status = "DELETED"}

\* Rows the insert of u finds with its print.  The items come in the provider's
\* order: an item before u shows what the page makes of it.
Collisions(r, order, u) ==
    LET items == page[r].items
    IN {t \in Transactions \ {u} :
          /\ AccountOf[t] = account[r]
          /\ IF t \in DOMAIN items /\ order[t] < order[u]
               THEN items[t] = items[u]
               ELSE seen[r][t].status # "ABSENT" /\ seen[r][t].print = items[u]}

\* The table after the page.
Stored(r, order) ==
    LET found == [u \in New(r) |-> Collisions(r, order, u)]
        Marked(t) == \E u \in New(r) : t \in found[u] \/ (t = u /\ found[u] # {})
        Review(t) == IF Marked(t) THEN "POSSIBLE" ELSE rows[t].review
    IN [t \in Transactions |->
          IF t \in DOMAIN page[r].items
            THEN [status |-> "LIVE", print |-> page[r].items[t], review |-> Review(t),
                  inserter |-> IF t \in New(r) THEN r ELSE rows[t].inserter,
                  writer |-> r]
            ELSE [rows[t] EXCEPT !.review = Review(t)]]

Counted(r, inserted, updated, deleted, number) ==
    run' = [run EXCEPT ![r] = [status |-> run[r].status,
              count |-> [inserted |-> run[r].count.inserted + inserted,
                         updated |-> run[r].count.updated + updated,
                         deleted |-> run[r].count.deleted + deleted,
                         seen |-> run[r].count.seen + number]]]

\* Mutant: an account ends with its first page.
MutContinue(r) ==
    CASE KindOf[r] = "full" -> "account"
      [] KindOf[r] = "deleted" -> "delete"
      [] OTHER -> "complete"

\* After a page: the next one, or what the kind of run does then.
Continue(r) ==
    IF page[r].next # None THEN "fetch"
    ELSE CASE KindOf[r] = "full" -> "account"
           [] KindOf[r] = "deleted" -> "delete"
           [] OTHER -> "complete"

\* importPage() writes and commits; its answer may be lost.
Write(r) ==
    /\ pc[r] = "write"
    /\ \E order \in Injection(DOMAIN page[r].items, 1..Cardinality(DOMAIN page[r].items)) :
         rows' = Stored(r, order)
    /\ moved' = moved \cup {t \in Changed(r) : seen[r][t].print # page[r].items[t]}
    /\ Counted(r, Cardinality(New(r)), Cardinality(Changed(r)), 0,
               Cardinality(DOMAIN page[r].items))
    /\ rowLock' = [rowLock EXCEPT ![account[r]] = None]
    /\ seen' = [seen EXCEPT ![r] = None]
    /\ \/ /\ Goto(r, Continue(r)) /\ UNCHANGED faults
       \/ /\ faults < MaxFaults /\ faults' = faults + 1 /\ Goto(r, "fail")
    /\ cursor' = [cursor EXCEPT ![r] = page[r].next]
    /\ page' = [page EXCEPT ![r] = None]
    /\ UNCHANGED <<providerVars, deletions, ids, todo, account, requested, expected, lock>>

\* completeAccount().
CompleteAccount(r) ==
    /\ pc[r] = "account"
    /\ account' = [account EXCEPT ![r] = None]
    /\ Goto(r, IF run[r].status = "RUNNING" THEN "fetch" ELSE "fail")
    /\ UNCHANGED <<providerVars, tableVars, ids, todo, cursor, requested, page, seen,
                   expected, lockVars, faults>>

\* deleteWebhookTransactions() with the identities of the event.
Delete(r) ==
    /\ pc[r] = "delete"
    /\ AccountFree(account[r])
    /\ LET gone == {t \in ids[r] : rows[t].status = "LIVE"}
       IN /\ rows' = [t \in Transactions |->
                        IF t \in gone THEN [rows[t] EXCEPT !.status = "DELETED", !.writer = r]
                        ELSE rows[t]]
          /\ deletions' = deletions \cup (gone \X {r})
          /\ Counted(r, 0, 0, Cardinality(gone), Cardinality(ids[r]))
          /\ owed' = owed \ ids[r]
    /\ \/ /\ Goto(r, "complete") /\ UNCHANGED faults
       \/ /\ faults < MaxFaults /\ faults' = faults + 1 /\ Goto(r, "fail")
    /\ UNCHANGED <<provided, changes, moved, localVars, expected, lockVars>>

\* completeSync(); its answer may be lost.
CompleteSync(r) ==
    /\ pc[r] = "complete"
    /\ IF run[r].status = "RUNNING"
         THEN /\ run' = [run EXCEPT ![r].status = "SUCCEEDED"]
              /\ \/ Goto(r, "detect") /\ UNCHANGED faults
                 \/ faults < MaxFaults /\ faults' = faults + 1 /\ Goto(r, "fail")
         ELSE Goto(r, "fail") /\ UNCHANGED <<run, faults>>
    /\ UNCHANGED <<providerVars, rows, deletions, moved, localVars, expected, lockVars>>

\* failSync(): it changes only a running run, and throws otherwise.
FailSync(r) ==
    /\ pc[r] = "fail"
    /\ run' = IF run[r].status = "RUNNING" THEN [run EXCEPT ![r].status = "FAILED"] ELSE run
    /\ Goto(r, "over")
    /\ Released(r) /\ Forgets(r)
    /\ UNCHANGED <<providerVars, rows, deletions, moved, expected, rowLock, faults>>

\* detectForSync() ends the run, whatever it finds.
Detect(r) ==
    /\ pc[r] = "detect"
    /\ Goto(r, "over")
    /\ Released(r) /\ Forgets(r)
    /\ UNCHANGED <<providerVars, tableVars, expected, rowLock, faults>>

\* A request, or a statement before its commit, fails: its transaction is rolled back.
Fails(r) ==
    /\ pc[r] \in {"fetch", "store", "write", "account", "delete", "complete"}
    /\ faults < MaxFaults /\ faults' = faults + 1
    /\ rowLock' = [a \in Accounts |-> IF rowLock[a] = r THEN None ELSE rowLock[a]]
    /\ Goto(r, "fail")
    /\ UNCHANGED <<providerVars, tableVars, localVars, expected, lock>>

\* The process dies: locks and open transactions go with its sessions.
Dies(r) ==
    /\ pc[r] \notin {"idle", "over"}
    /\ faults < MaxFaults /\ faults' = faults + 1
    /\ rowLock' = [a \in Accounts |-> IF rowLock[a] = r THEN None ELSE rowLock[a]]
    /\ Goto(r, "over")
    /\ Released(r) /\ Forgets(r)
    /\ UNCHANGED <<providerVars, tableVars, expected>>

Next ==
    \/ \E t \in Transactions : ProviderLists(t) \/ ProviderRemoves(t)
    \/ \E r \in Runs : \/ Start(r) \/ Fetch(r) \/ Read(r) \/ Write(r)
                       \/ CompleteAccount(r) \/ Delete(r) \/ CompleteSync(r)
                       \/ FailSync(r) \/ Detect(r) \/ Fails(r) \/ Dies(r)

Spec == Init /\ [][Next]_vars

-----------------------------------------------------------------------------
(* Properties.                                                              *)

\* The counters of the runs account for the table: every row was inserted by one
\* run, and each run counts the rows it inserted and the DELETE revisions it wrote.
CountersAddUp ==
    /\ \A t \in Transactions : rows[t].status = "ABSENT" <=> rows[t].inserter = None
    /\ \A r \in Runs :
         /\ run[r].count.inserted = Cardinality({t \in Transactions : rows[t].inserter = r})
         /\ run[r].count.deleted = Cardinality({t \in Transactions : <<t, r>> \in deletions})

\* Two rows of an account that were inserted with one fingerprint are both up for
\* review, however the pages that inserted them were interleaved.
DuplicatesMarked ==
    \A t, u \in Transactions \ moved :
      (/\ t # u /\ AccountOf[t] = AccountOf[u]
       /\ rows[t].status # "ABSENT" /\ rows[u].status # "ABSENT"
       /\ rows[t].print = rows[u].print)
      => rows[t].review = "POSSIBLE" /\ rows[u].review = "POSSIBLE"

\* A full run that succeeded has stored every transaction the provider listed from
\* its start to its end.
SucceededIsComplete ==
    \A r \in Runs :
      (KindOf[r] = "full" /\ run[r].status = "SUCCEEDED")
      => \A t \in expected[r] : rows[t].status # "ABSENT"

\* What sync_run reports is what happened, whatever fails, is lost or is repeated and
\* whatever cursors the provider answers with, and its columns keep their types.
RunsAreHonest == TypeOK /\ CountersAddUp /\ SucceededIsComplete

\* Once the deletion of a transaction is applied, no run under the connection's
\* lock shows it again while the provider does not list it: no stored page is
\* older than the deletion.  (A full-import command takes no lock.)
DeletionsHoldUnderLock ==
    \A t \in Transactions :
      (provided[t] = "gone" /\ t \notin owed /\ rows[t].status = "LIVE")
      => rows[t].writer \notin Locking

=============================================================================
