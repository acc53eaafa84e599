----------------------- MODULE TransactionImport_proofs -----------------------
(***************************************************************************)
(* What a run reports is what happened, rows of one fingerprint are marked, *)
(* and a deletion stays under the connection's lock, for any transactions,  *)
(* pages, runs and bounds.                                                  *)
(*                                                                         *)
(* Two facts carry the argument.  A run that has read its rows holds their  *)
(* account until it writes, so what it has read is what it writes over; and *)
(* a run under the lock writes no page that is older than an applied        *)
(* deletion, because the run that applies one holds the lock itself.        *)
(***************************************************************************)
EXTENDS TransactionImport, FiniteSetTheorems, TLAPS

-----------------------------------------------------------------------------
(* The inductive invariant: what each run knows at its place.               *)

\* A run between its first and its last step.
Active(r) == pc[r] \notin {"idle", "over"}

\* The account of a run is chosen, and the places of one kind are its own.
AtItsKind(r) ==
    /\ pc[r] \in {"store", "write", "account", "delete"} => account[r] \in Accounts
    /\ pc[r] = "account" => KindOf[r] = "full"
    /\ pc[r] = "delete" => KindOf[r] = "deleted"

\* The page a run is about to store holds transactions of its account.
HasPage(r) ==
    pc[r] \in {"store", "write"} =>
      /\ page[r].next \in Cursor \cup {None}
      /\ DOMAIN page[r].items \subseteq Transactions
      /\ \A t \in DOMAIN page[r].items :
           page[r].items[t] \in Prints /\ AccountOf[t] = account[r]

\* A run that takes the connection's lock holds it from its first step to its last.
HoldsLock(r) == (r \in Locking /\ Active(r)) => lock = r

\* A run that has read the rows of its account holds it, so they are as it read them.
HoldsAccount(r) ==
    pc[r] = "write" =>
      /\ rowLock[account[r]] = r
      /\ \A t \in Transactions : AccountOf[t] = account[r] => seen[r][t] = rows[t]

\* Only the run of a deletion event names transactions, all of its one account.
NamesItsAccount(r) ==
    /\ KindOf[r] # "deleted" => ids[r] = {}
    /\ KindOf[r] # "full" => /\ \A a, b \in todo[r] : a = b
                             /\ account[r] # None => todo[r] = {}
    /\ \A t \in ids[r] : AccountOf[t] \in todo[r] \cup {account[r]}

\* A run deletes at its last place before it completes, and an idle one has done nothing.
HasYetToWrite(r) ==
    /\ pc[r] \in {"idle", "fetch", "store", "write", "account", "delete"} =>
         \A t \in Transactions : <<t, r>> \notin deletions
    /\ pc[r] = "idle" => /\ account[r] = None
                        /\ \A t \in Transactions : rows[t].inserter # r

\* t is still before run r: on its page, on a later one, or in an account to come.
Ahead(r, t) ==
    \/ AccountOf[t] \in todo[r] /\ pc[r] # "complete"
    \/ /\ AccountOf[t] = account[r]
       /\ \/ pc[r] = "fetch" /\ PageOf[t] >= PageAt(cursor[r])
          \/ /\ pc[r] \in {"store", "write"}
             /\ \/ t \in DOMAIN page[r].items
                \/ page[r].next # None /\ PageOf[t] >= page[r].next

\* What a full run must find is listed, and stored unless it is still before it.
Covers(r) ==
    /\ \A t \in expected[r] : t \in Transactions /\ Listed(t)
    /\ (KindOf[r] = "full" /\ pc[r] \in {"fetch", "store", "write", "account", "complete"}) =>
         \A t \in expected[r] : rows[t].status # "ABSENT" \/ Ahead(r, t)

\* A page under the lock holds nothing whose deletion has been applied.
PageIsCurrent(r) ==
    (r \in Locking /\ pc[r] \in {"store", "write"}) =>
      \A t \in DOMAIN page[r].items : provided[t] = "gone" => t \in owed

RunInv(r) ==
    /\ AtItsKind(r) /\ HasPage(r) /\ HoldsLock(r) /\ HoldsAccount(r)
    /\ NamesItsAccount(r) /\ HasYetToWrite(r) /\ Covers(r) /\ PageIsCurrent(r)

ImportInv ==
    /\ RunsAreHonest /\ DuplicatesMarked /\ DeletionsHoldUnderLock
    /\ \A r \in Runs : RunInv(r)

-----------------------------------------------------------------------------
(* Lemmas about the pages and the table.                                    *)

\* The parts of a page are subsets of its transactions, and counted.
LEMMA PageIsFinite ==
  ASSUME NEW r \in Runs, HasPage(r), pc[r] = "write"
  PROVE  /\ New(r) \subseteq Transactions /\ IsFiniteSet(New(r))
         /\ Cardinality(New(r)) \in Nat
         /\ Cardinality(Changed(r)) \in Nat
         /\ Cardinality(DOMAIN page[r].items) \in Nat
<1>1. DOMAIN page[r].items \subseteq Transactions
  BY DEF HasPage
<1>2. /\ New(r) \subseteq Transactions
      /\ Changed(r) \subseteq Transactions
  BY <1>1 DEF New, Changed
<1>3. \A S \in SUBSET Transactions : IsFiniteSet(S) /\ Cardinality(S) \in Nat
  BY ProviderAssumption, FS_Subset, FS_CardinalityType DEF ProviderAssumption
<1>4. QED
  BY <1>1, <1>2, <1>3

\* The table after a page: its rows take its facts, the others keep theirs, no review
\* is taken back, rows of other accounts are as they were, and a row that a new one
\* collides with is up for review, as the new one is.
LEMMA StoredRow ==
  ASSUME NEW r \in Runs, TypeOK, HasPage(r), HoldsAccount(r), pc[r] = "write",
         NEW order, NEW t \in Transactions
  PROVE  /\ Stored(r, order)[t] \in Row
         /\ rows[t].review = "POSSIBLE" => Stored(r, order)[t].review = "POSSIBLE"
         /\ t \in DOMAIN page[r].items =>
              /\ Stored(r, order)[t].status = "LIVE"
              /\ Stored(r, order)[t].print = page[r].items[t]
              /\ Stored(r, order)[t].inserter = IF t \in New(r) THEN r ELSE rows[t].inserter
              /\ Stored(r, order)[t].writer = r
         /\ t \notin DOMAIN page[r].items =>
              /\ Stored(r, order)[t].status = rows[t].status
              /\ Stored(r, order)[t].print = rows[t].print
              /\ Stored(r, order)[t].inserter = rows[t].inserter
              /\ Stored(r, order)[t].writer = rows[t].writer
         /\ AccountOf[t] # account[r] => Stored(r, order)[t] = rows[t]
         /\ \A u \in New(r) :
              t \in Collisions(r, order, u) \/ (t = u /\ Collisions(r, order, u) # {})
              => Stored(r, order)[t].review = "POSSIBLE"
<1> DEFINE found == [u \in New(r) |-> Collisions(r, order, u)]
           marked == \E u \in New(r) : t \in found[u] \/ (t = u /\ found[u] # {})
           review == IF marked THEN "POSSIBLE" ELSE rows[t].review
<1>1. Stored(r, order)[t] =
        IF t \in DOMAIN page[r].items
          THEN [status |-> "LIVE", print |-> page[r].items[t], review |-> review,
                inserter |-> IF t \in New(r) THEN r ELSE rows[t].inserter, writer |-> r]
          ELSE [rows[t] EXCEPT !.review = review]
  BY Zenon DEF Stored
<1>2. rows[t] \in Row /\ review \in {"NONE", "POSSIBLE"}
  <2>1. rows[t] \in Row
    BY DEF TypeOK
  <2>2. QED
    BY <2>1 DEF Row
<1>3. AccountOf[t] # account[r] => t \notin DOMAIN page[r].items /\ ~marked
  <2>1. AccountOf[t] # account[r] => t \notin DOMAIN page[r].items
    BY DEF HasPage
  <2>2. \A u \in New(r) : t \in found[u] => AccountOf[t] = account[r]
    BY DEF Collisions
  <2>3. AccountOf[t] # account[r] => t \notin New(r)
    BY <2>1 DEF New
  <2>4. QED
    BY <2>1, <2>2, <2>3
<1>4. t \in DOMAIN page[r].items => page[r].items[t] \in Prints
  BY DEF HasPage
<1>5. \A u \in New(r) :
         t \in Collisions(r, order, u) \/ (t = u /\ Collisions(r, order, u) # {})
         => review = "POSSIBLE"
  OBVIOUS
<1> HIDE DEF review, marked, found
<1>6. Stored(r, order)[t] \in Row
  BY <1>1, <1>2, <1>4 DEF Row
<1>7. rows[t].review = "POSSIBLE" => review = "POSSIBLE"
  BY DEF review
<1>8. ~marked => review = rows[t].review
  BY DEF review
<1>9. QED
  BY <1>1, <1>2, <1>3, <1>5, <1>6, <1>7, <1>8 DEF Row

\* What a page does to each row of the table, told from the rows themselves: the run
\* holds the account, so it has read them as they are.
LEMMA WriteRow ==
  ASSUME NEW r \in Runs, TypeOK, RunInv(r), Write(r)
  PROVE  \A t \in Transactions :
           /\ rows'[t] \in Row
           /\ rows[t].review = "POSSIBLE" => rows'[t].review = "POSSIBLE"
           /\ t \in New(r) <=> (t \in DOMAIN page[r].items /\ rows[t].status = "ABSENT")
           /\ t \in DOMAIN page[r].items =>
                /\ AccountOf[t] = account[r]
                /\ rows'[t].status = "LIVE" /\ rows'[t].writer = r
                /\ rows'[t].print = page[r].items[t]
                /\ rows'[t].inserter = IF t \in New(r) THEN r ELSE rows[t].inserter
           /\ t \notin DOMAIN page[r].items =>
                /\ rows'[t].status = rows[t].status /\ rows'[t].print = rows[t].print
                /\ rows'[t].inserter = rows[t].inserter
                /\ rows'[t].writer = rows[t].writer
           /\ AccountOf[t] # account[r] => rows'[t] = rows[t]
<1>1. HasPage(r) /\ HoldsAccount(r) /\ pc[r] = "write"
  BY DEF RunInv, Write
<1>2. PICK order : rows' = Stored(r, order)
  BY DEF Write
<1>3. ASSUME NEW t \in Transactions
      PROVE  t \in DOMAIN page[r].items =>
               AccountOf[t] = account[r] /\ seen[r][t] = rows[t]
  BY <1>1 DEF HasPage, HoldsAccount
<1>4. ASSUME NEW t \in Transactions
      PROVE  t \in New(r) <=> (t \in DOMAIN page[r].items /\ rows[t].status = "ABSENT")
  BY <1>3 DEF New
<1>5. QED
  BY <1>1, <1>2, <1>3, <1>4, StoredRow

\* What a deletion does to each row of the table.
LEMMA DeleteRow ==
  ASSUME NEW r \in Runs, TypeOK, RunInv(r), Delete(r)
  PROVE  \A t \in Transactions :
           /\ rows'[t] \in Row
           /\ rows'[t].print = rows[t].print /\ rows'[t].review = rows[t].review
           /\ rows'[t].inserter = rows[t].inserter
           /\ rows'[t].status = "LIVE" => rows'[t] = rows[t] /\ t \notin ids[r]
           /\ rows'[t].status = "ABSENT" <=> rows[t].status = "ABSENT"
           /\ AccountOf[t] # account[r] => rows'[t] = rows[t]
<1>1. /\ \A t \in ids[r] : AccountOf[t] = account[r]
      /\ account[r] # None
  BY RunsAssumption, DistinctAssumption
     DEF RunInv, AtItsKind, NamesItsAccount, Delete, Kinds, RunsAssumption, DistinctAssumption
<1>2. SUFFICES ASSUME NEW t \in Transactions
      PROVE  /\ rows'[t] \in Row
             /\ rows'[t].print = rows[t].print /\ rows'[t].review = rows[t].review
             /\ rows'[t].inserter = rows[t].inserter
             /\ rows'[t].status = "LIVE" => rows'[t] = rows[t] /\ t \notin ids[r]
             /\ rows'[t].status = "ABSENT" <=> rows[t].status = "ABSENT"
             /\ AccountOf[t] # account[r] => rows'[t] = rows[t]
  OBVIOUS
<1>3. rows[t] \in Row
  BY DEF TypeOK
<1>4. CASE t \in ids[r] /\ rows[t].status = "LIVE"
  <2>1. rows'[t] = [rows[t] EXCEPT !.status = "DELETED", !.writer = r]
    BY <1>4 DEF Delete
  <2>2. QED
    BY <1>1, <1>3, <1>4, <2>1 DEF Row
<1>5. CASE ~(t \in ids[r] /\ rows[t].status = "LIVE")
  <2>1. rows'[t] = rows[t]
    BY <1>5 DEF Delete
  <2>2. QED
    BY <1>3, <1>5, <2>1
<1>6. QED
  BY <1>4, <1>5

-----------------------------------------------------------------------------
(* The counters of the runs account for the table.                          *)

\* The rows a run inserted, and those it wrote a DELETE revision of.
Inserted(r) == {t \in Transactions : rows[t].inserter = r}
Deleted(r) == {t \in Transactions : <<t, r>> \in deletions}

\* The steps that change neither the table nor a counter.
CountsKept ==
    /\ rows' = rows /\ deletions' = deletions
    /\ \A r \in Runs : run'[r].count = run[r].count

\* Only the start of a run, a page and a deletion change what is counted.
LEMMA WhoCounts ==
  ASSUME TypeOK, [Next]_vars
  PROVE  \/ CountsKept
         \/ \E r \in Runs : Start(r) \/ Write(r) \/ Delete(r)
<1> USE DEF TypeOK, CountsKept, tableVars, providerVars
<1>1. CASE UNCHANGED vars
  BY <1>1 DEF vars
<1>2. ASSUME NEW t \in Transactions, ProviderLists(t) \/ ProviderRemoves(t)
      PROVE  CountsKept
  BY <1>2 DEF ProviderLists, ProviderRemoves
<1>3. ASSUME NEW r \in Runs, Fetch(r) \/ Read(r) \/ CompleteAccount(r) \/ Detect(r)
                             \/ Fails(r) \/ Dies(r)
      PROVE  CountsKept
  BY <1>3 DEF Fetch, Read, CompleteAccount, Detect, Fails, Dies
<1>4. ASSUME NEW r \in Runs, CompleteSync(r)
      PROVE  CountsKept
  BY <1>4 DEF CompleteSync
<1>5. ASSUME NEW r \in Runs, FailSync(r)
      PROVE  CountsKept
  BY <1>5 DEF FailSync
<1>6. QED
  BY <1>1, <1>2, <1>3, <1>4, <1>5 DEF Next

\* A disjoint addition to a set of transactions adds its size to the count.
LEMMA CountOfUnion ==
  ASSUME NEW S \in SUBSET Transactions, NEW T \in SUBSET Transactions, S \cap T = {}
  PROVE  Cardinality(S \cup T) = Cardinality(S) + Cardinality(T)
<1>1. IsFiniteSet(S) /\ IsFiniteSet(T)
  BY ProviderAssumption, FS_Subset DEF ProviderAssumption
<1>2. Cardinality(S) \in Nat /\ Cardinality(T) \in Nat
  BY <1>1, FS_CardinalityType
<1>3. Cardinality(S \cap T) = 0
  BY FS_EmptySet
<1>4. Cardinality(S \cup T) = Cardinality(S) + Cardinality(T) - Cardinality(S \cap T)
  BY <1>1, FS_Union, Zenon
<1>5. QED
  BY <1>2, <1>3, <1>4

LEMMA CountersKeep ==
  ASSUME TypeOK, CountersAddUp, \A r \in Runs : RunInv(r), [Next]_vars
  PROVE  CountersAddUp'
<1> USE DistinctAssumption DEF DistinctAssumption
<1>0. \A s \in Runs : /\ run[s].count.inserted = Cardinality(Inserted(s))
                      /\ run[s].count.deleted = Cardinality(Deleted(s))
  BY DEF CountersAddUp, Inserted, Deleted
<1>1. CASE CountsKept
  BY <1>1 DEF CountersAddUp, CountsKept
<1>2. ASSUME NEW r \in Runs, Start(r)
      PROVE  CountersAddUp'
  <2>1. rows' = rows /\ deletions' = deletions /\ pc[r] = "idle"
    BY <1>2 DEF Start
  <2>2. Inserted(r) = {} /\ Deleted(r) = {}
    BY <2>1 DEF RunInv, HasYetToWrite, Inserted, Deleted
  <2>3. /\ run'[r].count = Zero
        /\ \A s \in Runs \ {r} : run'[s] = run[s]
    BY <1>2 DEF Start, TypeOK
  <2>4. \A s \in Runs :
          /\ run'[s].count.inserted = Cardinality(Inserted(s))
          /\ run'[s].count.deleted = Cardinality(Deleted(s))
    <3>1. run'[r].count.inserted = 0 /\ run'[r].count.deleted = 0
      BY <2>3 DEF Zero
    <3>2. Cardinality(Inserted(r)) = 0 /\ Cardinality(Deleted(r)) = 0
      BY <2>2, FS_EmptySet
    <3>3. QED
      BY <1>0, <2>3, <3>1, <3>2
  <2>5. QED
    BY <2>1, <2>4 DEF CountersAddUp, Inserted, Deleted
<1>3. ASSUME NEW r \in Runs, Write(r)
      PROVE  CountersAddUp'
  <2>1. HasPage(r) /\ pc[r] = "write"
    BY <1>3 DEF RunInv, Write
  <2>2. New(r) \in SUBSET Transactions
    BY <2>1, PageIsFinite
  <2>3. RunInv(r)
    OBVIOUS
  <2>4. \A t \in Transactions :
          /\ t \in New(r) <=> (t \in DOMAIN page[r].items /\ rows[t].status = "ABSENT")
          /\ rows'[t].status = "ABSENT" <=> (rows[t].status = "ABSENT" /\ t \notin New(r))
          /\ rows'[t].inserter = IF t \in New(r) THEN r ELSE rows[t].inserter
    BY <1>3, <2>3, WriteRow DEF New
  <2>5. Inserted(r) \in SUBSET Transactions /\ Inserted(r) \cap New(r) = {}
    BY <2>4 DEF Inserted, CountersAddUp
  <2>6. /\ {t \in Transactions : rows'[t].inserter = r} = Inserted(r) \cup New(r)
        /\ \A s \in Runs \ {r} : {t \in Transactions : rows'[t].inserter = s} = Inserted(s)
    BY <2>2, <2>4 DEF Inserted, CountersAddUp
  <2>7. Cardinality(Inserted(r) \cup New(r)) = Cardinality(Inserted(r)) + Cardinality(New(r))
    BY <2>2, <2>5, CountOfUnion
  <2>8. /\ run'[r].count.inserted = run[r].count.inserted + Cardinality(New(r))
        /\ run'[r].count.deleted = run[r].count.deleted + 0
        /\ \A s \in Runs \ {r} : run'[s] = run[s]
        /\ deletions' = deletions
    BY <1>3 DEF Write, Counted, TypeOK
  <2>9. run[r].count.deleted + 0 = run[r].count.deleted
    BY DEF TypeOK, Counters
  <2>10. \A t \in Transactions : rows'[t].status = "ABSENT" <=> rows'[t].inserter = None
    BY <2>4 DEF CountersAddUp
  <2>11. \A s \in Runs :
           /\ run'[s].count.inserted = Cardinality({t \in Transactions : rows'[t].inserter = s})
           /\ run'[s].count.deleted = Cardinality({t \in Transactions : <<t, s>> \in deletions'})
    <3>1. \A s \in Runs : {t \in Transactions : <<t, s>> \in deletions'} = Deleted(s)
      BY <2>8 DEF Deleted
    <3>2. QED
      BY <1>0, <2>6, <2>7, <2>8, <2>9, <3>1
  <2>12. QED
    BY <2>10, <2>11 DEF CountersAddUp
<1>4. ASSUME NEW r \in Runs, Delete(r)
      PROVE  CountersAddUp'
  <2> DEFINE gone == {t \in ids[r] : rows[t].status = "LIVE"}
  <2>1. /\ \A t \in Transactions : /\ rows'[t].inserter = rows[t].inserter
                                   /\ rows'[t].status = "ABSENT" <=> rows[t].status = "ABSENT"
    BY <1>4, DeleteRow
  <2>2. /\ deletions' = deletions \cup (gone \X {r})
        /\ run'[r].count.deleted = run[r].count.deleted + Cardinality(gone)
        /\ run'[r].count.inserted = run[r].count.inserted + 0
        /\ \A s \in Runs \ {r} : run'[s] = run[s]
    BY <1>4 DEF Delete, Counted, TypeOK
  <2>3. run[r].count.inserted + 0 = run[r].count.inserted
    BY DEF TypeOK, Counters
  <2>4. gone \in SUBSET Transactions /\ Deleted(r) \in SUBSET Transactions
    BY DEF TypeOK, Deleted
  <2>5. Deleted(r) = {}
    BY <1>4 DEF RunInv, HasYetToWrite, Delete, Deleted
  <2> HIDE DEF gone
  <2>6. /\ {t \in Transactions : <<t, r>> \in deletions'} = Deleted(r) \cup gone
        /\ \A s \in Runs \ {r} : {t \in Transactions : <<t, s>> \in deletions'} = Deleted(s)
    BY <2>2, <2>4 DEF Deleted
  <2>7. Cardinality(Deleted(r) \cup gone) = Cardinality(Deleted(r)) + Cardinality(gone)
    BY <2>4, <2>5, CountOfUnion
  <2>8. \A s \in Runs :
          {t \in Transactions : rows'[t].inserter = s} = Inserted(s)
    BY <2>1 DEF Inserted
  <2>9. \A s \in Runs :
          /\ run'[s].count.inserted = Cardinality({t \in Transactions : rows'[t].inserter = s})
          /\ run'[s].count.deleted = Cardinality({t \in Transactions : <<t, s>> \in deletions'})
    <3>1. ASSUME NEW s \in Runs \ {r}
          PROVE  /\ run'[s].count.inserted = Cardinality(Inserted(s))
                 /\ run'[s].count.deleted = Cardinality(Deleted(s))
      BY <1>0, <2>2
    <3>2. /\ run'[r].count.inserted = Cardinality(Inserted(r))
          /\ run'[r].count.deleted = Cardinality(Deleted(r) \cup gone)
      BY <1>0, <2>2, <2>3, <2>7
    <3>3. QED
      BY <2>6, <2>8, <3>1, <3>2
  <2>10. QED
    BY <2>1, <2>9 DEF CountersAddUp
<1>5. QED
  BY <1>1, <1>2, <1>3, <1>4, WhoCounts

-----------------------------------------------------------------------------
(* The types of the state.                                                  *)

\* A set of transactions has at most as many elements as there are transactions.
LEMMA CountIsBounded ==
  ASSUME NEW S \in SUBSET Transactions
  PROVE  Cardinality(S) \in 0..Cardinality(Transactions)
<1>1. IsFiniteSet(Transactions)
  BY ProviderAssumption DEF ProviderAssumption
<1>2. /\ Cardinality(Transactions) \in Nat
      /\ Cardinality(S) \in Nat /\ Cardinality(S) <= Cardinality(Transactions)
  BY <1>1, FS_Subset, FS_CardinalityType
<1>3. QED
  BY <1>2

\* The counts a page or a deletion adds keep the counters' types.
LEMMA CountedKeeps ==
  ASSUME TypeOK, CountersAddUp', NEW r \in Runs,
         NEW inserted, NEW updated \in Nat, NEW deleted, NEW number \in Nat,
         Counted(r, inserted, updated, deleted, number)
  PROVE  run' \in [Runs -> [status : RunStatus, count : Counters]]
<1>1. run \in [Runs -> [status : RunStatus, count : Counters]]
  BY DEF TypeOK
<1>2. run' = [run EXCEPT ![r] = [status |-> run[r].status, count |-> run'[r].count]]
  BY <1>1 DEF Counted
<1>3. /\ run'[r].count = [inserted |-> run'[r].count.inserted,
                          updated |-> run[r].count.updated + updated,
                          deleted |-> run'[r].count.deleted,
                          seen |-> run[r].count.seen + number]
  BY <1>1 DEF Counted
<1>4. /\ run'[r].count.inserted \in 0..Cardinality(Transactions)
      /\ run'[r].count.deleted \in 0..Cardinality(Transactions)
  BY CountIsBounded DEF CountersAddUp
<1>5. run[r].count.updated \in Nat /\ run[r].count.seen \in Nat
  BY <1>1 DEF Counters
<1>6. run'[r].count \in Counters
  BY <1>3, <1>4, <1>5 DEF Counters
<1>7. QED
  BY <1>1, <1>2, <1>6

LEMMA TypeKeeps ==
  ASSUME TypeOK, CountersAddUp', \A r \in Runs : RunInv(r), [Next]_vars
  PROVE  TypeOK'
<1> USE DEF Goto, Forgets, Released, Place
<1>1. CASE UNCHANGED vars
  BY <1>1 DEF vars, providerVars, tableVars, localVars, lockVars, TypeOK
<1>2. ASSUME NEW t \in Transactions, ProviderLists(t) \/ ProviderRemoves(t)
      PROVE  TypeOK'
  BY <1>2 DEF ProviderLists, ProviderRemoves, tableVars, localVars, lockVars, Unlisted, TypeOK
<1>3. ASSUME NEW r \in Runs, Start(r)
      PROVE  TypeOK'
  <2>1. Zero \in Counters
    BY CountIsBounded, FS_EmptySet DEF Zero, Counters
  <2>2. run' \in [Runs -> [status : RunStatus, count : Counters]]
    BY <1>3, <2>1 DEF Start, RunStatus, TypeOK
  <2>3. lock' \in Locking \cup {None}
    BY <1>3 DEF Start, TakesLock, TypeOK
  <2>4. ids' \in [Runs -> SUBSET Transactions] /\ todo' \in [Runs -> SUBSET Accounts]
    <3>1. CASE KindOf[r] = "full"
      BY <1>3, <3>1 DEF Start, TypeOK
    <3>2. CASE KindOf[r] # "full"
      <4>1. PICK a \in Accounts : todo' = [todo EXCEPT ![r] = {a}]
        BY <1>3, <3>2 DEF Start
      <4>2. /\ ids' = [ids EXCEPT ![r] = ids'[r]]
            /\ ids'[r] \subseteq owed
        BY <1>3, <3>2 DEF Start, TypeOK
      <4>3. QED
        BY <4>1, <4>2 DEF TypeOK
    <3>3. QED
      BY <3>1, <3>2
  <2>5. QED
    BY <1>3, <2>2, <2>3, <2>4 DEF Start, providerVars, TypeOK
<1>4. ASSUME NEW r \in Runs, Fetch(r)
      PROVE  TypeOK'
  <2>1. FirstCursor(r) \subseteq Cursor \cup {None}
    BY DEF FirstCursor
  <2>2. cursor[r] \in Cursor \cup {None}
    BY DEF TypeOK
  <2> USE DEF providerVars, tableVars, localVars, lockVars, TypeOK
  <2>3. CASE Finished(r) \/ GivesUp(r)
    BY <1>4, <2>3 DEF Fetch, Finished, GivesUp
  <2>4. CASE NextAccount(r)
    BY <1>4, <2>1, <2>4 DEF Fetch, NextAccount
  <2>5. CASE Request(r)
    <3>1. pc' \in [Runs -> Place] /\ requested' \in [Runs -> SUBSET Cursor]
      BY <2>2, <2>5 DEF Request
    <3>2. QED
      BY <1>4, <2>5, <3>1 DEF Fetch, Request
  <2>6. QED
    BY <1>4, <2>3, <2>4, <2>5 DEF Fetch
<1>5. ASSUME NEW r \in Runs, Read(r)
      PROVE  TypeOK'
  <2>1. pc' \in [Runs -> Place]
    BY <1>5 DEF Read, TypeOK
  <2>2. rowLock' \in [Accounts -> Runs \cup {None}]
    BY <1>5 DEF Read, TypeOK
  <2>3. QED
    BY <1>5, <2>1, <2>2 DEF Read, providerVars, tableVars, TypeOK
<1>6. ASSUME NEW r \in Runs, Write(r)
      PROVE  TypeOK'
  <2>1. HasPage(r) /\ pc[r] = "write" /\ RunInv(r)
    BY <1>6 DEF RunInv, Write
  <2>2. run' \in [Runs -> [status : RunStatus, count : Counters]]
    <3>1. Counted(r, Cardinality(New(r)), Cardinality(Changed(r)), 0,
                  Cardinality(DOMAIN page[r].items))
      BY <1>6 DEF Write
    <3>2. QED
      BY <2>1, <3>1, PageIsFinite, CountedKeeps
  <2>3. rows' \in [Transactions -> Row]
    <3>1. \E order : rows' = Stored(r, order)
      BY <1>6 DEF Write
    <3>2. rows' = [t \in Transactions |-> rows'[t]]
      BY <3>1 DEF Stored
    <3>3. \A t \in Transactions : rows'[t] \in Row
      BY <1>6, <2>1, WriteRow
    <3>4. QED
      BY <3>2, <3>3
  <2>4. moved' \subseteq Transactions
    BY <1>6, <2>1 DEF Write, HasPage, Changed, TypeOK
  <2>5. cursor' \in [Runs -> Cursor \cup {None}]
    BY <1>6, <2>1 DEF Write, HasPage, TypeOK
  <2>6. pc' \in [Runs -> Place]
    BY <1>6 DEF Write, Continue, TypeOK
  <2>7. QED
    BY <1>6, <2>2, <2>3, <2>4, <2>5, <2>6 DEF Write, providerVars, TypeOK
<1>7. ASSUME NEW r \in Runs, CompleteAccount(r)
      PROVE  TypeOK'
  BY <1>7 DEF CompleteAccount, providerVars, tableVars, lockVars, TypeOK
<1>8. ASSUME NEW r \in Runs, Delete(r)
      PROVE  TypeOK'
  <2>1. run' \in [Runs -> [status : RunStatus, count : Counters]]
    <3>1. Cardinality(ids[r]) \in Nat
      BY CountIsBounded DEF TypeOK
    <3>2. Counted(r, 0, 0, Cardinality({t \in ids[r] : rows[t].status = "LIVE"}),
                  Cardinality(ids[r]))
      BY <1>8 DEF Delete
    <3>3. QED
      BY <3>1, <3>2, CountedKeeps
  <2>2. rows' \in [Transactions -> Row]
    <3>1. rows' = [t \in Transactions |-> rows'[t]]
      BY <1>8 DEF Delete
    <3>2. \A t \in Transactions : rows'[t] \in Row
      BY <1>8, DeleteRow
    <3>3. QED
      BY <3>1, <3>2
  <2>3. deletions' \subseteq Transactions \X Runs /\ owed' \subseteq Transactions
    BY <1>8 DEF Delete, TypeOK
  <2>4. QED
    BY <1>8, <2>1, <2>2, <2>3 DEF Delete, localVars, lockVars, TypeOK
<1>9. ASSUME NEW r \in Runs, CompleteSync(r) \/ FailSync(r)
      PROVE  TypeOK'
  <2>1. run' \in [Runs -> [status : RunStatus, count : Counters]]
    BY <1>9 DEF CompleteSync, FailSync, RunStatus, TypeOK
  <2>2. CASE CompleteSync(r)
    BY <2>1, <2>2 DEF CompleteSync, providerVars, localVars, lockVars, TypeOK
  <2>3. CASE FailSync(r)
    BY <2>1, <2>3 DEF FailSync, providerVars, TypeOK
  <2>4. QED
    BY <1>9, <2>2, <2>3
<1>10. ASSUME NEW r \in Runs, Detect(r)
       PROVE  TypeOK'
  BY <1>10 DEF Detect, providerVars, tableVars, TypeOK
<1>11. ASSUME NEW r \in Runs, Fails(r) \/ Dies(r)
       PROVE  TypeOK'
  <2>1. CASE Fails(r)
    BY <2>1 DEF Fails, providerVars, tableVars, localVars, TypeOK
  <2>2. CASE Dies(r)
    BY <2>2 DEF Dies, providerVars, tableVars, TypeOK
  <2>3. QED
    BY <1>11, <2>1, <2>2
<1>12. QED
  BY <1>1, <1>2, <1>3, <1>4, <1>5, <1>6, <1>7, <1>8, <1>9, <1>10, <1>11 DEF Next

-----------------------------------------------------------------------------
(* What a step of one run does to the others.                               *)

RunStep(r) ==
    \/ Start(r) \/ Fetch(r) \/ Read(r) \/ Write(r) \/ CompleteAccount(r) \/ Delete(r)
    \/ CompleteSync(r) \/ FailSync(r) \/ Detect(r) \/ Fails(r) \/ Dies(r)

\* Only r, of all runs, may move or change its locals.
OthersStay(r) ==
    \A s \in Runs \ {r} :
      /\ pc'[s] = pc[s] /\ ids'[s] = ids[s] /\ todo'[s] = todo[s]
      /\ account'[s] = account[s] /\ cursor'[s] = cursor[s] /\ page'[s] = page[s]
      /\ seen'[s] = seen[s] /\ expected'[s] = expected[s]

\* The variables a step changes only at its own run have those runs as their domain.
Indexed ==
    /\ page = [s \in Runs |-> page[s]] /\ seen = [s \in Runs |-> seen[s]]
    /\ expected = [s \in Runs |-> expected[s]]

LEMMA StaysLocal ==
  ASSUME TypeOK, Indexed, NEW r \in Runs, RunStep(r)
  PROVE  OthersStay(r)
<1> USE DEF TypeOK, Indexed, OthersStay, Goto, Forgets, localVars
<1>1. CASE Start(r)
  BY <1>1 DEF Start
<1>2. CASE Fetch(r)
  BY <1>2 DEF Fetch, Finished, NextAccount, GivesUp, Request
<1>3. CASE Read(r)
  BY <1>3 DEF Read
<1>4. CASE Write(r)
  BY <1>4 DEF Write
<1>5. CASE CompleteAccount(r) \/ Delete(r)
  BY <1>5 DEF CompleteAccount, Delete
<1>6. CASE CompleteSync(r)
  BY <1>6 DEF CompleteSync
<1>7. CASE FailSync(r) \/ Detect(r) \/ Fails(r) \/ Dies(r)
  BY <1>7 DEF FailSync, Detect, Fails, Dies
<1>8. QED
  BY <1>1, <1>2, <1>3, <1>4, <1>5, <1>6, <1>7 DEF RunStep

LEMMA IndexedKeeps ==
  ASSUME TypeOK, Indexed, [Next]_vars
  PROVE  Indexed'
<1> USE DEF Indexed, Goto, Forgets, localVars
<1>1. CASE UNCHANGED vars
  BY <1>1 DEF vars
<1>2. ASSUME NEW t \in Transactions, ProviderLists(t) \/ ProviderRemoves(t)
      PROVE  Indexed'
  BY <1>2 DEF ProviderLists, ProviderRemoves
<1>3. ASSUME NEW r \in Runs, Start(r) \/ Read(r) \/ Write(r) \/ CompleteAccount(r)
      PROVE  Indexed'
  BY <1>3 DEF Start, Read, Write, CompleteAccount
<1>4. ASSUME NEW r \in Runs, Fetch(r)
      PROVE  Indexed'
  BY <1>4 DEF Fetch, Finished, NextAccount, GivesUp, Request
<1>5. ASSUME NEW r \in Runs, Delete(r) \/ CompleteSync(r) \/ FailSync(r) \/ Detect(r)
                             \/ Fails(r) \/ Dies(r)
      PROVE  Indexed'
  BY <1>5 DEF Delete, CompleteSync, FailSync, Detect, Fails, Dies
<1>6. QED
  BY <1>1, <1>2, <1>3, <1>4, <1>5 DEF Next

\* No row leaves the table.
LEMMA TableGrows ==
  ASSUME TypeOK, \A r \in Runs : RunInv(r), [Next]_vars, NEW t \in Transactions,
         rows[t].status # "ABSENT"
  PROVE  rows'[t].status # "ABSENT"
<1>1. CASE CountsKept
  BY <1>1 DEF CountsKept
<1>2. ASSUME NEW r \in Runs, Start(r)
      PROVE  rows'[t].status # "ABSENT"
  BY <1>2 DEF Start
<1>3. ASSUME NEW r \in Runs, Write(r)
      PROVE  rows'[t].status # "ABSENT"
  BY <1>3, WriteRow
<1>4. ASSUME NEW r \in Runs, Delete(r)
      PROVE  rows'[t].status # "ABSENT"
  BY <1>4, DeleteRow
<1>5. QED
  BY <1>1, <1>2, <1>3, <1>4, WhoCounts

\* What another run holds or has done is left to it, and the rows of the account it
\* holds are left as they are.
LEMMA LeavesToOthers ==
  ASSUME TypeOK, \A r \in Runs : RunInv(r), NEW r \in Runs, RunStep(r),
         NEW s \in Runs \ {r}
  PROVE  /\ lock = s => lock' = s
         /\ \A a \in Accounts : rowLock[a] = s => rowLock'[a] = s
         /\ \A t \in Transactions :
              /\ rowLock[AccountOf[t]] = s => rows'[t] = rows[t]
              /\ <<t, s>> \in deletions' => <<t, s>> \in deletions
              /\ rows'[t].inserter = s => rows[t].inserter = s
<1> USE DEF TypeOK, Goto, Forgets, Released, tableVars, providerVars, lockVars
<1>1. RunInv(r) /\ AccountOf \in [Transactions -> Accounts] /\ None \notin Runs
  BY ProviderAssumption, DistinctAssumption DEF ProviderAssumption, DistinctAssumption
<1>2. CASE Start(r)
  BY <1>1, <1>2 DEF Start, TakesLock
<1>3. CASE Fetch(r) \/ CompleteAccount(r) \/ Detect(r) \/ Dies(r) \/ Fails(r)
  BY <1>3 DEF Fetch, CompleteAccount, Detect, Dies, Fails
<1>4. CASE Read(r)
  <2>1. /\ rows' = rows /\ deletions' = deletions /\ lock' = lock
    BY <1>4 DEF Read
  <2>2. \A a \in Accounts : rowLock[a] = s => rowLock'[a] = s
    BY <1>1, <1>4 DEF Read, AccountFree
  <2>3. QED
    BY <2>1, <2>2
<1>5. CASE Write(r)
  <2>1. lock' = lock /\ deletions' = deletions
    BY <1>5 DEF Write
  <2>2. rowLock[account[r]] = r /\ rowLock' = [rowLock EXCEPT ![account[r]] = None]
    BY <1>1, <1>5 DEF Write, RunInv, HoldsAccount
  <2>3. \A t \in Transactions : /\ AccountOf[t] # account[r] => rows'[t] = rows[t]
                                /\ rows'[t].inserter \in {rows[t].inserter, r}
    <3>1. \A t \in Transactions :
            /\ t \in DOMAIN page[r].items =>
                 rows'[t].inserter = IF t \in New(r) THEN r ELSE rows[t].inserter
            /\ t \notin DOMAIN page[r].items => rows'[t].inserter = rows[t].inserter
            /\ AccountOf[t] # account[r] => rows'[t] = rows[t]
      BY <1>1, <1>5, WriteRow
    <3>2. QED
      BY <3>1
  <2>4. QED
    BY <1>1, <2>1, <2>2, <2>3
<1>6. CASE Delete(r)
  <2>1. lock' = lock /\ rowLock' = rowLock /\ rowLock[account[r]] = None
    BY <1>6 DEF Delete, AccountFree
  <2>2. \A t \in Transactions : <<t, s>> \in deletions' => <<t, s>> \in deletions
    BY <1>6 DEF Delete
  <2>3. \A t \in Transactions : /\ AccountOf[t] # account[r] => rows'[t] = rows[t]
                                /\ rows'[t].inserter = rows[t].inserter
    BY <1>1, <1>6, DeleteRow
  <2>4. QED
    BY <1>1, <2>1, <2>2, <2>3
<1>7. CASE CompleteSync(r) \/ FailSync(r)
  BY <1>7 DEF CompleteSync, FailSync
<1>8. QED
  BY <1>2, <1>3, <1>4, <1>5, <1>6, <1>7 DEF RunStep

\* What the provider lists and owes is changed by a run only where it applies a
\* deletion, which no other run under the lock can be doing.
LEMMA DebtsStay ==
  ASSUME TypeOK, \A r \in Runs : RunInv(r), NEW r \in Runs, RunStep(r),
         NEW s \in Runs \ {r}, s \in Locking, Active(s)
  PROVE  provided' = provided /\ owed \subseteq owed'
<1> USE DEF providerVars
<1>1. CASE Delete(r)
  <2>1. KindOf[r] = "deleted" /\ pc[r] = "delete"
    BY <1>1 DEF RunInv, AtItsKind, Delete
  <2>2. r \in Locking /\ Active(r)
    BY <2>1, RunsAssumption DEF RunsAssumption, Active
  <2>3. lock = r /\ lock = s
    BY <2>2 DEF RunInv, HoldsLock
  <2>4. QED
    BY <2>3
<1>2. CASE Start(r) \/ Fetch(r) \/ Read(r) \/ Write(r) \/ CompleteAccount(r)
  BY <1>2 DEF Start, Fetch, Read, Write, CompleteAccount
<1>3. CASE CompleteSync(r) \/ FailSync(r) \/ Detect(r) \/ Fails(r) \/ Dies(r)
  BY <1>3 DEF CompleteSync, FailSync, Detect, Fails, Dies
<1>4. QED
  BY <1>1, <1>2, <1>3 DEF RunStep

LEMMA OthersKeep ==
  ASSUME TypeOK, Indexed, \A r \in Runs : RunInv(r), [Next]_vars,
         NEW r \in Runs, RunStep(r), NEW s \in Runs \ {r}
  PROVE  RunInv(s)'
<1>1. /\ pc'[s] = pc[s] /\ ids'[s] = ids[s] /\ todo'[s] = todo[s]
      /\ account'[s] = account[s] /\ cursor'[s] = cursor[s] /\ page'[s] = page[s]
      /\ seen'[s] = seen[s] /\ expected'[s] = expected[s]
  BY StaysLocal DEF OthersStay
<1>2. RunInv(s)
  OBVIOUS
<1>3. AtItsKind(s)' /\ HasPage(s)' /\ NamesItsAccount(s)'
  BY <1>1, <1>2 DEF RunInv, AtItsKind, HasPage, NamesItsAccount
<1>4. HoldsLock(s)'
  BY <1>1, <1>2, LeavesToOthers DEF RunInv, HoldsLock, Active
<1>5. HoldsAccount(s)'
  <2>1. SUFFICES ASSUME pc[s] = "write"
        PROVE  /\ rowLock'[account[s]] = s
               /\ \A t \in Transactions : AccountOf[t] = account[s] => seen[s][t] = rows'[t]
    BY <1>1 DEF HoldsAccount
  <2>2. /\ account[s] \in Accounts /\ rowLock[account[s]] = s
        /\ \A t \in Transactions : AccountOf[t] = account[s] => seen[s][t] = rows[t]
    BY <1>2, <2>1 DEF RunInv, AtItsKind, HoldsAccount
  <2>3. ASSUME NEW t \in Transactions, AccountOf[t] = account[s]
        PROVE  rows'[t] = rows[t]
    <3>1. rowLock[AccountOf[t]] = s
      BY <2>2, <2>3
    <3>2. QED
      BY <3>1, LeavesToOthers
  <2>4. QED
    BY <2>2, <2>3, LeavesToOthers
<1>6. HasYetToWrite(s)'
  BY <1>1, <1>2, LeavesToOthers DEF RunInv, HasYetToWrite
<1>7. Covers(s)'
  <2>1. \A t \in Transactions : Ahead(s, t) <=> Ahead(s, t)'
    BY <1>1 DEF Ahead
  <2>2. provided' = provided
    BY DEF RunStep, Start, Fetch, Read, Write, CompleteAccount, Delete, CompleteSync,
           FailSync, Detect, Fails, Dies, providerVars
  <2>3. QED
    BY <1>1, <1>2, <2>1, <2>2, TableGrows DEF RunInv, Covers, Listed
<1>8. PageIsCurrent(s)'
  <2>1. SUFFICES ASSUME s \in Locking, pc[s] \in {"store", "write"}
        PROVE  \A t \in DOMAIN page[s].items : provided'[t] = "gone" => t \in owed'
    BY <1>1 DEF PageIsCurrent
  <2>2. provided' = provided /\ owed \subseteq owed'
    BY <2>1, DebtsStay DEF Active
  <2>3. QED
    BY <1>2, <2>1, <2>2 DEF RunInv, PageIsCurrent
<1>9. QED
  BY <1>3, <1>4, <1>5, <1>6, <1>7, <1>8 DEF RunInv

\* The provider moves on: what it stops listing is owed, and no longer expected.
LEMMA ProviderKeeps ==
  ASSUME TypeOK, Indexed, NEW s \in Runs, RunInv(s), NEW t \in Transactions,
         ProviderLists(t) \/ ProviderRemoves(t)
  PROVE  RunInv(s)'
<1> USE DEF tableVars, localVars, lockVars
<1>1. AtItsKind(s)' /\ HasPage(s)' /\ NamesItsAccount(s)' /\ HoldsLock(s)'
      /\ HoldsAccount(s)' /\ HasYetToWrite(s)'
  BY DEF ProviderLists, ProviderRemoves, RunInv, AtItsKind, HasPage, NamesItsAccount,
         HoldsLock, Active, HoldsAccount, HasYetToWrite
<1>2. Covers(s)'
  <2>1. \A u \in Transactions : Ahead(s, u)' <=> Ahead(s, u)
    BY DEF ProviderLists, ProviderRemoves, Ahead
  <2>2. rows' = rows /\ pc' = pc
    BY DEF ProviderLists, ProviderRemoves
  <2>3. \A u \in expected[s] : u \in Transactions /\ Listed(u)
    BY DEF RunInv, Covers
  <2>4. \A u \in expected'[s] : u \in expected[s] /\ Listed(u)'
    <3>1. CASE ProviderLists(t)
      BY <2>3, <3>1 DEF ProviderLists, Listed, TypeOK
    <3>2. CASE ProviderRemoves(t)
      BY <2>3, <3>2 DEF ProviderRemoves, Listed, TypeOK
    <3>3. QED
      BY <3>1, <3>2
  <2>5. QED
    BY <2>1, <2>2, <2>3, <2>4 DEF RunInv, Covers
<1>3. PageIsCurrent(s)'
  <2>1. \A u \in Transactions : (provided'[u] = "gone" /\ provided[u] # "gone") => u \in owed'
    BY DistinctAssumption
       DEF ProviderLists, ProviderRemoves, TypeOK, DistinctAssumption, Unlisted
  <2>2. owed \subseteq owed' /\ pc' = pc /\ page' = page
    BY DEF ProviderLists, ProviderRemoves
  <2>3. QED
    BY <2>1, <2>2 DEF RunInv, PageIsCurrent, HasPage
<1>4. QED
  BY <1>1, <1>2, <1>3 DEF RunInv

-----------------------------------------------------------------------------
(* What a run knows after each of its own steps.                            *)

\* A run that fails, finds or ends knows no more than what its kind names, and what
\* it must have found.
LEMMA LeaveKeeps ==
  ASSUME TypeOK, Indexed, NEW r \in Runs, RunInv(r),
         FailSync(r) \/ Detect(r) \/ Fails(r) \/ Dies(r) \/ CompleteSync(r)
  PROVE  RunInv(r)'
<1> USE DEF TypeOK, Goto, Forgets, tableVars, providerVars, localVars
<1>1. pc'[r] \in {"fail", "over", "detect"}
  BY DEF FailSync, Detect, Fails, Dies, CompleteSync
<1>2. AtItsKind(r)' /\ HasPage(r)' /\ HoldsAccount(r)' /\ HasYetToWrite(r)' /\ PageIsCurrent(r)'
  BY <1>1 DEF AtItsKind, HasPage, HoldsAccount, HasYetToWrite, PageIsCurrent
<1>3. HoldsLock(r)'
  BY DEF FailSync, Detect, Fails, Dies, CompleteSync, lockVars, RunInv, HoldsLock, Active
<1>4. NamesItsAccount(r)'
  <2>1. CASE Fails(r) \/ CompleteSync(r)
    BY <2>1 DEF Fails, CompleteSync, RunInv, NamesItsAccount
  <2>2. CASE FailSync(r) \/ Detect(r) \/ Dies(r)
    <3>1. ids'[r] = {} /\ todo'[r] = {}
      BY <2>2 DEF FailSync, Detect, Dies
    <3>2. QED
      BY <3>1 DEF NamesItsAccount
  <2>3. QED
    BY <2>1, <2>2
<1>5. Covers(r)'
  <2>1. expected' = expected /\ provided' = provided
    BY DEF FailSync, Detect, Fails, Dies, CompleteSync
  <2>2. QED
    BY <1>1, <2>1 DEF RunInv, Covers, Listed
<1>6. QED
  BY <1>2, <1>3, <1>4, <1>5 DEF RunInv

LEMMA StartKeeps ==
  ASSUME TypeOK, Indexed, NEW r \in Runs, RunInv(r), Start(r)
  PROVE  RunInv(r)'
<1> USE DEF TypeOK, Indexed, Goto
<1>1. /\ pc[r] = "idle" /\ pc'[r] = "fetch" /\ rows' = rows /\ deletions' = deletions
      /\ provided' = provided /\ account' = account /\ cursor' = cursor
  BY DEF Start, providerVars
<1>2. AtItsKind(r)' /\ HasPage(r)' /\ HoldsAccount(r)' /\ PageIsCurrent(r)'
  BY <1>1 DEF AtItsKind, HasPage, HoldsAccount, PageIsCurrent
<1>3. HoldsLock(r)'
  BY DEF Start, TakesLock, HoldsLock
<1>4. HasYetToWrite(r)'
  BY <1>1 DEF RunInv, HasYetToWrite
<1>5. account[r] = None
  BY <1>1 DEF RunInv, HasYetToWrite
<1>6. NamesItsAccount(r)' /\ Covers(r)'
  <2>1. CASE KindOf[r] = "full"
    <3>1. /\ ids' = ids /\ todo'[r] = Accounts
          /\ expected'[r] = {t \in Transactions : Listed(t)}
      BY <2>1 DEF Start
    <3>2. NamesItsAccount(r)'
      BY <1>1, <2>1, <3>1 DEF RunInv, NamesItsAccount
    <3>3. \A t \in Transactions : Ahead(r, t)'
      BY <1>1, <3>1, ProviderAssumption DEF Ahead, ProviderAssumption
    <3>4. QED
      BY <1>1, <3>1, <3>2, <3>3 DEF Covers, Listed
  <2>2. CASE KindOf[r] # "full"
    <3>1. PICK a \in Accounts : todo'[r] = {a}
      BY <2>2 DEF Start
    <3>2. /\ ids'[r] = {t \in owed : KindOf[r] = "deleted" /\ AccountOf[t] \in todo'[r]}
          /\ expected' = expected
      BY <2>2 DEF Start
    <3>3. NamesItsAccount(r)'
      BY <1>1, <1>5, <2>2, <3>1, <3>2 DEF NamesItsAccount
    <3>4. QED
      BY <1>1, <2>2, <3>2, <3>3 DEF RunInv, Covers, Listed
  <2>3. QED
    BY <2>1, <2>2
<1>7. QED
  BY <1>2, <1>3, <1>4, <1>6 DEF RunInv

LEMMA FetchKeeps ==
  ASSUME TypeOK, Indexed, NEW r \in Runs, RunInv(r), Fetch(r)
  PROVE  RunInv(r)'
<1> USE DistinctAssumption, ProviderAssumption DEF DistinctAssumption, ProviderAssumption
<1>1. /\ pc[r] = "fetch" /\ rows' = rows /\ deletions' = deletions /\ provided' = provided
      /\ owed' = owed /\ expected' = expected /\ lock' = lock /\ rowLock' = rowLock
  BY DEF Fetch, providerVars, tableVars, lockVars
<1>2. /\ pc'[r] \in {"fetch", "store", "complete", "fail"}
      /\ account'[r] = account[r] \/ account'[r] \in Accounts
  BY DEF Fetch, Finished, NextAccount, GivesUp, Request, Goto, localVars, TypeOK
<1>3. HoldsLock(r)' /\ HoldsAccount(r)' /\ HasYetToWrite(r)'
  BY <1>1, <1>2 DEF RunInv, HoldsLock, HoldsAccount, HasYetToWrite, Active
<1>4. \A t \in expected[r] : t \in Transactions /\ Listed(t)
  BY DEF RunInv, Covers
<1>5. CASE Finished(r) \/ GivesUp(r)
  <2>1. /\ pc'[r] \in {"complete", "fail"} /\ ids' = ids /\ todo' = todo
        /\ account' = account
    BY <1>5 DEF Finished, GivesUp, Goto, localVars, TypeOK
  <2>2. AtItsKind(r)' /\ HasPage(r)' /\ NamesItsAccount(r)' /\ PageIsCurrent(r)'
    BY <2>1 DEF RunInv, AtItsKind, HasPage, NamesItsAccount, PageIsCurrent
  <2>3. pc'[r] = "complete" => account[r] = None /\ todo[r] = {}
    BY <1>5 DEF Finished, GivesUp, Goto, TypeOK
  <2>4. \A t \in Transactions : pc'[r] = "complete" => ~Ahead(r, t)
    BY <2>3 DEF Ahead
  <2>5. Covers(r)'
    BY <1>1, <1>4, <2>1, <2>4 DEF RunInv, Covers, Listed
  <2>6. QED
    BY <1>3, <2>2, <2>5 DEF RunInv
<1>6. CASE NextAccount(r)
  <2>1. PICK a \in todo[r], c \in FirstCursor(r) :
          /\ account[r] = None /\ account'[r] = a
          /\ todo'[r] = todo[r] \ {a} /\ cursor'[r] = c
          /\ pc' = pc /\ ids' = ids
    BY <1>6 DEF NextAccount, TypeOK
  <2>2. AtItsKind(r)' /\ HasPage(r)' /\ PageIsCurrent(r)'
    BY <1>1, <2>1 DEF AtItsKind, HasPage, PageIsCurrent
  <2>3. NamesItsAccount(r)'
    BY <2>1 DEF RunInv, NamesItsAccount, TypeOK
  <2>4. ASSUME KindOf[r] = "full", NEW t \in Transactions, Ahead(r, t)
        PROVE  Ahead(r, t)'
    <3>1. PageAt(cursor'[r]) = 0
      BY <2>1, <2>4 DEF FirstCursor, PageAt
    <3>2. AccountOf[t] \in todo[r]
      BY <2>1, <2>4 DEF Ahead
    <3>3. CASE AccountOf[t] = a
      <4>1. PageOf[t] >= PageAt(cursor'[r])
        BY <3>1
      <4>2. QED
        BY <1>1, <2>1, <3>3, <4>1 DEF Ahead, PageAt
    <3>4. CASE AccountOf[t] # a
      BY <1>1, <2>1, <3>2, <3>4 DEF Ahead
    <3>5. QED
      BY <3>3, <3>4
  <2>5. Covers(r)'
    BY <1>1, <1>4, <2>1, <2>4 DEF RunInv, Covers, Listed
  <2>6. QED
    BY <1>3, <2>2, <2>3, <2>5 DEF RunInv
<1>7. CASE Request(r)
  <2>1. PICK next \in NextCursor(cursor[r], requested'[r]) :
          /\ page'[r] = [next |-> next, items |-> Listing(r)]
          /\ pc'[r] = IF next # None /\ next \in requested'[r] THEN "fail" ELSE "store"
    BY <1>7 DEF Request, Goto, TypeOK, Indexed
  <2>2. ids' = ids /\ todo' = todo /\ account' = account /\ account[r] \in Accounts
    BY <1>7 DEF Request, TypeOK
  <2>3. /\ next \in Cursor \cup {None}
        /\ DOMAIN Listing(r) = {t \in Transactions : /\ Listed(t) /\ AccountOf[t] = account[r]
                                                     /\ PageOf[t] = PageAt(cursor[r])}
        /\ \A t \in DOMAIN Listing(r) : Listing(r)[t] \in Prints /\ provided[t] # "gone"
    BY DEF NextCursor, Listing, Listed, Unlisted
  <2>4. page'[r].next = next /\ page'[r].items = Listing(r)
    BY <2>1
  <2>5. HasPage(r)' /\ PageIsCurrent(r)'
    BY <1>1, <2>2, <2>3, <2>4 DEF HasPage, PageIsCurrent
  <2>6. AtItsKind(r)' /\ NamesItsAccount(r)'
    BY <2>1, <2>2 DEF RunInv, AtItsKind, NamesItsAccount
  <2>7. ASSUME NEW t \in expected[r], Ahead(r, t), pc'[r] = "store"
        PROVE  Ahead(r, t)'
    <3>1. CASE AccountOf[t] \in todo[r]
      BY <2>2, <2>7, <3>1 DEF Ahead
    <3>2. CASE t \in DOMAIN Listing(r)
      BY <1>4, <2>2, <2>3, <2>4, <2>7, <3>2 DEF Ahead
    <3>3. CASE AccountOf[t] \notin todo[r] /\ t \notin DOMAIN Listing(r)
      <4>1. /\ AccountOf[t] = account[r] /\ PageOf[t] >= PageAt(cursor[r])
            /\ PageOf[t] \in 0..LastPage /\ PageAt(cursor[r]) \in Nat
        BY <1>1, <1>4, <2>7, <3>3 DEF Ahead, PageAt, TypeOK, Cursor
      <4>2. PageOf[t] # PageAt(cursor[r])
        BY <1>4, <2>3, <3>3, <4>1
      <4>3. PageAt(cursor[r]) < LastPage /\ PageOf[t] >= PageAt(cursor[r]) + 1
        BY <4>1, <4>2
      <4>4. next \notin requested'[r] \/ next = None
        BY <2>1, <2>7
      <4>5. next = PageAt(cursor[r]) + 1
        <5>1. next \in {PageAt(cursor[r]) + 1} \cup requested'[r] /\ next \in Cursor
          BY <4>3 DEF NextCursor
        <5>2. next # None
          BY <5>1 DEF Cursor
        <5>3. QED
          BY <4>4, <5>1, <5>2
      <4>6. next # None
        BY <4>1, <4>5
      <4>7. PageOf[t] >= next
        BY <4>3, <4>5
      <4>8. QED
        BY <2>2, <2>4, <2>7, <4>1, <4>6, <4>7 DEF Ahead
    <3>4. QED
      BY <3>1, <3>2, <3>3
  <2>8. Covers(r)'
    BY <1>1, <1>4, <2>1, <2>7 DEF RunInv, Covers, Listed
  <2>9. QED
    BY <1>3, <2>5, <2>6, <2>8 DEF RunInv
<1>8. QED
  BY <1>5, <1>6, <1>7 DEF Fetch

LEMMA ReadKeeps ==
  ASSUME TypeOK, Indexed, NEW r \in Runs, RunInv(r), Read(r)
  PROVE  RunInv(r)'
<1> USE DEF TypeOK, Indexed
<1>1. /\ pc[r] = "store" /\ pc'[r] \in {"write", "fail"} /\ rows' = rows
      /\ deletions' = deletions /\ provided' = provided /\ owed' = owed
      /\ expected' = expected /\ lock' = lock /\ ids' = ids /\ todo' = todo
      /\ account' = account /\ cursor' = cursor /\ page' = page
  BY DEF Read, providerVars, tableVars, Goto
<1>2. account[r] \in Accounts
  BY <1>1 DEF RunInv, AtItsKind
<1>3. AtItsKind(r)' /\ HasPage(r)' /\ HoldsLock(r)' /\ NamesItsAccount(r)'
      /\ HasYetToWrite(r)' /\ PageIsCurrent(r)'
  BY <1>1 DEF RunInv, AtItsKind, HasPage, HoldsLock, NamesItsAccount, HasYetToWrite,
              PageIsCurrent, Active
<1>4. HoldsAccount(r)'
  <2>1. pc'[r] = "write" => rowLock'[account[r]] = r /\ seen'[r] = rows
    BY <1>2 DEF Read, Goto
  <2>2. QED
    BY <1>1, <2>1 DEF HoldsAccount
<1>5. Covers(r)'
  <2>1. \A t \in Transactions : pc'[r] = "write" => (Ahead(r, t) => Ahead(r, t)')
    BY <1>1 DEF Ahead
  <2>2. QED
    BY <1>1, <2>1 DEF RunInv, Covers, Listed
<1>6. QED
  BY <1>3, <1>4, <1>5 DEF RunInv

LEMMA WriteKeeps ==
  ASSUME TypeOK, Indexed, \A s \in Runs : RunInv(s), [Next]_vars, NEW r \in Runs, Write(r)
  PROVE  RunInv(r)'
<1>0. \A t \in Transactions : t \in DOMAIN page[r].items => rows'[t].status = "LIVE"
  <2>1. RunInv(r)
    OBVIOUS
  <2>2. QED
    BY <2>1, WriteRow
<1> USE DEF TypeOK, Indexed
<1>1. /\ pc[r] = "write" /\ deletions' = deletions /\ provided' = provided /\ owed' = owed
      /\ expected' = expected /\ lock' = lock /\ ids' = ids /\ todo' = todo
      /\ account' = account
      /\ cursor'[r] = page[r].next
      /\ pc'[r] \in {Continue(r), "fail"}
  BY DEF Write, providerVars, Goto
<1>2. /\ page[r].next # None => Continue(r) = "fetch"
      /\ page[r].next = None =>
           Continue(r) = CASE KindOf[r] = "full" -> "account"
                           [] KindOf[r] = "deleted" -> "delete"
                           [] OTHER -> "complete"
  BY DEF Continue
<1>3. \/ pc'[r] = "fail"
      \/ pc'[r] = "fetch" /\ page[r].next # None
      \/ page[r].next = None /\ pc'[r] = "account" /\ KindOf[r] = "full"
      \/ page[r].next = None /\ pc'[r] = "delete" /\ KindOf[r] = "deleted"
      \/ page[r].next = None /\ pc'[r] = "complete" /\ KindOf[r] # "full"
  <2>1. CASE KindOf[r] = "full"
    BY <1>1, <1>2, <2>1
  <2>2. CASE KindOf[r] = "deleted"
    BY <1>1, <1>2, <2>2
  <2>3. CASE KindOf[r] \notin {"full", "deleted"}
    BY <1>1, <1>2, <2>3
  <2>4. QED
    BY <2>1, <2>2, <2>3
<1>4. RunInv(r)
  OBVIOUS
<1>5. AtItsKind(r)' /\ HasPage(r)' /\ HoldsLock(r)' /\ HoldsAccount(r)'
      /\ NamesItsAccount(r)' /\ PageIsCurrent(r)'
  BY <1>1, <1>3, <1>4 DEF RunInv, AtItsKind, HasPage, HoldsLock, HoldsAccount,
                          NamesItsAccount, PageIsCurrent, Active
<1>6. HasYetToWrite(r)'
  BY <1>1, <1>3, <1>4 DEF RunInv, HasYetToWrite
<1>7. Covers(r)'
  <2>1. \A t \in expected'[r] : t \in Transactions /\ Listed(t)'
    BY <1>1, <1>4 DEF RunInv, Covers, Listed
  <2>2. ASSUME NEW t \in expected[r], KindOf[r] = "full", pc'[r] # "fail"
        PROVE  rows'[t].status # "ABSENT" \/ Ahead(r, t)'
    <3>1. t \in Transactions /\ (rows[t].status # "ABSENT" \/ Ahead(r, t))
      BY <1>1, <1>4, <2>2 DEF RunInv, Covers
    <3>2. CASE rows[t].status # "ABSENT"
      BY <3>1, <3>2, TableGrows
    <3>3. CASE t \in DOMAIN page[r].items
      <4>1. rows'[t].status = "LIVE"
        BY <1>0, <3>1, <3>3
      <4>2. QED
        BY <4>1
    <3>4. CASE AccountOf[t] \in todo[r]
      BY <1>1, <1>3, <2>2, <3>4 DEF Ahead
    <3>5. CASE /\ AccountOf[t] = account[r] /\ page[r].next # None
               /\ PageOf[t] >= page[r].next
      BY <1>1, <1>3, <2>2, <3>5 DEF Ahead, PageAt
    <3>6. QED
      BY <1>1, <3>1, <3>2, <3>3, <3>4, <3>5 DEF Ahead
  <2>3. QED
    BY <1>1, <2>1, <2>2 DEF Covers
<1>8. QED
  BY <1>5, <1>6, <1>7 DEF RunInv

LEMMA CompleteAccountKeeps ==
  ASSUME TypeOK, Indexed, NEW r \in Runs, RunInv(r), CompleteAccount(r)
  PROVE  RunInv(r)'
<1> USE DEF TypeOK
<1>1. /\ pc[r] = "account" /\ pc'[r] \in {"fetch", "fail"} /\ rows' = rows
      /\ deletions' = deletions /\ provided' = provided /\ owed' = owed
      /\ expected' = expected /\ lock' = lock /\ ids' = ids /\ todo' = todo
      /\ account'[r] = None
  BY DEF CompleteAccount, providerVars, tableVars, lockVars, Goto
<1>2. KindOf[r] = "full"
  BY <1>1 DEF RunInv, AtItsKind
<1>3. ids[r] = {}
  BY <1>2 DEF RunInv, NamesItsAccount
<1>4. AtItsKind(r)' /\ HasPage(r)' /\ HoldsLock(r)' /\ HoldsAccount(r)'
      /\ NamesItsAccount(r)' /\ HasYetToWrite(r)' /\ PageIsCurrent(r)'
  BY <1>1, <1>2, <1>3 DEF RunInv, AtItsKind, HasPage, HoldsLock, HoldsAccount,
       NamesItsAccount, HasYetToWrite, PageIsCurrent, Active
<1>5. Covers(r)'
  <2>1. \A t \in Transactions : Ahead(r, t) => Ahead(r, t)'
    BY <1>1 DEF Ahead
  <2>2. QED
    BY <1>1, <2>1 DEF RunInv, Covers, Listed
<1>6. QED
  BY <1>4, <1>5 DEF RunInv

LEMMA DeleteKeeps ==
  ASSUME TypeOK, Indexed, NEW r \in Runs, RunInv(r), Delete(r)
  PROVE  RunInv(r)'
<1> USE DEF TypeOK
<1>1. /\ pc[r] = "delete" /\ pc'[r] \in {"complete", "fail"}
      /\ provided' = provided /\ expected' = expected /\ lock' = lock
      /\ ids' = ids /\ todo' = todo /\ account' = account
  BY DEF Delete, localVars, lockVars, Goto
<1>2. KindOf[r] = "deleted"
  BY <1>1 DEF RunInv, AtItsKind
<1>3. QED
  BY <1>1, <1>2 DEF RunInv, AtItsKind, HasPage, HoldsLock, HoldsAccount,
       NamesItsAccount, HasYetToWrite, PageIsCurrent, Covers, Listed, Active

\* Every step keeps what each run knows.
LEMMA RunsKeep ==
  ASSUME TypeOK, Indexed, \A r \in Runs : RunInv(r), [Next]_vars
  PROVE  \A r \in Runs : RunInv(r)'
<1>1. CASE UNCHANGED vars
  BY <1>1 DEF vars, providerVars, tableVars, localVars, lockVars, RunInv, AtItsKind,
       HasPage, HoldsLock, Active, HoldsAccount, NamesItsAccount, HasYetToWrite, Covers,
       Ahead, Listed, PageIsCurrent
<1>2. ASSUME NEW t \in Transactions, ProviderLists(t) \/ ProviderRemoves(t)
      PROVE  \A r \in Runs : RunInv(r)'
  BY <1>2, ProviderKeeps
<1>3. ASSUME NEW r \in Runs, RunStep(r)
      PROVE  RunInv(r)'
  <2>1. RunInv(r)
    OBVIOUS
  <2>2. QED
    BY <1>3, <2>1, StartKeeps, FetchKeeps, ReadKeeps, WriteKeeps, CompleteAccountKeeps,
       DeleteKeeps, LeaveKeeps DEF RunStep
<1>4. ASSUME NEW r \in Runs, RunStep(r)
      PROVE  \A s \in Runs : RunInv(s)'
  BY <1>3, <1>4, OthersKeep
<1>5. QED
  BY <1>1, <1>2, <1>4 DEF Next, RunStep

-----------------------------------------------------------------------------
(* The properties.                                                          *)

\* A run succeeds only where it completes, and what it had to find does not grow.
LEMMA WhoSucceeds ==
  ASSUME TypeOK, Indexed, [Next]_vars, NEW s \in Runs, run'[s].status = "SUCCEEDED"
  PROVE  \/ pc[s] = "complete" /\ expected'[s] = expected[s]
         \/ run[s].status = "SUCCEEDED" /\ expected'[s] \subseteq expected[s]
<1> USE DEF TypeOK, Indexed, providerVars, tableVars
<1>1. CASE UNCHANGED vars
  BY <1>1 DEF vars
<1>2. ASSUME NEW t \in Transactions, ProviderLists(t) \/ ProviderRemoves(t)
      PROVE  run[s].status = "SUCCEEDED" /\ expected'[s] \subseteq expected[s]
  BY <1>2 DEF ProviderLists, ProviderRemoves
<1>3. ASSUME NEW r \in Runs, Start(r)
      PROVE  run[s].status = "SUCCEEDED" /\ expected'[s] \subseteq expected[s]
  <2>1. run'[r].status = "RUNNING"
    BY <1>3 DEF Start
  <2>2. s # r
    BY <2>1
  <2>3. run'[s] = run[s] /\ expected'[s] = expected[s]
    BY <1>3, <2>2 DEF Start
  <2>4. QED
    BY <2>3
<1>4. ASSUME NEW r \in Runs, Fetch(r) \/ Read(r) \/ CompleteAccount(r) \/ Detect(r)
                             \/ Fails(r) \/ Dies(r)
      PROVE  run[s].status = "SUCCEEDED" /\ expected'[s] \subseteq expected[s]
  BY <1>4 DEF Fetch, Read, CompleteAccount, Detect, Fails, Dies
<1>5. ASSUME NEW r \in Runs, Write(r) \/ Delete(r)
      PROVE  run[s].status = "SUCCEEDED" /\ expected'[s] \subseteq expected[s]
  <2>1. /\ expected' = expected
        /\ \E i, u, d, n : Counted(r, i, u, d, n)
    BY <1>5 DEF Write, Delete
  <2>2. run'[s].status = run[s].status
    BY <2>1 DEF Counted
  <2>3. QED
    BY <2>1, <2>2
<1>6. ASSUME NEW r \in Runs, CompleteSync(r)
      PROVE  \/ pc[s] = "complete" /\ expected'[s] = expected[s]
             \/ run[s].status = "SUCCEEDED" /\ expected'[s] \subseteq expected[s]
  <2>1. expected' = expected /\ pc[r] = "complete" /\ (s # r => run'[s] = run[s])
    BY <1>6 DEF CompleteSync
  <2>2. QED
    BY <2>1
<1>7. ASSUME NEW r \in Runs, FailSync(r)
      PROVE  run[s].status = "SUCCEEDED" /\ expected'[s] \subseteq expected[s]
  <2>1. /\ expected' = expected
        /\ run' = IF run[r].status = "RUNNING" THEN [run EXCEPT ![r].status = "FAILED"]
                  ELSE run
    BY <1>7 DEF FailSync
  <2>2. CASE run' = run
    BY <2>1, <2>2
  <2>3. CASE run' = [run EXCEPT ![r].status = "FAILED"]
    <3>1. run'[r].status = "FAILED"
      BY <2>3
    <3>2. s # r /\ run'[s] = run[s]
      BY <2>3, <3>1
    <3>3. QED
      BY <2>1, <3>2
  <2>4. QED
    BY <2>1, <2>2, <2>3
<1>8. QED
  BY <1>1, <1>2, <1>3, <1>4, <1>5, <1>6, <1>7 DEF Next

LEMMA SucceededKeeps ==
  ASSUME TypeOK, Indexed, SucceededIsComplete, \A r \in Runs : RunInv(r), [Next]_vars
  PROVE  SucceededIsComplete'
<1>1. SUFFICES ASSUME NEW s \in Runs, KindOf[s] = "full", run'[s].status = "SUCCEEDED",
                      NEW t \in expected'[s]
      PROVE  rows'[t].status # "ABSENT"
  BY DEF SucceededIsComplete
<1>2. RunInv(s)
  OBVIOUS
<1>3. t \in Transactions /\ t \in expected[s]
  BY <1>1, <1>2, WhoSucceeds DEF RunInv, Covers
<1>4. CASE pc[s] = "complete" /\ expected'[s] = expected[s]
  <2>1. ~Ahead(s, t)
    BY <1>4 DEF Ahead
  <2>2. rows[t].status # "ABSENT"
    BY <1>1, <1>2, <1>3, <1>4, <2>1 DEF RunInv, Covers
  <2>3. QED
    BY <1>3, <2>2, TableGrows
<1>5. CASE run[s].status = "SUCCEEDED"
  BY <1>1, <1>3, <1>5, TableGrows DEF SucceededIsComplete
<1>6. QED
  BY <1>1, <1>4, <1>5, WhoSucceeds

\* Two rows that a page gives one print find one another, in either order, when one of
\* them is new: the later of two new ones finds the earlier.
LEMMA PageMarksDuplicates ==
  ASSUME TypeOK, NEW r \in Runs, RunInv(r), pc[r] = "write",
         NEW order \in Injection(DOMAIN page[r].items, 1..Cardinality(DOMAIN page[r].items)),
         NEW u \in New(r), NEW t \in Transactions, t # u, AccountOf[t] = AccountOf[u],
         rows[t].status # "ABSENT" \/ t \in DOMAIN page[r].items,
         (t \in DOMAIN page[r].items /\ t \notin New(r)) => rows[t].print = page[r].items[t],
         page[r].items[u] = IF t \in DOMAIN page[r].items THEN page[r].items[t]
                            ELSE rows[t].print
  PROVE  /\ Stored(r, order)[t].review = "POSSIBLE"
         /\ Stored(r, order)[u].review = "POSSIBLE"
<1> DEFINE items == page[r].items
<1>1. HasPage(r) /\ HoldsAccount(r)
  BY DEF RunInv
<1>2. /\ u \in DOMAIN items /\ u \in Transactions
      /\ AccountOf[u] = account[r] /\ seen[r][t] = rows[t]
  BY <1>1 DEF New, HasPage, HoldsAccount
<1>3. IsFiniteSet(DOMAIN items) /\ Cardinality(DOMAIN items) \in Nat
  BY <1>1, PageIsFinite, ProviderAssumption, FS_Subset DEF HasPage, ProviderAssumption
<1>4. ASSUME NEW v \in DOMAIN items, v # u
      PROVE  order[v] \in Int /\ order[u] \in Int /\ order[v] # order[u]
  BY <1>2, <1>3, <1>4 DEF Injection, IsInjective
<1>5. CASE t \in Collisions(r, order, u)
  <2>1. Collisions(r, order, u) # {}
    BY <1>5
  <2>2. QED
    BY <1>1, <1>2, <1>5, <2>1, StoredRow
<1>6. CASE t \notin Collisions(r, order, u)
  <2>1. t \in DOMAIN items /\ ~(order[t] < order[u])
    BY <1>2, <1>6 DEF Collisions
  <2>2. t \in New(r)
    BY <1>2, <1>6, <2>1 DEF Collisions, New
  <2>3. order[u] < order[t]
    BY <1>4, <2>1
  <2>4. u \in Collisions(r, order, t)
    BY <1>2, <2>1, <2>3 DEF Collisions
  <2>5. Collisions(r, order, t) # {}
    BY <2>4
  <2>6. QED
    BY <1>1, <1>2, <2>2, <2>4, <2>5, StoredRow
<1>7. QED
  BY <1>5, <1>6

LEMMA DuplicatesKeep ==
  ASSUME TypeOK, DuplicatesMarked, \A r \in Runs : RunInv(r), [Next]_vars
  PROVE  DuplicatesMarked'
<1> DEFINE Twins(t, u) ==
      /\ t # u /\ AccountOf[t] = AccountOf[u]
      /\ rows[t].status # "ABSENT" /\ rows[u].status # "ABSENT"
      /\ rows[t].print = rows[u].print
<1>1. ASSUME NEW t \in Transactions \ moved', NEW u \in Transactions \ moved',
             (\A v \in {t, u} : /\ v \notin moved /\ rows'[v].print = rows[v].print
                                /\ rows'[v].status = "ABSENT" <=> rows[v].status = "ABSENT"
                                /\ rows[v].review = "POSSIBLE" => rows'[v].review = "POSSIBLE"),
             Twins(t, u)'
      PROVE  rows'[t].review = "POSSIBLE" /\ rows'[u].review = "POSSIBLE"
  BY <1>1 DEF DuplicatesMarked
<1>2. CASE rows' = rows /\ moved' = moved
  BY <1>2 DEF DuplicatesMarked
<1>3. ASSUME NEW r \in Runs, Delete(r)
      PROVE  DuplicatesMarked'
  <2>1. moved' = moved
    BY <1>3 DEF Delete
  <2>2. \A v \in Transactions : /\ rows'[v].print = rows[v].print
                                /\ rows'[v].review = rows[v].review
                                /\ rows'[v].status = "ABSENT" <=> rows[v].status = "ABSENT"
    BY <1>3, DeleteRow
  <2>3. QED
    BY <2>1, <2>2 DEF DuplicatesMarked
<1>4. ASSUME NEW r \in Runs, Write(r)
      PROVE  DuplicatesMarked'
  <2> DEFINE items == page[r].items
  <2>1. /\ RunInv(r) /\ HasPage(r) /\ HoldsAccount(r) /\ pc[r] = "write"
    BY <1>4 DEF RunInv, Write
  <2>2. PICK order \in Injection(DOMAIN items, 1..Cardinality(DOMAIN items)) :
          rows' = Stored(r, order)
    BY <1>4 DEF Write
  <2>3. moved' = moved \cup {t \in Changed(r) : seen[r][t].print # items[t]}
    BY <1>4 DEF Write
  <2>4. \A t \in Transactions :
          /\ rows[t].review = "POSSIBLE" => rows'[t].review = "POSSIBLE"
          /\ t \in New(r) <=> (t \in DOMAIN items /\ rows[t].status = "ABSENT")
          /\ t \in DOMAIN items => rows'[t].status = "LIVE" /\ rows'[t].print = items[t]
          /\ t \notin DOMAIN items => /\ rows'[t].status = rows[t].status
                                      /\ rows'[t].print = rows[t].print
    BY <1>4, <2>1, WriteRow
  <2>5. ASSUME NEW t \in Transactions \ moved', t \in DOMAIN items, t \notin New(r)
        PROVE  rows[t].print = items[t] /\ rows[t].status # "ABSENT"
    <3>1. seen[r][t] = rows[t]
      BY <2>1, <2>5 DEF HasPage, HoldsAccount
    <3>2. seen[r][t].print = items[t]
      BY <2>3, <2>5 DEF Changed
    <3>3. QED
      BY <2>4, <2>5, <3>1, <3>2
  <2>6. ASSUME NEW t \in Transactions \ moved', NEW u \in Transactions \ moved',
               Twins(t, u)', u \in New(r)
        PROVE  rows'[t].review = "POSSIBLE" /\ rows'[u].review = "POSSIBLE"
    <3>1. rows[t].status # "ABSENT" \/ t \in DOMAIN items
      BY <2>4, <2>6
    <3>2. t \in DOMAIN items /\ t \notin New(r) => rows[t].print = items[t]
      BY <2>5
    <3>3. items[u] = IF t \in DOMAIN items THEN items[t] ELSE rows[t].print
      BY <2>4, <2>6
    <3>4. QED
      BY <2>1, <2>2, <2>6, <3>1, <3>2, <3>3, PageMarksDuplicates
  <2>7. ASSUME NEW t \in Transactions \ moved', NEW u \in Transactions \ moved',
               Twins(t, u)'
        PROVE  rows'[t].review = "POSSIBLE" /\ rows'[u].review = "POSSIBLE"
    <3>1. CASE u \in New(r) \/ t \in New(r)
      BY <2>6, <2>7, <3>1
    <3>2. CASE u \notin New(r) /\ t \notin New(r)
      <4>1. \A v \in {t, u} : /\ v \notin moved /\ rows'[v].print = rows[v].print
                              /\ rows'[v].status = "ABSENT" <=> rows[v].status = "ABSENT"
        BY <2>3, <2>4, <2>5, <3>2
      <4>2. QED
        BY <1>1, <2>4, <2>7, <4>1
    <3>3. QED
      BY <3>1, <3>2
  <2>8. QED
    BY <2>7 DEF DuplicatesMarked
<1>5. (rows' = rows /\ moved' = moved) \/ \E r \in Runs : Write(r) \/ Delete(r)
  BY DEF Next, vars, tableVars, ProviderLists, ProviderRemoves, Start, Fetch, Read,
         CompleteAccount, CompleteSync, FailSync, Detect, Fails, Dies
<1>6. QED
  BY <1>2, <1>3, <1>4, <1>5

LEMMA DeletionsKeep ==
  ASSUME TypeOK, DeletionsHoldUnderLock, \A r \in Runs : RunInv(r), [Next]_vars
  PROVE  DeletionsHoldUnderLock'
<1>1. CASE provided' = provided /\ owed' = owed /\ rows' = rows
  BY <1>1 DEF DeletionsHoldUnderLock
<1>2. ASSUME NEW t \in Transactions, ProviderLists(t) \/ ProviderRemoves(t)
      PROVE  DeletionsHoldUnderLock'
  <2>1. rows' = rows
    BY <1>2 DEF ProviderLists, ProviderRemoves, tableVars
  <2>2. \A u \in Transactions :
          (provided'[u] = "gone" /\ u \notin owed') => (provided[u] = "gone" /\ u \notin owed)
    BY <1>2, DistinctAssumption
       DEF ProviderLists, ProviderRemoves, TypeOK, DistinctAssumption, Unlisted
  <2>3. QED
    BY <2>1, <2>2 DEF DeletionsHoldUnderLock
<1>3. ASSUME NEW r \in Runs, Write(r)
      PROVE  DeletionsHoldUnderLock'
  <2>1. RunInv(r) /\ pc[r] = "write" /\ provided' = provided /\ owed' = owed
    BY <1>3 DEF Write, providerVars
  <2>2. \A t \in Transactions :
          /\ t \in DOMAIN page[r].items => rows'[t].writer = r
          /\ t \notin DOMAIN page[r].items => /\ rows'[t].status = rows[t].status
                                              /\ rows'[t].writer = rows[t].writer
    BY <1>3, <2>1, WriteRow
  <2>3. r \in Locking => \A t \in DOMAIN page[r].items : provided[t] = "gone" => t \in owed
    BY <2>1 DEF RunInv, PageIsCurrent
  <2>4. QED
    BY <2>1, <2>2, <2>3 DEF DeletionsHoldUnderLock
<1>4. ASSUME NEW r \in Runs, Delete(r)
      PROVE  DeletionsHoldUnderLock'
  <2>1. provided' = provided /\ owed' = owed \ ids[r]
    BY <1>4 DEF Delete
  <2>2. \A t \in Transactions :
          rows'[t].status = "LIVE" => rows'[t] = rows[t] /\ t \notin ids[r]
    BY <1>4, DeleteRow
  <2>3. QED
    BY <2>1, <2>2 DEF DeletionsHoldUnderLock
<1>5. \/ provided' = provided /\ owed' = owed /\ rows' = rows
      \/ \E t \in Transactions : ProviderLists(t) \/ ProviderRemoves(t)
      \/ \E r \in Runs : Write(r) \/ Delete(r)
  BY DEF Next, vars, tableVars, providerVars, Start, Fetch, Read,
         CompleteAccount, CompleteSync, FailSync, Detect, Fails, Dies
<1>6. QED
  BY <1>1, <1>2, <1>3, <1>4, <1>5

LEMMA InitHolds ==
  ASSUME Init
  PROVE  ImportInv /\ Indexed
<1> USE DEF Init
<1>1. Zero \in Counters
  BY CountIsBounded, FS_EmptySet DEF Zero, Counters
<1>2. TypeOK
  <2>1. rows \in [Transactions -> Row]
    BY DEF Row
  <2>2. run \in [Runs -> [status : RunStatus, count : Counters]]
    BY <1>1 DEF RunStatus
  <2>3. QED
    BY <2>1, <2>2 DEF TypeOK, Unlisted, Place
<1>3. CountersAddUp
  <2>1. /\ \A t \in Transactions : rows[t].status = "ABSENT" /\ rows[t].inserter = None
        /\ \A r \in Runs : run[r].count = Zero
        /\ deletions = {}
    OBVIOUS
  <2>2. \A r \in Runs : /\ {t \in Transactions : rows[t].inserter = r} = {}
                        /\ {t \in Transactions : <<t, r>> \in deletions} = {}
    BY <2>1, DistinctAssumption DEF DistinctAssumption
  <2>3. QED
    BY <2>1, <2>2, FS_EmptySet DEF CountersAddUp, Zero
<1>4. SucceededIsComplete
  BY DEF SucceededIsComplete
<1>5. DuplicatesMarked /\ DeletionsHoldUnderLock
  BY DEF DuplicatesMarked, DeletionsHoldUnderLock
<1>6. \A r \in Runs : RunInv(r)
  BY DistinctAssumption
     DEF DistinctAssumption, RunInv, AtItsKind, HasPage, HoldsLock, Active, HoldsAccount,
         NamesItsAccount, HasYetToWrite, Covers, PageIsCurrent
<1>7. QED
  BY <1>2, <1>3, <1>4, <1>5, <1>6 DEF ImportInv, RunsAreHonest, Indexed

LEMMA StepHolds ==
  ASSUME ImportInv, Indexed, [Next]_vars
  PROVE  ImportInv' /\ Indexed'
<1>1. /\ TypeOK /\ CountersAddUp /\ SucceededIsComplete /\ DuplicatesMarked
      /\ DeletionsHoldUnderLock /\ \A r \in Runs : RunInv(r)
  BY DEF ImportInv, RunsAreHonest
<1>2. CountersAddUp'
  BY <1>1, CountersKeep
<1>3. TypeOK'
  BY <1>1, <1>2, TypeKeeps
<1>4. QED
  BY <1>1, <1>2, <1>3, SucceededKeeps, DuplicatesKeep, DeletionsKeep, RunsKeep, IndexedKeeps
     DEF ImportInv, RunsAreHonest

LEMMA InvariantHolds == Spec => [](ImportInv /\ Indexed)
<1>1. ImportInv /\ Indexed /\ [Next]_vars => (ImportInv /\ Indexed)'
  BY StepHolds
<1>2. QED
  BY <1>1, InitHolds, PTL DEF Spec

\* What importTransactions() and processTransactionEvent() report is what happened, for
\* any pages, cursors, limits and faults: a run counts the rows it inserted and the
\* deletions it wrote, and a full run that succeeded stored all it had to find.
THEOREM HonestRuns == Spec => []RunsAreHonest
<1>1. ImportInv => RunsAreHonest
  BY DEF ImportInv
<1>2. QED
  BY <1>1, InvariantHolds, PTL

\* importPage() marks the rows of one fingerprint for review, however the pages of any
\* number of runs are interleaved: the lock of the account orders them.
THEOREM MarksDuplicates == Spec => []DuplicatesMarked
<1>1. ImportInv => DuplicatesMarked
  BY DEF ImportInv
<1>2. QED
  BY <1>1, InvariantHolds, PTL

\* No run under the connection's lock shows a transaction again whose deletion has been
\* applied, while the provider does not list it.
THEOREM DeletionsHold == Spec => []DeletionsHoldUnderLock
<1>1. ImportInv => DeletionsHoldUnderLock
  BY DEF ImportInv
<1>2. QED
  BY <1>1, InvariantHolds, PTL

================================================================================
