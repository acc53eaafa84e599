---------------------------- MODULE AccountHistory ----------------------------
(***************************************************************************)
(* The accounts of the provider connections: importAccounts(), which reads  *)
(* the connection, asks the provider and writes, and the bounds of the      *)
(* history that pages and completed accounts record.                        *)
(*                                                                         *)
(* The provider is external: it lists each account, with its content, under *)
(* one connection, and may move it (the owner reconnects a bank).  Nothing  *)
(* here takes the connection's advisory lock: the full-import command does  *)
(* not.  Connections are closed by the synchronization in ConnectionSync.   *)
(* Which transactions a page stores is in TransactionImport; here a page is *)
(* its earliest and latest day.                                             *)
(***************************************************************************)
EXTENDS Integers, FiniteSets, FiniteSetsExt

CONSTANTS
    Connections, Accounts, Contents,
    ConnectionOf,  \* the connection each import and each sync run is for
    Imports,       \* executions of importAccounts()
    Runs,          \* running sync runs, which store pages
    LastDay,       \* bound: days are 0..LastDay
    Window,        \* the documented maximum of history, 12 months
    None,
    MaxChanges     \* bound: changes at the provider and closings

Day == 0..LastDay
Coverage == {"UNKNOWN", "PARTIAL", "PROVIDER_MAXIMUM_RETRIEVED", "USER_EXTENDED_HISTORY"}

VARIABLES
    provided,   \* each account at the provider: its connection and content
    closed,     \* connections DELETED or DISABLED locally
    accounts,   \* financial_account, None while absent
    snapshots,  \* raw objects stored for each account
    listing,    \* each import: what the provider answered, None before and after
    place,      \* each import: begin, list, write, over
    days,       \* days of the pages stored for each account
    changes

vars == <<provided, closed, accounts, snapshots, listing, place, days, changes>>

Account == [connection : Connections, content : Contents,
            earliest : Day \cup {None}, latest : Day \cup {None}, coverage : Coverage]

\* Accounts, listings and days keep their types; the bounds pass the table's check.
TypeOK ==
    /\ provided \in [Accounts -> Connections \X Contents]
    /\ closed \subseteq Connections
    /\ accounts \in [Accounts -> Account \cup {None}]
    /\ \A a \in Accounts : accounts[a] # None =>
         (accounts[a].earliest # None => accounts[a].earliest <= accounts[a].latest)
    /\ snapshots \in [Accounts -> Nat]
    /\ place \in [Imports -> {"begin", "list", "write", "over"}]
    /\ days \in [Accounts -> SUBSET Day]

Init ==
    /\ provided \in [Accounts -> Connections \X {CHOOSE c \in Contents : TRUE}]
    /\ closed = {}
    /\ accounts = [a \in Accounts |-> None]
    /\ snapshots = [a \in Accounts |-> 0]
    /\ listing = [i \in Imports |-> None]
    /\ place = [i \in Imports |-> "begin"]
    /\ days = [a \in Accounts |-> {}]
    /\ changes = 0

Change == changes < MaxChanges /\ changes' = changes + 1

\* The provider changes an account or lists it under another connection.
ProviderChanges(a) ==
    /\ Change
    /\ \E p \in (Connections \X Contents) \ {provided[a]} :
         provided' = [provided EXCEPT ![a] = p]
    /\ UNCHANGED <<closed, accounts, snapshots, listing, place, days>>

\* The local status becomes DELETED or DISABLED.
Close(c) ==
    /\ Change
    /\ c \notin closed
    /\ closed' = closed \cup {c}
    /\ UNCHANGED <<provided, accounts, snapshots, listing, place, days>>

-----------------------------------------------------------------------------
(* importAccounts(): a read, the provider's answer, one transaction.        *)

ReadTarget(i) ==
    /\ place[i] = "begin"
    /\ place' = [place EXCEPT ![i] = IF ConnectionOf[i] \in closed THEN "over" ELSE "list"]
    /\ UNCHANGED <<provided, closed, accounts, snapshots, listing, days, changes>>

ListAccounts(i) ==
    /\ place[i] = "list"
    /\ place' = [place EXCEPT ![i] = "write"]
    /\ listing' = [listing EXCEPT ![i] =
         [a \in {a \in Accounts : provided[a][1] = ConnectionOf[i]} |-> provided[a][2]]]
    /\ UNCHANGED <<provided, closed, accounts, snapshots, days, changes>>

\* Mutant: the status is checked only before the provider is asked.
MutTargetAvailable(i) == TRUE

TargetAvailable(i) == ConnectionOf[i] \notin closed

\* The row an import writes; the history of a known account is kept.
Upserted(a, i) ==
    IF accounts[a] = None
      THEN [connection |-> ConnectionOf[i], content |-> listing[i][a], earliest |-> None,
            latest |-> None, coverage |-> "UNKNOWN"]
      ELSE [accounts[a] EXCEPT !.connection = ConnectionOf[i], !.content = listing[i][a]]

\* A raw object is stored when the content differs from the latest one.
IsNews(a, i) == accounts[a] = None \/ accounts[a].content # listing[i][a]

WriteAccounts(i) ==
    /\ place[i] = "write"
    /\ IF TargetAvailable(i)
         THEN /\ accounts' = [a \in Accounts |-> IF a \in DOMAIN listing[i] THEN Upserted(a, i)
                                                ELSE accounts[a]]
              /\ snapshots' = [a \in Accounts |->
                   snapshots[a] + (IF a \in DOMAIN listing[i] /\ IsNews(a, i) THEN 1 ELSE 0)]
         ELSE UNCHANGED <<accounts, snapshots>>
    /\ place' = [place EXCEPT ![i] = "over"]
    /\ listing' = [listing EXCEPT ![i] = None]
    /\ UNCHANGED <<provided, closed, days, changes>>

-----------------------------------------------------------------------------
(* The history of an account.                                               *)

\* The account a run may write belongs to the run's connection.
Owns(r, a) == accounts[a] # None /\ accounts[a].connection = ConnectionOf[r]

\* Mutant: greatest and least are swapped.
MutWidened(row, first, last) ==
    [row EXCEPT !.earliest = IF row.earliest = None THEN first ELSE Max({row.earliest, first}),
                !.latest = IF row.latest = None THEN last ELSE Min({row.latest, last})]

Widened(row, first, last) ==
    [row EXCEPT !.earliest = IF row.earliest = None THEN first ELSE Min({row.earliest, first}),
                !.latest = IF row.latest = None THEN last ELSE Max({row.latest, last})]

\* importPage(), of the days of its transactions.
StorePage(r, a) ==
    /\ Owns(r, a)
    /\ \E first \in Day : \E last \in first..LastDay :
         /\ accounts' = [accounts EXCEPT ![a] = Widened(accounts[a], first, last)]
         /\ days' = [days EXCEPT ![a] = days[a] \cup {first, last}]
    /\ UNCHANGED <<provided, closed, snapshots, listing, place, changes>>

ReachedProviderMaximum(row) ==
    row.earliest # None /\ row.earliest <= row.latest - Window

\* completeAccount().
CompleteAccount(r, a) ==
    /\ Owns(r, a)
    /\ accounts' = [accounts EXCEPT ![a].coverage =
         IF accounts[a].coverage = "USER_EXTENDED_HISTORY" THEN "USER_EXTENDED_HISTORY"
         ELSE IF ReachedProviderMaximum(accounts[a]) THEN "PROVIDER_MAXIMUM_RETRIEVED"
         ELSE "PARTIAL"]
    /\ UNCHANGED <<provided, closed, snapshots, listing, place, days, changes>>

\* getForRange(): a range is warned about unless it starts in the known history.
Warned(a, from) == accounts[a].earliest # None => from < accounts[a].earliest

Next ==
    \/ \E a \in Accounts : ProviderChanges(a)
    \/ \E c \in Connections : Close(c)
    \/ \E i \in Imports : ReadTarget(i) \/ ListAccounts(i) \/ WriteAccounts(i)
    \/ \E r \in Runs, a \in Accounts : StorePage(r, a) \/ CompleteAccount(r, a)

Spec == Init /\ [][Next]_vars

-----------------------------------------------------------------------------
(* Properties.                                                              *)

ConnectionNow(a) == IF accounts[a] = None THEN None ELSE accounts[a].connection

\* An account never comes to belong to a closed connection: an import that asked
\* the provider before the connection was closed writes nothing after it.
AccountsStayOpen ==
    [][\A x \in Accounts :
         ConnectionNow(x)' # ConnectionNow(x) => ConnectionNow(x)' \notin closed]_vars

\* The recorded bounds are those of everything stored for the account, through every
\* page, re-import and move between connections: a range without a warning starts no
\* earlier than some stored day, and a maximal history spans the window.
CoverageIsObserved ==
    \A a \in Accounts :
      accounts[a] # None =>
        /\ \A from \in Day : ~Warned(a, from) <=> \E d \in days[a] : d <= from
        /\ accounts[a].coverage = "PROVIDER_MAXIMUM_RETRIEVED"
             => \E d, e \in days[a] : e - d >= Window
=============================================================================
