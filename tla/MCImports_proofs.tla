--------------------------- MODULE MCImports_proofs ---------------------------
(***************************************************************************)
(* What the parts of MCImports promise, for any constants.  HistoryInv says *)
(* what the bounds of an account's history have to do with what is stored,  *)
(* BillInv what a page and a review that are under way may rely on, and     *)
(* RuleInv that hits are decisions; LoopInv is the invariant of the loop    *)
(* that evaluates rules.                                                    *)
(***************************************************************************)
EXTENDS MCImports, FiniteFacts, FiniteSetTheorems, SequenceTheorems, TLAPS

-----------------------------------------------------------------------------
(***************************************************************************)
(* Accounts and their history.  A page and a move between connections touch *)
(* different fields of the same row, and days are only ever added to.       *)
(***************************************************************************)

\* An import about to write has a listing of accounts.
ListingKnown(i) ==
    place[i] = "write" =>
      DOMAIN listing[i] \subseteq Accounts /\ \A x \in DOMAIN listing[i] : listing[i][x] \in Snapshots

\* The bounds are days on which something is stored, and nothing is stored outside;
\* an account that claims the maximum spans the window.
Observed(x) ==
    IF accounts[x] = None THEN days[x] = {}
    ELSE LET row == accounts[x]
         IN /\ days[x] = {} <=> row.earliest = None
            /\ row.earliest = None <=> row.latest = None
            /\ row.earliest # None =>
                 /\ {row.earliest, row.latest} \subseteq days[x]
                 /\ \A d \in days[x] : row.earliest <= d /\ d <= row.latest
            /\ row.coverage = "PROVIDER_MAXIMUM_RETRIEVED" => Ac!ReachedProviderMaximum(row)

HistoryInv ==
    /\ Ac!TypeOK
    /\ DOMAIN listing = Imports
    /\ \A i \in Imports : ListingKnown(i)
    /\ \A x \in Accounts : Observed(x)

-----------------------------------------------------------------------------
\* The least and the greatest of two integers.
LEMMA Bounds ==
  ASSUME NEW m \in Int, NEW n \in Int
  PROVE  /\ Ac!Min({m, n}) \in {m, n} /\ Ac!Min({m, n}) <= m /\ Ac!Min({m, n}) <= n
         /\ Ac!Max({m, n}) \in {m, n} /\ Ac!Max({m, n}) >= m /\ Ac!Max({m, n}) >= n
<1>1. CASE m <= n
  <2>1. m \in {m, n} /\ \A k \in {m, n} : m <= k
    BY <1>1
  <2>2. n \in {m, n} /\ \A k \in {m, n} : n >= k
    BY <1>1
  <2> QED
    BY <2>1, <2>2 DEF Ac!Min, Ac!Max
<1>2. CASE ~(m <= n)
  <2>1. n \in {m, n} /\ \A k \in {m, n} : n <= k
    BY <1>2
  <2>2. m \in {m, n} /\ \A k \in {m, n} : m >= k
    BY <1>2
  <2> QED
    BY <2>1, <2>2 DEF Ac!Min, Ac!Max
<1> QED
  BY <1>1, <1>2

\* HistoryInv says that the bounds are observed.
LEMMA HistoryInvSuffices == HistoryInv => Ac!TypeOK /\ Ac!CoverageIsObserved
<1> SUFFICES ASSUME HistoryInv, NEW x \in Accounts, accounts[x] # None
             PROVE  /\ \A from \in Ac!Day : ~Ac!Warned(x, from) <=> \E d \in days[x] : d <= from
                    /\ accounts[x].coverage = "PROVIDER_MAXIMUM_RETRIEVED"
                         => \E d, e \in days[x] : e - d >= Window
  BY DEF HistoryInv, Ac!CoverageIsObserved
<1>1. Observed(x) /\ days[x] \subseteq Ac!Day /\ Ac!Day \subseteq Int
  BY HistoryAssumption DEF HistoryInv, Ac!TypeOK, Ac!Day
<1>2. ASSUME NEW from \in Ac!Day
      PROVE  ~Ac!Warned(x, from) <=> \E d \in days[x] : d <= from
  <2>1. CASE accounts[x].earliest = None
    BY <1>1, <2>1 DEF Observed, Ac!Warned
  <2>2. CASE accounts[x].earliest # None
    <3>1. /\ accounts[x].earliest \in days[x] /\ accounts[x].earliest \in Int /\ from \in Int
          /\ \A d \in days[x] : d \in Int /\ accounts[x].earliest <= d
      BY <1>1, <2>2 DEF Observed
    <3> QED
      BY <2>2, <3>1 DEF Ac!Warned
  <2> QED
    BY <2>1, <2>2
<1>3. accounts[x].coverage = "PROVIDER_MAXIMUM_RETRIEVED"
        => \E d, e \in days[x] : e - d >= Window
  <2> SUFFICES ASSUME accounts[x].coverage = "PROVIDER_MAXIMUM_RETRIEVED"
               PROVE  \E d, e \in days[x] : e - d >= Window
    OBVIOUS
  <2> DEFINE first == accounts[x].earliest
             last == accounts[x].latest
  <2>1. first # None /\ first <= last - Window
    BY <1>1 DEF Observed, Ac!ReachedProviderMaximum
  <2>2. first \in days[x] /\ last \in days[x]
    BY <1>1, <2>1 DEF Observed
  <2>3. first \in Int /\ last \in Int /\ Window \in Int
    BY <1>1, <2>2, HistoryAssumption
  <2> HIDE DEF first, last
  <2>4. last - first >= Window
    BY <2>1, <2>3
  <2> QED
    BY <2>2, <2>4
<1> QED
  BY <1>2, <1>3

\* Before any import there are no accounts.
LEMMA HistoryInit == Ac!Init => HistoryInv
<1> SUFFICES ASSUME Ac!Init PROVE HistoryInv
  OBVIOUS
<1>1. (CHOOSE c \in Snapshots : TRUE) \in Snapshots
  BY HistoryAssumption
<1>2. Ac!TypeOK
  BY <1>1, HistoryAssumption DEF Ac!Init, Ac!TypeOK
<1> QED
  BY <1>2 DEF Ac!Init, HistoryInv, ListingKnown, Observed

\* What happens at the provider, and to the status of a connection.
LEMMA SurroundingsChange ==
  ASSUME HistoryInv, UNCHANGED <<accounts, snapshots, listing, place, days>>,
         listed' \in [Accounts -> Connections \X Snapshots], closed' \subseteq Connections
  PROVE  HistoryInv'
  BY DEF HistoryInv, Ac!TypeOK, ListingKnown, Observed, Ac!ReachedProviderMaximum

\* An import reads its target, or the provider's list.
LEMMA ImportReads ==
  ASSUME HistoryInv, NEW i \in Imports, Ac!ReadTarget(i) \/ Ac!ListAccounts(i)
  PROVE  HistoryInv'
<1>1. UNCHANGED <<listed, closed, accounts, snapshots, days>>
  BY DEF Ac!ReadTarget, Ac!ListAccounts
<1>2. place' \in [Imports -> {"begin", "list", "write", "over"}]
  BY DEF HistoryInv, Ac!TypeOK, Ac!ReadTarget, Ac!ListAccounts
<1>3. ASSUME NEW j \in Imports, place'[j] = "write"
      PROVE  /\ DOMAIN listing'[j] \subseteq Accounts
             /\ \A x \in DOMAIN listing'[j] : listing'[j][x] \in Snapshots
  <2>1. CASE Ac!ReadTarget(i)
    BY <1>3, <2>1 DEF HistoryInv, Ac!TypeOK, Ac!ReadTarget, ListingKnown
  <2>2. CASE Ac!ListAccounts(i)
    <3> DEFINE all == [x \in {y \in Accounts : listed[y][1] = ConnectionOf[i]} |-> listed[x][2]]
    <3>1. listing' = [listing EXCEPT ![i] = all] /\ place' = [place EXCEPT ![i] = "write"]
      BY <2>2 DEF Ac!ListAccounts
    <3>2. DOMAIN all \subseteq Accounts /\ \A x \in DOMAIN all : all[x] \in Snapshots
      BY DEF HistoryInv, Ac!TypeOK
    <3>3. i \in DOMAIN listing
      BY DEF HistoryInv
    <3> HIDE DEF all
    <3> QED
      BY <1>3, <3>1, <3>2, <3>3 DEF HistoryInv, Ac!TypeOK, ListingKnown
  <2> QED
    BY <2>1, <2>2
<1> QED
  <2>1. DOMAIN listing' = Imports
    BY DEF HistoryInv, Ac!ReadTarget, Ac!ListAccounts
  <2> QED
    BY <1>1, <1>2, <1>3, <2>1 DEF HistoryInv, Ac!TypeOK, ListingKnown, Observed, Ac!ReachedProviderMaximum

\* A listing is of the provider's accounts and leaves the history as it is.
LEMMA AccountsWritten ==
  ASSUME HistoryInv, NEW i \in Imports, Ac!WriteAccounts(i)
  PROVE  HistoryInv'
<1>1. /\ place[i] = "write" /\ place' = [place EXCEPT ![i] = "over"]
      /\ listing' = [listing EXCEPT ![i] = None]
      /\ UNCHANGED <<listed, closed, days>>
  BY DEF Ac!WriteAccounts
<1>2. ListingKnown(i)
  BY DEF HistoryInv
<1>3. ASSUME NEW x \in Accounts
      PROVE  \/ accounts'[x] = accounts[x]
             \/ x \in DOMAIN listing[i] /\ accounts'[x] = Ac!Upserted(x, i)
  BY DEF Ac!WriteAccounts, HistoryInv, Ac!TypeOK
<1>4. ASSUME NEW x \in DOMAIN listing[i]
      PROVE  Ac!Upserted(x, i) \in Ac!Account
             /\ IF accounts[x] = None
                 THEN Ac!Upserted(x, i).earliest = None /\ Ac!Upserted(x, i).latest = None
                      /\ Ac!Upserted(x, i).coverage = "UNKNOWN"
                 ELSE Ac!Upserted(x, i).earliest = accounts[x].earliest
                      /\ Ac!Upserted(x, i).latest = accounts[x].latest
                      /\ Ac!Upserted(x, i).coverage = accounts[x].coverage
  <2>1. x \in Accounts /\ listing[i][x] \in Snapshots /\ ConnectionOf[i] \in Connections
    BY <1>1, <1>2, HistoryAssumption DEF ListingKnown
  <2>2. CASE accounts[x] = None
    BY <2>1, <2>2 DEF Ac!Upserted, Ac!Account, Ac!Coverage
  <2>3. CASE accounts[x] # None
    <3>1. accounts[x] \in Ac!Account
      BY <2>1, <2>3 DEF HistoryInv, Ac!TypeOK
    <3> QED
      BY <2>1, <2>3, <3>1 DEF Ac!Upserted, Ac!Account
  <2> QED
    BY <2>2, <2>3
<1>5. ASSUME NEW x \in Accounts PROVE accounts'[x] \in Ac!Account \cup {None}
  BY <1>3, <1>4 DEF HistoryInv, Ac!TypeOK
<1>6. ASSUME NEW x \in Accounts, accounts'[x] # None, accounts'[x].earliest # None
      PROVE  accounts'[x].earliest <= accounts'[x].latest
  BY <1>3, <1>4, <1>6 DEF HistoryInv, Ac!TypeOK
<1>7. accounts' \in [Accounts -> Ac!Account \cup {None}]
  BY <1>5 DEF Ac!WriteAccounts, HistoryInv, Ac!TypeOK
<1>8. snapshots' \in [Accounts -> Nat]
  BY DEF Ac!WriteAccounts, HistoryInv, Ac!TypeOK
<1>9. Ac!TypeOK'
  BY <1>1, <1>6, <1>7, <1>8 DEF HistoryInv, Ac!TypeOK
<1>10. DOMAIN listing' = Imports /\ \A j \in Imports : ListingKnown(j)'
  BY <1>1 DEF HistoryInv, Ac!TypeOK, ListingKnown
<1>11. ASSUME NEW x \in Accounts PROVE Observed(x)'
  <2>1. Observed(x) /\ days'[x] = days[x]
    BY <1>1 DEF HistoryInv
  <2>2. CASE accounts'[x] = accounts[x]
    BY <2>1, <2>2 DEF Observed, Ac!ReachedProviderMaximum
  <2>3. CASE x \in DOMAIN listing[i] /\ accounts'[x] = Ac!Upserted(x, i)
    <3>1. accounts'[x] # None
      BY <1>4, <2>3, HistoryAssumption
    <3> QED
      BY <1>4, <2>1, <2>3, <3>1 DEF Observed, Ac!ReachedProviderMaximum
  <2> QED
    BY <1>3, <2>2, <2>3
<1> QED
  BY <1>9, <1>10, <1>11 DEF HistoryInv

\* What a page does to the bounds of a row.
LEMMA WidenedBounds ==
  ASSUME NEW row \in Ac!Account, NEW first \in Ac!Day, NEW last \in Ac!Day, first <= last,
         row.earliest = None <=> row.latest = None,
         row.earliest # None => row.earliest <= row.latest
  PROVE  LET new == Ac!Widened(row, first, last)
         IN /\ new \in Ac!Account /\ new.earliest \in Ac!Day /\ new.latest \in Ac!Day
            /\ new.connection = row.connection /\ new.coverage = row.coverage
            /\ new.earliest <= first /\ last <= new.latest
            /\ new.earliest \in {row.earliest, first} /\ new.latest \in {row.latest, last}
            /\ row.earliest # None =>
                 new.earliest <= row.earliest /\ row.latest <= new.latest
<1> DEFINE new == Ac!Widened(row, first, last)
           least == IF row.earliest = None THEN first ELSE Ac!Min({row.earliest, first})
           greatest == IF row.latest = None THEN last ELSE Ac!Max({row.latest, last})
<1>1. Ac!Day \subseteq Int /\ None \notin Ac!Day
  BY HistoryAssumption DEF Ac!Day
<1>2. row.earliest \in Ac!Day \cup {None} /\ row.latest \in Ac!Day \cup {None}
  BY DEF Ac!Account
<1>3. CASE row.earliest = None
  <2>1. least = first /\ greatest = last
    BY <1>3
  <2> HIDE DEF least, greatest
  <2>2. /\ new = [[row EXCEPT !.earliest = first] EXCEPT !.latest = last]
    BY <2>1 DEF Ac!Widened, least, greatest
  <2>3. new.earliest = first /\ new.latest = last /\ new.connection = row.connection
        /\ new.coverage = row.coverage /\ new \in Ac!Account
    BY <2>2 DEF Ac!Account
  <2>4. first <= first /\ last <= last
    BY <1>1
  <2> HIDE DEF new
  <2>5. /\ new.earliest <= first /\ last <= new.latest
    BY <2>3, <2>4
  <2> QED
    BY <1>3, <2>3, <2>5 DEF new
<1>4. CASE row.earliest # None
  <2>1. row.earliest \in Int /\ row.latest \in Int /\ first \in Int /\ last \in Int
    BY <1>1, <1>2, <1>4
  <2>2. /\ least \in {row.earliest, first} /\ least <= row.earliest /\ least <= first
        /\ greatest \in {row.latest, last} /\ row.latest <= greatest /\ last <= greatest
    BY <1>4, <2>1, Bounds
  <2>3. least \in Ac!Day /\ greatest \in Ac!Day
    BY <1>1, <1>2, <1>4, <2>2
  <2>4. new = [[row EXCEPT !.earliest = least] EXCEPT !.latest = greatest]
    BY DEF Ac!Widened
  <2> HIDE DEF least, greatest, new
  <2> QED
    <3>1. new.earliest = least /\ new.latest = greatest /\ new.connection = row.connection
          /\ new.coverage = row.coverage /\ new \in Ac!Account
      BY <2>3, <2>4 DEF Ac!Account
    <3> QED
      BY <2>2, <2>3, <3>1 DEF new
<1> QED
  BY <1>3, <1>4

\* A page widens the bounds to what it stores.
LEMMA PageStored ==
  ASSUME HistoryInv, NEW r \in HistoryRuns, NEW x \in Accounts, Ac!StorePage(r, x)
  PROVE  HistoryInv'
<1>1. /\ accounts[x] # None
      /\ UNCHANGED <<listed, closed, snapshots, listing, place>>
  BY DEF Ac!StorePage, Ac!Owns
<1>2. PICK first \in Ac!Day : \E last \in first..LastDay :
        /\ accounts' = [accounts EXCEPT ![x] = Ac!Widened(accounts[x], first, last)]
        /\ days' = [days EXCEPT ![x] = days[x] \cup {first, last}]
  BY DEF Ac!StorePage
<1>0. PICK last \in first..LastDay :
        /\ accounts' = [accounts EXCEPT ![x] = Ac!Widened(accounts[x], first, last)]
        /\ days' = [days EXCEPT ![x] = days[x] \cup {first, last}]
  BY <1>2
<1>3. last \in Ac!Day /\ first <= last /\ Ac!Day \subseteq Int
  BY HistoryAssumption DEF Ac!Day
<1> DEFINE row == accounts[x]
           new == Ac!Widened(row, first, last)
<1>4. row \in Ac!Account /\ Observed(x)
  BY <1>1 DEF HistoryInv, Ac!TypeOK
<1>5. /\ row.earliest = None <=> row.latest = None
      /\ row.earliest # None => row.earliest <= row.latest
  BY <1>1, <1>4 DEF HistoryInv, Ac!TypeOK, Observed
<1>6. /\ new \in Ac!Account /\ new.earliest \in Ac!Day /\ new.latest \in Ac!Day
      /\ new.coverage = row.coverage
      /\ new.earliest <= first /\ last <= new.latest
      /\ new.earliest \in {row.earliest, first} /\ new.latest \in {row.latest, last}
      /\ row.earliest # None => new.earliest <= row.earliest /\ row.latest <= new.latest
  BY <1>3, <1>4, <1>5, WidenedBounds
<1>7. /\ \A y \in Accounts : accounts'[y] = IF y = x THEN new ELSE accounts[y]
      /\ \A y \in Accounts : days'[y] = IF y = x THEN days[x] \cup {first, last} ELSE days[y]
  BY <1>0 DEF HistoryInv, Ac!TypeOK
<1>8. new # None /\ new.earliest # None /\ new.latest # None
  BY <1>6, HistoryAssumption
<1> HIDE DEF new
<1>9. Observed(x)'
  <2>1. accounts'[x] = new /\ days'[x] = days[x] \cup {first, last}
    BY <1>7
  <2>2. \A d \in days[x] : row.earliest # None /\ row.earliest <= d /\ d <= row.latest
    BY <1>1, <1>4 DEF Observed
  <2>3. days[x] \subseteq Ac!Day
    BY DEF HistoryInv, Ac!TypeOK
  <2>4. \A d \in days[x] : new.earliest <= d /\ d <= new.latest
    <3> SUFFICES ASSUME NEW d \in days[x] PROVE new.earliest <= d /\ d <= new.latest
      OBVIOUS
    <3>1. /\ new.earliest <= row.earliest /\ row.earliest <= d
          /\ d <= row.latest /\ row.latest <= new.latest
      BY <1>6, <2>2
    <3>2. /\ d \in Int /\ new.earliest \in Int /\ new.latest \in Int
          /\ row.earliest \in Int /\ row.latest \in Int
      BY <1>3, <1>4, <1>5, <1>6, <2>2, <2>3 DEF Ac!Account
    <3> QED
      BY <3>1, <3>2
  <2>5. \A d \in {first, last} : new.earliest <= d /\ d <= new.latest
    <3>1. first \in Int /\ last \in Int /\ new.earliest \in Int /\ new.latest \in Int
      BY <1>3, <1>6
    <3> QED
      BY <1>3, <1>6, <3>1
  <2>6. {new.earliest, new.latest} \subseteq days'[x]
    <3>1. row.earliest # None => row.earliest \in days[x] /\ row.latest \in days[x]
      BY <1>1, <1>4 DEF Observed
    <3> QED
      BY <1>5, <1>6, <1>8, <2>1, <3>1
  <2>7. new.coverage = "PROVIDER_MAXIMUM_RETRIEVED" => Ac!ReachedProviderMaximum(new)
    <3> SUFFICES ASSUME new.coverage = "PROVIDER_MAXIMUM_RETRIEVED"
                 PROVE  new.earliest <= new.latest - Window
      BY <1>8 DEF Ac!ReachedProviderMaximum
    <3>1. row.earliest # None /\ row.earliest <= row.latest - Window
      BY <1>1, <1>4, <1>6 DEF Observed, Ac!ReachedProviderMaximum
    <3>2. /\ new.earliest \in Int /\ new.latest \in Int /\ row.earliest \in Int
          /\ row.latest \in Int /\ Window \in Int
      BY <1>3, <1>4, <1>5, <1>6, <3>1, HistoryAssumption DEF Ac!Account
    <3> QED
      BY <1>6, <3>1, <3>2
  <2> QED
    BY <1>8, <2>1, <2>4, <2>5, <2>6, <2>7 DEF Observed
<1>10. ASSUME NEW y \in Accounts PROVE Observed(y)'
  BY <1>7, <1>9 DEF HistoryInv, Observed, Ac!ReachedProviderMaximum
<1>11. Ac!TypeOK'
  <2>1. accounts' \in [Accounts -> Ac!Account \cup {None}]
    BY <1>0, <1>6 DEF HistoryInv, Ac!TypeOK, new
  <2>2. days' \in [Accounts -> SUBSET Ac!Day]
    BY <1>0, <1>3 DEF HistoryInv, Ac!TypeOK
  <2>3. new.earliest <= new.latest
    <3>1. /\ new.earliest \in Int /\ new.latest \in Int /\ first \in Int /\ last \in Int
      BY <1>3, <1>6
    <3>2. new.earliest <= first /\ first <= last /\ last <= new.latest
      BY <1>3, <1>6
    <3> QED
      BY <3>1, <3>2
  <2>4. \A y \in Accounts : accounts'[y] # None =>
          (accounts'[y].earliest # None => accounts'[y].earliest <= accounts'[y].latest)
    BY <1>7, <2>3 DEF HistoryInv, Ac!TypeOK
  <2> QED
    BY <1>1, <2>1, <2>2, <2>4 DEF HistoryInv, Ac!TypeOK
<1> QED
  BY <1>1, <1>10, <1>11 DEF HistoryInv, ListingKnown

\* Coverage is computed from the bounds of the moment.
LEMMA AccountCompleted ==
  ASSUME HistoryInv, NEW r \in HistoryRuns, NEW x \in Accounts, Ac!CompleteAccount(r, x)
  PROVE  HistoryInv'
<1>1. /\ accounts[x] # None
      /\ UNCHANGED <<listed, closed, snapshots, listing, place, days>>
  BY DEF Ac!CompleteAccount, Ac!Owns
<1>2. accounts[x] \in Ac!Account /\ x \in DOMAIN accounts
  BY <1>1 DEF HistoryInv, Ac!TypeOK
<1>3. PICK coverage \in Ac!Coverage :
        /\ accounts' = [accounts EXCEPT ![x].coverage = coverage]
        /\ coverage = "PROVIDER_MAXIMUM_RETRIEVED" => Ac!ReachedProviderMaximum(accounts[x])
  BY DEF Ac!CompleteAccount, Ac!Coverage
<1> DEFINE new == [accounts[x] EXCEPT !.coverage = coverage]
<1>4. /\ new \in Ac!Account /\ new.earliest = accounts[x].earliest
      /\ new.latest = accounts[x].latest /\ new.coverage = coverage
  BY <1>2 DEF Ac!Account
<1>5. \A y \in Accounts : accounts'[y] = IF y = x THEN new ELSE accounts[y]
  BY <1>2, <1>3 DEF HistoryInv, Ac!TypeOK
<1>6. new # None
  BY <1>4, HistoryAssumption
<1>7. accounts' \in [Accounts -> Ac!Account \cup {None}]
  BY <1>3, <1>4 DEF HistoryInv, Ac!TypeOK
<1> HIDE DEF new
<1>8. Ac!TypeOK'
  BY <1>1, <1>4, <1>5, <1>7 DEF HistoryInv, Ac!TypeOK
<1>9. ASSUME NEW y \in Accounts PROVE Observed(y)'
  BY <1>1, <1>3, <1>4, <1>5, <1>6 DEF HistoryInv, Observed, Ac!ReachedProviderMaximum
<1> QED
  BY <1>1, <1>8, <1>9 DEF HistoryInv, ListingKnown

-----------------------------------------------------------------------------
\* Every step of the accounts keeps HistoryInv, and so do the other parts' steps.
LEMMA HistoryStep == HistoryInv /\ [MCNext]_allVars => HistoryInv'
<1> SUFFICES ASSUME HistoryInv, [MCNext]_allVars PROVE HistoryInv'
  OBVIOUS
<1>1. CASE UNCHANGED accountVars
  BY <1>1 DEF accountVars, HistoryInv, Ac!TypeOK, ListingKnown, Observed, Ac!ReachedProviderMaximum
<1>2. ASSUME NEW x \in Accounts, Ac!ProviderChanges(x) PROVE HistoryInv'
  <2>1. listed' \in [Accounts -> Connections \X Snapshots]
    BY <1>2 DEF Ac!ProviderChanges, HistoryInv, Ac!TypeOK
  <2> QED
    BY <1>2, <2>1, SurroundingsChange DEF Ac!ProviderChanges, HistoryInv, Ac!TypeOK
<1>3. ASSUME NEW c \in Connections, Ac!Close(c) PROVE HistoryInv'
  BY <1>3, SurroundingsChange DEF Ac!Close, HistoryInv, Ac!TypeOK
<1>4. CASE Ac!Next
  BY <1>2, <1>3, <1>4, ImportReads, AccountsWritten, PageStored, AccountCompleted DEF Ac!Next
<1> QED
  BY <1>1, <1>4 DEF MCNext, allVars

\* The recorded bounds of an account are those of everything stored for it, and a maximal
\* history spans the window, for any accounts, connections, imports, runs and days.
THEOREM HistoryObserved == MCSpec => []CoverageIsObserved
<1>1. MCInit => HistoryInv
  BY HistoryInit DEF MCInit
<1>2. HistoryInv => CoverageIsObserved
  BY HistoryInvSuffices DEF CoverageIsObserved
<1> QED
  BY <1>1, <1>2, HistoryStep, PTL DEF MCSpec

\* No import moves an account to a connection that is closed, for any imports and
\* whatever they were told before: the status is read again in the transaction that writes.
THEOREM NoneReopened == MCSpec => AccountsStayOpen
<1>1. HistoryInv /\ [MCNext]_allVars =>
        [\A x \in Accounts : Ac!ConnectionNow(x)' # Ac!ConnectionNow(x)
                              => Ac!ConnectionNow(x)' \notin closed]_(Ac!vars)
  <2> SUFFICES ASSUME HistoryInv, [MCNext]_allVars, NEW x \in Accounts,
                      Ac!ConnectionNow(x)' # Ac!ConnectionNow(x)
               PROVE  Ac!ConnectionNow(x)' \notin closed
    OBVIOUS
  <2>1. CASE UNCHANGED accounts
    BY <2>1 DEF Ac!ConnectionNow
  <2>2. ASSUME NEW r \in HistoryRuns, NEW y \in Accounts, Ac!StorePage(r, y)
        PROVE  Ac!ConnectionNow(x)' = Ac!ConnectionNow(x)
    <3>1. PICK first \in Ac!Day : \E last \in first..LastDay :
            accounts' = [accounts EXCEPT ![y] = Ac!Widened(accounts[y], first, last)]
      BY <2>2 DEF Ac!StorePage
    <3>2. PICK last \in first..LastDay :
            accounts' = [accounts EXCEPT ![y] = Ac!Widened(accounts[y], first, last)]
      BY <3>1
    <3>3. last \in Ac!Day /\ first <= last
      BY HistoryAssumption DEF Ac!Day
    <3>4. accounts[y] # None /\ accounts[y] \in Ac!Account /\ Observed(y)
      BY <2>2 DEF Ac!StorePage, Ac!Owns, HistoryInv, Ac!TypeOK
    <3>5. /\ accounts[y].earliest = None <=> accounts[y].latest = None
          /\ accounts[y].earliest # None => accounts[y].earliest <= accounts[y].latest
      BY <3>4 DEF HistoryInv, Ac!TypeOK, Observed
    <3> DEFINE new == Ac!Widened(accounts[y], first, last)
    <3>6. new \in Ac!Account /\ new.connection = accounts[y].connection
      BY <3>3, <3>4, <3>5, WidenedBounds
    <3>7. accounts'[x] = IF x = y THEN new ELSE accounts[x]
      BY <3>2 DEF HistoryInv, Ac!TypeOK
    <3>8. new # None
      BY <3>6, HistoryAssumption
    <3> HIDE DEF new
    <3> QED
      BY <3>4, <3>6, <3>7, <3>8 DEF Ac!ConnectionNow
  <2>3. ASSUME NEW r \in HistoryRuns, NEW y \in Accounts, Ac!CompleteAccount(r, y)
        PROVE  Ac!ConnectionNow(x)' = Ac!ConnectionNow(x)
    <3>1. accounts[y] # None /\ accounts[y] \in Ac!Account
      BY <2>3 DEF Ac!CompleteAccount, Ac!Owns, HistoryInv, Ac!TypeOK
    <3>2. PICK coverage \in Ac!Coverage : accounts' = [accounts EXCEPT ![y].coverage = coverage]
      BY <2>3 DEF Ac!CompleteAccount, Ac!Coverage
    <3> DEFINE new == [accounts[y] EXCEPT !.coverage = coverage]
    <3>3. new \in Ac!Account /\ new.connection = accounts[y].connection
      BY <3>1 DEF Ac!Account
    <3>4. accounts'[x] = IF x = y THEN new ELSE accounts[x]
      BY <3>2 DEF HistoryInv, Ac!TypeOK
    <3>5. new # None
      BY <3>3, HistoryAssumption
    <3> HIDE DEF new
    <3> QED
      BY <3>1, <3>3, <3>4, <3>5 DEF Ac!ConnectionNow
  <2>4. ASSUME NEW i \in Imports, Ac!WriteAccounts(i)
        PROVE  Ac!ConnectionNow(x)' \notin closed
    <3>1. Ac!TargetAvailable(i) /\ x \in DOMAIN listing[i] /\ accounts'[x] = Ac!Upserted(x, i)
      BY <2>4 DEF Ac!WriteAccounts, Ac!ConnectionNow, HistoryInv, Ac!TypeOK
    <3>2. accounts[x] = None \/ accounts[x] \in Ac!Account
      BY DEF HistoryInv, Ac!TypeOK
    <3>3. accounts'[x] = None \/ accounts'[x].connection = ConnectionOf[i]
      BY <3>1, <3>2 DEF Ac!Upserted, Ac!Account
    <3>4. None \notin closed
      BY HistoryAssumption DEF HistoryInv, Ac!TypeOK
    <3> QED
      BY <3>1, <3>3, <3>4 DEF Ac!ConnectionNow, Ac!TargetAvailable
  <2> QED
    BY <2>1, <2>2, <2>3, <2>4 DEF MCNext, allVars, accountVars, Ac!Next, Ac!ProviderChanges,
       Ac!Close, Ac!ReadTarget, Ac!ListAccounts
<1>2. MCInit => HistoryInv
  BY HistoryInit DEF MCInit
<1> QED
  BY <1>1, <1>2, HistoryStep, PTL DEF MCSpec, AccountsStayOpen, Ac!AccountsStayOpen

-----------------------------------------------------------------------------
(***************************************************************************)
(* Bills.  A page that has looked up bills holds the account until it links *)
(* its purchases, and no bill is stored meanwhile.  A reviewer that has     *)
(* read a match holds its row, so what it read is what it decides on.       *)
(***************************************************************************)

\* A page holding the account has found the stored bills it names.
PageFound ==
    accountLock # None =>
      /\ accountLock \in Pages /\ fetched[accountLock] # None
      /\ found[accountLock] = {fetched[accountLock][t] : t \in Purchases} \cap bills

\* At most one active match for each payment and for each outflow.
ActiveApart ==
    \A p, q \in Payments, t, u \in Outflows :
      Bi!Active(p, t) /\ Bi!Active(q, u) /\ <<p, t>> # <<q, u>> => p # q /\ t # u

\* Reviewers have different matches, as they read them.
ReviewsApart ==
    /\ \A u \in Reviewers : review[u] # None =>
         review[u].read = matches[review[u].pair] /\ review[u].read # "ABSENT"
    /\ \A u, v \in Reviewers :
         review[u] # None /\ review[v] # None /\ u # v => review[u].pair # review[v].pair

BillInv ==
    /\ Bi!TypeOK
    /\ PageFound /\ Bi!LinksAgree
    /\ ActiveApart
    /\ ReviewsApart /\ Bi!DecisionsAuditedOnce

-----------------------------------------------------------------------------
\* The cardinality of FiniteSets, under each of its names.
LEMMA SameCardinality ==
  \A S : Bi!Cardinality(S) = Cardinality(S) /\ Ru!Cardinality(S) = Cardinality(S)
BY DEF Bi!Cardinality, Ru!Cardinality, Cardinality

\* A bill without unresolved payments has each of them confirmed, by an outflow of
\* its own.
LEMMA ConfirmedAreBacked == BillInv => Bi!ResolvedIsBacked
<1> SUFFICES ASSUME BillInv, NEW b \in bills, Bi!Unresolved(b) = 0,
                    NEW p \in Payments, BillOf[p] = b, payments[p] # None
             PROVE  \E t \in Outflows :
                      /\ Bi!Active(p, t) /\ outflows[t].live /\ outflows[t].role
                      /\ Bi!Near(outflows[t].value, payments[p])
                      /\ \A q \in Payments \ {p} : ~Bi!Active(q, t)
  BY DEF Bi!ResolvedIsBacked
<1> DEFINE due == {q \in Payments : BillOf[q] = b /\ payments[q] # None}
           confirmed == Bi!ConfirmedPayments(b)
<1>1. due \subseteq Payments /\ confirmed \subseteq due /\ p \in due
  BY DEF Bi!ConfirmedPayments
<1>2. IsFiniteSet(due)
  BY <1>1, BillAssumption, FS_Subset
<1>3. IsFiniteSet(confirmed) /\ Cardinality(confirmed) \in Nat /\ Cardinality(due) \in Nat
  BY <1>1, <1>2, FS_Subset, FS_CardinalityType
<1>4. Cardinality(due) = Cardinality(confirmed)
  <2>1. Bi!Unresolved(b) = Bi!Cardinality(due) - Bi!Cardinality(confirmed)
    BY DEF Bi!Unresolved
  <2>2. Bi!Cardinality(due) = Cardinality(due) /\ Bi!Cardinality(confirmed) = Cardinality(confirmed)
    BY SameCardinality
  <2> HIDE DEF due, confirmed
  <2> QED
    BY <1>3, <2>1, <2>2
<1>5. p \in confirmed
  BY <1>1, <1>2, <1>4, FS_Subset
<1>6. PICK t \in Outflows : Bi!Active(p, t) /\ Bi!EvidenceAccepted(p, t)
  BY <1>5 DEF Bi!ConfirmedPayments
<1>7. \A q \in Payments \ {p} : ~Bi!Active(q, t)
  BY <1>6 DEF BillInv, ActiveApart
<1> QED
  BY <1>6, <1>7 DEF Bi!EvidenceAccepted

\* At first nothing is stored.
LEMMA BillInit == Bi!Init => BillInv
<1> SUFFICES ASSUME Bi!Init PROVE BillInv
  OBVIOUS
<1> USE BillAssumption DEF Bi!Init
<1>1. Bi!TypeOK
  <2>1. outflows \in [Outflows -> Bi!Outflow]
    BY DEF Bi!Outflow
  <2>2. purchases \in [Purchases -> Bi!Purchase]
    BY DEF Bi!Purchase
  <2>3. offered \in Bi!List
    BY DEF Bi!List
  <2>4. matches \in [Bi!Pairs -> Bi!Match] /\ audited \in [Bi!Pairs -> 0..MaxRequests]
    BY DEF Bi!Match
  <2> QED
    BY <2>1, <2>2, <2>3, <2>4 DEF Bi!TypeOK
<1>2. ActiveApart /\ ReviewsApart
  BY DEF ActiveApart, ReviewsApart, Bi!Active, Bi!Pairs
<1>3. PageFound /\ Bi!LinksAgree
  BY DEF PageFound, Bi!LinksAgree
<1>4. Bi!DecisionsAuditedOnce
  BY DEF Bi!DecisionsAuditedOnce, Bi!Decision
<1> QED
  BY <1>1, <1>2, <1>3, <1>4 DEF BillInv

\* Steps that leave the reconciliation as it is.
LEMMA MatchesRest ==
  ASSUME BillInv, Bi!TypeOK', UNCHANGED <<matches, audited, review>>,
         PageFound', Bi!LinksAgree'
  PROVE  BillInv'
  BY DEF BillInv, ActiveApart, ReviewsApart, Bi!Active, Bi!DecisionsAuditedOnce

\* Steps that leave the bills and purchases as they are.
LEMMA BillsRest ==
  ASSUME BillInv, Bi!TypeOK', UNCHANGED <<bills, purchases, accountLock, fetched, found>>,
         ActiveApart', ReviewsApart', Bi!DecisionsAuditedOnce'
  PROVE  BillInv'
  BY DEF BillInv, PageFound, Bi!LinksAgree

\* What the provider offers and names, what the outflows are, and the status.
LEMMA SurroundingsOfBills ==
  ASSUME BillInv,
         \/ \E b \in Bills : Bi!Offer(b)
         \/ \E t \in Purchases : Bi!Rename(t)
         \/ \E t \in Outflows : Bi!Reclassify(t)
         \/ Bi!Close
  PROVE  BillInv'
<1> USE BillAssumption DEF Bi!provider, Bi!ledger, Bi!reconciliation
<1>1. ASSUME NEW b \in Bills, Bi!Offer(b) PROVE BillInv'
  <2>1. offered' \in Bi!List
    BY <1>1 DEF Bi!Offer, BillInv, Bi!TypeOK, Bi!List
  <2>2. Bi!TypeOK'
    BY <1>1, <2>1 DEF Bi!Offer, BillInv, Bi!TypeOK
  <2> QED
    BY <1>1, <2>2, MatchesRest DEF Bi!Offer, BillInv, PageFound, Bi!LinksAgree
<1>2. ASSUME NEW t \in Purchases, Bi!Rename(t) PROVE BillInv'
  <2>1. names' \in [Purchases -> Bills \cup {None}]
    BY <1>2 DEF Bi!Rename, BillInv, Bi!TypeOK
  <2>2. Bi!TypeOK'
    BY <1>2, <2>1 DEF Bi!Rename, BillInv, Bi!TypeOK
  <2> QED
    BY <1>2, <2>2, MatchesRest DEF Bi!Rename, BillInv, PageFound, Bi!LinksAgree
<1>3. ASSUME NEW t \in Outflows, Bi!Reclassify(t) PROVE BillInv'
  <2>1. outflows' \in [Outflows -> Bi!Outflow]
    BY <1>3 DEF Bi!Reclassify, BillInv, Bi!TypeOK
  <2>2. Bi!TypeOK'
    BY <1>3, <2>1 DEF Bi!Reclassify, BillInv, Bi!TypeOK
  <2> QED
    BY <1>3, <2>2, MatchesRest DEF Bi!Reclassify, BillInv, PageFound, Bi!LinksAgree
<1>4. CASE Bi!Close
  <2>1. Bi!TypeOK'
    BY <1>4 DEF Bi!Close, BillInv, Bi!TypeOK
  <2> QED
    BY <1>4, <2>1, MatchesRest DEF Bi!Close, BillInv, PageFound, Bi!LinksAgree
<1> QED
  BY <1>1, <1>2, <1>3, <1>4

\* An importer fetches, and stores bills while no page holds the account.
LEMMA BillsImported ==
  ASSUME BillInv, NEW i \in Importers, Bi!FetchBills(i) \/ Bi!ImportBills(i)
  PROVE  BillInv'
<1> USE BillAssumption DEF Bi!provider, Bi!ledger, Bi!reconciliation
<1>1. CASE Bi!FetchBills(i)
  <2>1. Bi!TypeOK'
    BY <1>1 DEF Bi!FetchBills, BillInv, Bi!TypeOK
  <2>2. PageFound'
    BY <1>1 DEF Bi!FetchBills, BillInv, Bi!TypeOK, PageFound
  <2> QED
    BY <1>1, <2>1, <2>2, MatchesRest DEF Bi!FetchBills, BillInv, Bi!LinksAgree
<1>2. CASE Bi!ImportBills(i)
  <2>1. fetched[i] \in Bi!List /\ accountLock = None /\ accountLock' = None
        /\ fetched' = [fetched EXCEPT ![i] = None]
        /\ UNCHANGED <<offered, names, available, outflows, matches, audited, review, found>>
    BY <1>2 DEF Bi!ImportBills, BillInv, Bi!TypeOK
  <2>2. fetched[i].bills \subseteq Bills /\ fetched[i].children \in [Payments -> Values \cup {None}]
    BY <2>1 DEF Bi!List
  <2>3. bills' \subseteq Bills /\ payments' \in [Payments -> Values \cup {None}]
    BY <1>2, <2>2 DEF Bi!ImportBills, BillInv, Bi!TypeOK, Bi!Upserted
  <2>4. \/ purchases' = purchases /\ bills' = bills
        \/ purchases' = Bi!Linked(fetched[i]) /\ bills' = bills \cup fetched[i].bills
    BY <1>2 DEF Bi!ImportBills
  <2>5. ASSUME NEW t \in Purchases
        PROVE  /\ Bi!Linked(fetched[i])[t] \in Bi!Purchase
               /\ Bi!Linked(fetched[i])[t].stored = purchases[t].stored
               /\ Bi!Linked(fetched[i])[t].names = purchases[t].names
               /\ Bi!Linked(fetched[i])[t].bill =
                    IF /\ purchases[t].stored /\ purchases[t].bill = None
                       /\ purchases[t].names \in fetched[i].bills
                    THEN purchases[t].names ELSE purchases[t].bill
    <3>1. purchases[t] \in Bi!Purchase
      BY DEF BillInv, Bi!TypeOK
    <3> QED
      BY <2>2, <3>1 DEF Bi!Linked, Bi!Purchase
  <2>6. purchases' \in [Purchases -> Bi!Purchase]
    BY <2>4, <2>5 DEF BillInv, Bi!TypeOK, Bi!Linked
  <2>7. Bi!TypeOK'
    BY <2>1, <2>3, <2>6 DEF BillInv, Bi!TypeOK
  <2>8. Bi!LinksAgree'
    <3> SUFFICES ASSUME NEW t \in Purchases, purchases'[t].stored
                 PROVE  purchases'[t].bill = IF purchases'[t].names \in bills'
                                             THEN purchases'[t].names ELSE None
      BY DEF Bi!LinksAgree
    <3>1. purchases[t].stored =>
            purchases[t].bill = IF purchases[t].names \in bills THEN purchases[t].names ELSE None
      BY <2>1 DEF BillInv, Bi!LinksAgree
    <3>2. None \notin bills /\ None \notin fetched[i].bills
      BY <2>2 DEF BillInv, Bi!TypeOK
    <3> QED
      BY <2>4, <2>5, <3>1, <3>2
  <2> QED
    BY <2>1, <2>7, <2>8, MatchesRest DEF PageFound
<1> QED
  BY <1>1, <1>2
\* A page fetches names, looks up bills and links its purchases.
LEMMA PageLinked ==
  ASSUME BillInv, NEW g \in Pages, Bi!FetchPage(g) \/ Bi!ReadPage(g) \/ Bi!WritePage(g)
  PROVE  BillInv'
<1> USE BillAssumption DEF Bi!provider, Bi!ledger, Bi!reconciliation
<1>1. CASE Bi!FetchPage(g)
  <2>1. Bi!TypeOK'
    BY <1>1 DEF Bi!FetchPage, BillInv, Bi!TypeOK
  <2>2. PageFound'
    BY <1>1 DEF Bi!FetchPage, BillInv, Bi!TypeOK, PageFound
  <2> QED
    BY <1>1, <2>1, <2>2, MatchesRest DEF Bi!FetchPage, BillInv, Bi!LinksAgree
<1>2. CASE Bi!ReadPage(g)
  <2>1. Bi!TypeOK'
    BY <1>2 DEF Bi!ReadPage, BillInv, Bi!TypeOK
  <2>2. PageFound'
    BY <1>2 DEF Bi!ReadPage, BillInv, Bi!TypeOK, PageFound
  <2>3. Bi!LinksAgree'
    BY <1>2 DEF Bi!ReadPage, BillInv, Bi!LinksAgree
  <2> QED
    BY <1>2, <2>1, <2>2, <2>3, MatchesRest DEF Bi!ReadPage
<1>3. CASE Bi!WritePage(g)
  <2>1. /\ accountLock = g /\ g # None /\ fetched[g] # None
        /\ fetched[g] \in [Purchases -> Bills \cup {None}]
        /\ found[g] = {fetched[g][t] : t \in Purchases} \cap bills
    BY <1>3 DEF Bi!WritePage, BillInv, Bi!TypeOK, PageFound
  <2>2. purchases' \in [Purchases -> Bi!Purchase]
    BY <1>3, <2>1 DEF Bi!WritePage, Bi!Purchase
  <2>3. Bi!TypeOK'
    BY <1>3, <2>2 DEF Bi!WritePage, BillInv, Bi!TypeOK
  <2>4. PageFound'
    BY <1>3 DEF Bi!WritePage, PageFound
  <2>5. Bi!LinksAgree'
    BY <1>3, <2>1 DEF Bi!WritePage, Bi!LinksAgree
  <2> QED
    BY <1>3, <2>3, <2>4, <2>5, MatchesRest DEF Bi!WritePage
<1> QED
  BY <1>1, <1>2, <1>3

\* A search adds candidates, and changes no match that exists.
LEMMA CandidatesAdded ==
  ASSUME BillInv, NEW p \in Payments, Bi!GenerateCandidates(p)
  PROVE  BillInv'
<1> USE DEF Bi!provider, Bi!ledger, Bi!reconciliation
<1>1. ASSUME NEW m \in Bi!Pairs
      PROVE  /\ matches'[m] \in Bi!Match
             /\ matches'[m] = matches[m] \/ (matches[m] = "ABSENT" /\ matches'[m] = "CANDIDATE")
  BY DEF Bi!GenerateCandidates, BillInv, Bi!TypeOK, Bi!Match
<1>2. matches' \in [Bi!Pairs -> Bi!Match]
  BY <1>1 DEF Bi!GenerateCandidates
<1>3. Bi!TypeOK'
  BY <1>2 DEF Bi!GenerateCandidates, BillInv, Bi!TypeOK
<1>4. \A q \in Payments, t \in Outflows : Bi!Active(q, t)' <=> Bi!Active(q, t)
  BY <1>1 DEF Bi!Active, Bi!Pairs
<1>5. ActiveApart'
  BY <1>4 DEF BillInv, ActiveApart
<1>6. ReviewsApart'
  <2>1. ASSUME NEW u \in Reviewers, review[u] # None
        PROVE  review[u].pair \in Bi!Pairs
    BY <2>1 DEF BillInv, Bi!TypeOK, Bi!Request
  <2> QED
    BY <1>1, <2>1 DEF Bi!GenerateCandidates, BillInv, ReviewsApart
<1>7. Bi!DecisionsAuditedOnce'
  BY <1>1 DEF Bi!GenerateCandidates, BillInv, Bi!DecisionsAuditedOnce, Bi!Decision
<1> QED
  BY <1>3, <1>5, <1>6, <1>7, BillsRest DEF Bi!GenerateCandidates

\* A reviewer reads a match that no other reviewer holds.
LEMMA MatchRead ==
  ASSUME BillInv, NEW u \in Reviewers, NEW m \in Bi!Pairs, NEW target \in Bi!Decision,
         Bi!ReadMatch(u, m, target)
  PROVE  BillInv'
<1> USE BillAssumption DEF Bi!provider, Bi!ledger, Bi!reconciliation
<1> DEFINE request == [pair |-> m, target |-> target, read |-> matches[m]]
<1>1. /\ request \in Bi!Request /\ request.pair = m /\ request.read = matches[m]
      /\ matches[m] # "ABSENT"
  BY DEF Bi!ReadMatch, Bi!Request, BillInv, Bi!TypeOK, Bi!Decision
<1>2. review' = [review EXCEPT ![u] = request]
  BY DEF Bi!ReadMatch
<1>3. \A v \in Reviewers : review'[v] = IF v = u THEN request ELSE review[v]
  BY <1>2 DEF BillInv, Bi!TypeOK
<1>4. review' \in [Reviewers -> Bi!Request \cup {None}]
  BY <1>1, <1>2 DEF BillInv, Bi!TypeOK
<1> HIDE DEF request
<1>5. Bi!TypeOK'
  BY <1>4 DEF Bi!ReadMatch, BillInv, Bi!TypeOK
<1>6. ReviewsApart'
  BY <1>1, <1>3 DEF Bi!ReadMatch, Bi!MatchFree, BillInv, ReviewsApart
<1>7. ActiveApart' /\ Bi!DecisionsAuditedOnce'
  BY DEF Bi!ReadMatch, BillInv, ActiveApart, Bi!Active, Bi!DecisionsAuditedOnce
<1> QED
  BY <1>5, <1>6, <1>7, BillsRest DEF Bi!ReadMatch

\* A reviewer decides on the match as it was read, or leaves it.
LEMMA MatchResolved ==
  ASSUME BillInv, NEW u \in Reviewers, Bi!Resolve(u)
  PROVE  BillInv'
<1> USE BillAssumption DEF Bi!provider, Bi!ledger, Bi!reconciliation
<1> DEFINE m == review[u].pair
           target == review[u].target
<1>1. /\ m \in Bi!Pairs /\ target \in Bi!Decision /\ review[u].read = matches[m]
      /\ review[u] # None
  BY DEF Bi!Resolve, BillInv, Bi!TypeOK, Bi!Request, ReviewsApart
<1>2. PICK p \in Payments, t \in Outflows : m = <<p, t>>
  BY <1>1 DEF Bi!Pairs
<1>3. m[1] = p /\ m[2] = t
  BY <1>2
<1>4. \/ /\ matches[m] = "CANDIDATE"
         /\ target = "USER_CONFIRMED" => Bi!NoOtherActive(p, t)
         /\ matches' = [matches EXCEPT ![m] = target]
         /\ audited' = [audited EXCEPT ![m] = audited[m] + 1]
      \/ UNCHANGED <<matches, audited>>
  BY <1>1, <1>3 DEF Bi!Resolve
<1>5. review' = [review EXCEPT ![u] = None]
  BY DEF Bi!Resolve
<1>6. \A v \in Reviewers : review'[v] = IF v = u THEN None ELSE review[v]
  BY <1>5 DEF BillInv, Bi!TypeOK
<1>7. /\ \A n \in Bi!Pairs : n # m => matches'[n] = matches[n] /\ audited'[n] = audited[n]
      /\ \/ matches'[m] = matches[m] /\ audited'[m] = audited[m]
         \/ /\ matches[m] = "CANDIDATE" /\ audited[m] = 0
            /\ matches'[m] = target /\ audited'[m] = 1
  <2>1. matches[m] = "CANDIDATE" => audited[m] = 0
    BY <1>1 DEF BillInv, Bi!DecisionsAuditedOnce, Bi!Decision
  <2> QED
    BY <1>1, <1>4, <2>1 DEF BillInv, Bi!TypeOK
<1>8. matches' \in [Bi!Pairs -> Bi!Match] /\ audited' \in [Bi!Pairs -> 0..MaxRequests]
  <2>1. 1 \in 0..MaxRequests /\ target \in Bi!Match
    BY <1>1 DEF Bi!Decision, Bi!Match
  <2>2. matches[m] = "CANDIDATE" => audited[m] = 0
    BY <1>1 DEF BillInv, Bi!DecisionsAuditedOnce, Bi!Decision
  <2> QED
    BY <1>1, <1>4, <2>1, <2>2 DEF BillInv, Bi!TypeOK
<1>9. review' \in [Reviewers -> Bi!Request \cup {None}]
  BY <1>5 DEF BillInv, Bi!TypeOK
<1>10. Bi!TypeOK'
  BY <1>8, <1>9 DEF Bi!Resolve, BillInv, Bi!TypeOK
<1>11. ActiveApart'
  <2>1. ASSUME NEW q \in Payments, NEW s \in Outflows, <<q, s>> # m
        PROVE  Bi!Active(q, s)' <=> Bi!Active(q, s)
    BY <1>7, <2>1 DEF Bi!Active, Bi!Pairs
  <2>2. CASE Bi!Active(p, t)' /\ ~Bi!Active(p, t)
    <3>1. Bi!NoOtherActive(p, t)
      BY <1>2, <1>4, <1>7, <2>2 DEF Bi!Active
    <3>2. \A q \in Payments, s \in Outflows :
            <<q, s>> # <<p, t>> /\ Bi!Active(q, s) => q # p /\ s # t
      <4> SUFFICES ASSUME NEW q \in Payments, NEW s \in Outflows,
                          <<q, s>> # <<p, t>>, Bi!Active(q, s)
                   PROVE  q # p /\ s # t
        OBVIOUS
      <4>1. <<q, s>> \in Bi!Pairs \ {<<p, t>>} /\ <<q, s>>[1] = q /\ <<q, s>>[2] = s
        BY DEF Bi!Pairs
      <4> QED
        BY <3>1, <4>1 DEF Bi!NoOtherActive
    <3> QED
      BY <1>2, <2>1, <3>2 DEF BillInv, ActiveApart
  <2>3. CASE ~(Bi!Active(p, t)' /\ ~Bi!Active(p, t))
    BY <1>2, <2>1, <2>3 DEF BillInv, ActiveApart
  <2> QED
    BY <2>2, <2>3
<1>12. ReviewsApart'
  <2>1. ASSUME NEW v \in Reviewers, review[v] # None, v # u
        PROVE  review[v].pair \in Bi!Pairs /\ review[v].pair # m
    BY <1>1, <2>1 DEF BillInv, Bi!TypeOK, Bi!Request, ReviewsApart
  <2> QED
    BY <1>6, <1>7, <2>1 DEF BillInv, ReviewsApart
<1>13. Bi!DecisionsAuditedOnce'
  <2>1. ASSUME NEW n \in Bi!Pairs
        PROVE  audited'[n] = IF matches'[n] \in Bi!Decision THEN 1 ELSE 0
    BY <1>1, <1>7 DEF BillInv, Bi!DecisionsAuditedOnce
  <2> QED
    BY <2>1 DEF Bi!DecisionsAuditedOnce
<1> QED
  BY <1>10, <1>11, <1>12, <1>13, BillsRest DEF Bi!Resolve

-----------------------------------------------------------------------------
\* Every step of the bills keeps BillInv, and so do the other parts' steps.
LEMMA BillStep == BillInv /\ [MCNext]_allVars => BillInv'
<1> SUFFICES ASSUME BillInv, [MCNext]_allVars PROVE BillInv'
  OBVIOUS
<1>1. CASE UNCHANGED billVars
  <2>1. UNCHANGED <<offered, names, bills, payments, purchases, outflows, matches, audited,
                    accountLock, fetched, found, review>>
    BY <1>1 DEF billVars
  <2>2. Bi!TypeOK'
    BY <2>1 DEF BillInv, Bi!TypeOK
  <2>3. PageFound' /\ Bi!LinksAgree'
    BY <2>1 DEF BillInv, PageFound, Bi!LinksAgree
  <2> QED
    BY <2>1, <2>2, <2>3, MatchesRest
<1>2. CASE Bi!Next
  BY <1>2, SurroundingsOfBills, BillsImported, PageLinked, CandidatesAdded, MatchRead,
     MatchResolved DEF Bi!Next
<1> QED
  BY <1>1, <1>2 DEF MCNext, allVars

\* What the bills say is true of the purchases, the bank and the log, for any bills,
\* payments, outflows, importers, pages and reviewers: a resolved payment has an outflow
\* of its own, a purchase is linked to its bill, and a decision is audited once.
THEOREM BillsAreBacked == MCSpec => []BillsAgree
<1>1. MCInit => BillInv
  BY BillInit DEF MCInit
<1>2. BillInv => BillsAgree
  BY ConfirmedAreBacked DEF BillInv, BillsAgree, Bi!BillsAgree
<1> QED
  BY <1>1, <1>2, BillStep, PTL DEF MCSpec
-----------------------------------------------------------------------------
(***************************************************************************)
(* Rules.  The loop is followed round by round: LoopInv says what is known   *)
(* of the result after the first rules in their order.  RuleInv counts hits. *)
(***************************************************************************)

RuleTypes ==
    /\ rule \in [Rules -> Ru!Rule]
    /\ loaded \in [Txs -> (SUBSET Rules) \cup {None}]

Count(t) == Cardinality(Ru!Loaded(t))
RuleAt(t, k) == Ru!Ordered(Ru!Loaded(t))[k]

Matching(t) == {r \in Ru!Loaded(t) : Ru!Holds(Says[rule[r].content].condition, t)}

\* The loop considers the rule at k: it matches, and no matching rule before it stops.
Reached(t, k) ==
    /\ RuleAt(t, k) \in Matching(t)
    /\ \A j \in 1..(k - 1) : RuleAt(t, j) \in Matching(t) => ~Ru!Stops(RuleAt(t, j))

\* The rule at k is the first of those considered that sets a field.
First(t, k, f) ==
    /\ f \in Ru!Sets(RuleAt(t, k))
    /\ \A j \in 1..(k - 1) : Reached(t, j) => f \notin Ru!Sets(RuleAt(t, j))

Contributed(t, k) ==
    (\E f \in Ru!Fields : First(t, k, f)) \/ "stop" \in DOMAIN Ru!Operations(RuleAt(t, k))

\* What the result says after n rounds.
Stopped(t, n, result) ==
    result.stoppedBy # None
      <=> \E k \in 1..n : RuleAt(t, k) \in Matching(t) /\ Ru!Stops(RuleAt(t, k))
Won(t, n, result) ==
    \A f \in Ru!Fields :
      \/ /\ result.by[f] = None
         /\ \A k \in 1..n : Reached(t, k) => f \notin Ru!Sets(RuleAt(t, k))
      \/ \E k \in 1..n : /\ Reached(t, k) /\ First(t, k, f)
                         /\ result.by[f] = RuleAt(t, k)
                         /\ result.value[f] = Ru!Operations(RuleAt(t, k))[f]
Lost(t, n, result) ==
    \A c : c \in result.conflicts <=>
      \E f \in Ru!Fields, k \in 1..n :
        /\ Reached(t, k) /\ f \in Ru!Sets(RuleAt(t, k))
        /\ Ru!Operations(RuleAt(t, k))[f] # result.value[f]
        /\ c = [field |-> f, loser |-> RuleAt(t, k), winner |-> result.by[f]]
Met(t, n, result) ==
    /\ result.matched \in Seq([rule : Rules, contributed : BOOLEAN])
    /\ \A m : m \in Ru!Range(result.matched) <=>
         \E k \in 1..n : /\ Reached(t, k)
                         /\ m = [rule |-> RuleAt(t, k), contributed |-> Contributed(t, k)]

LoopInv(t, n, result) ==
    /\ Stopped(t, n, result) /\ Won(t, n, result)
    /\ Lost(t, n, result) /\ Met(t, n, result)

RuleInv ==
    /\ Ru!TypeOK
    /\ IsFiniteSet(decisions)
    /\ Ru!HitsAreDecisions

-----------------------------------------------------------------------------
\* The loaded rules are ordered, each at one place.
LEMMA RulesOrdered ==
  ASSUME RuleTypes, NEW t \in Txs
  PROVE  /\ Count(t) \in Nat /\ Ru!Loaded(t) \subseteq Rules
         /\ \A k \in 1..Count(t) : RuleAt(t, k) \in Ru!Loaded(t)
         /\ \A r \in Ru!Loaded(t) : \E k \in 1..Count(t) : RuleAt(t, k) = r
         /\ \A j, k \in 1..Count(t) : j < k <=> Ru!Precedes(RuleAt(t, j), RuleAt(t, k))
         /\ \A j, k \in 1..Count(t) : RuleAt(t, j) = RuleAt(t, k) => j = k
<1> DEFINE S == Ru!Loaded(t)
           n == Cardinality(S)
           Earlier == {pair \in S \X S : Ru!Precedes(pair[1], pair[2])}
<1>1. S \subseteq Rules
  <2>1. Ru!ActiveRules \subseteq Rules
    BY DEF Ru!ActiveRules
  <2>2. loaded[t] \in (SUBSET Rules) \cup {None}
    BY DEF RuleTypes
  <2>3. CASE loaded[t] = None
    BY <2>1, <2>3 DEF Ru!Loaded
  <2>4. CASE loaded[t] # None
    BY <2>2, <2>4 DEF Ru!Loaded
  <2> QED
    BY <2>3, <2>4
<1>2. IsFiniteSet(S)
  BY <1>1, RuleAssumption, FS_Subset
<1>3. \A r, s \in S : <<r, s>> \in Earlier <=> Ru!Precedes(r, s)
  OBVIOUS
<1>4. \A r \in S : Says[rule[r].content].priority \in Int
  BY <1>1, RuleAssumption DEF RuleTypes, Ru!Rule
<1> HIDE DEF Earlier, S
<1>5. StrictOrder(Earlier, S)
  <2>1. ASSUME NEW r \in S PROVE ~Ru!Precedes(r, r)
    BY <1>1, <1>4, RuleAssumption DEF Ru!Precedes
  <2>2. ASSUME NEW q \in S, NEW r \in S, NEW s \in S, Ru!Precedes(q, r), Ru!Precedes(r, s)
        PROVE  Ru!Precedes(q, s)
    BY <1>1, <1>4, <2>2, RuleAssumption DEF Ru!Precedes
  <2>3. ASSUME NEW r \in S, NEW s \in S PROVE r = s \/ Ru!Precedes(r, s) \/ Ru!Precedes(s, r)
    BY <1>1, <1>4, RuleAssumption DEF Ru!Precedes
  <2> QED
    BY <1>3, <2>1, <2>2, <2>3 DEF StrictOrder
<1>6. n \in Nat
  BY <1>2, FS_CardinalityType
<1> DEFINE Sorted(s) == \A j, k \in 1..n : j < k => Ru!Precedes(s[j], s[k])
<1>7. \E s \in [1..n -> S] : Sorted(s)
  <2>1. PICK s \in [1..n -> S] : Ascending(s, n, Earlier)
    BY <1>2, <1>5, Sorting
  <2> QED
    BY <1>3, <2>1 DEF Ascending
<1> DEFINE chosen == CHOOSE s \in [1..n -> S] : Sorted(s)
<1>8. chosen \in [1..n -> S] /\ Sorted(chosen)
  <2> HIDE DEF Sorted, n
  <2> QED
    BY <1>7
<1>9. Ru!Ordered(S) = chosen
  BY SameCardinality DEF Ru!Ordered
<1> HIDE DEF chosen
<1>10. Ascending(chosen, n, Earlier)
  BY <1>3, <1>8 DEF Ascending
<1>11. /\ \A r \in S : \E k \in 1..n : chosen[k] = r
       /\ \A j, k \in 1..n : j < k <=> <<chosen[j], chosen[k]>> \in Earlier
       /\ \A j, k \in 1..n : chosen[j] = chosen[k] => j = k
  BY <1>2, <1>5, <1>8, <1>10, SortedIsComplete
<1>12. \A k \in 1..n : RuleAt(t, k) = chosen[k]
  BY <1>9 DEF RuleAt, S
<1>13. \A k \in 1..n : chosen[k] \in S
  BY <1>8
<1>14. Count(t) = n
  BY DEF Count, S
<1>15. \A j, k \in 1..n : j < k <=> Ru!Precedes(chosen[j], chosen[k])
  BY <1>3, <1>11, <1>13
<1>16. S = Ru!Loaded(t)
  BY DEF S
<1> HIDE DEF n
<1> QED
  BY <1>1, <1>6, <1>11, <1>12, <1>13, <1>14, <1>15, <1>16
\* The rounds are what their definition says: results that satisfy it exist.
LEMMA RoundsFollow ==
  ASSUME RuleTypes, NEW t \in Txs
  PROVE  /\ Ru!Rounds(t)[0] = Ru!NoResult
         /\ \A n \in 1..Count(t) :
              Ru!Rounds(t)[n] = Ru!Considered(Ru!Rounds(t)[n - 1], RuleAt(t, n), t)
<1> DEFINE next(x, n) == Ru!Considered(x, RuleAt(t, n), t)
           follows(f, m) == f = [n \in 0..m |-> IF n = 0 THEN Ru!NoResult ELSE next(f[n - 1], n)]
           last == Count(t)
<1>1. last \in Nat
  BY RulesOrdered
<1> HIDE DEF next, last
<1>2. ASSUME NEW m \in Nat, NEW f, follows(f, m) PROVE \E g : follows(g, m + 1)
  <2> DEFINE g == [n \in 0..(m + 1) |-> IF n = m + 1 THEN next(f[m], m + 1) ELSE f[n]]
  <2>1. \A n \in 0..m : f[n] = IF n = 0 THEN Ru!NoResult ELSE next(f[n - 1], n)
    BY <1>2
  <2>2. ASSUME NEW n \in 0..(m + 1)
        PROVE  g[n] = IF n = 0 THEN Ru!NoResult ELSE next(g[n - 1], n)
    <3>1. CASE n = 0
      BY <2>1, <3>1
    <3>2. CASE n \in 1..m
      <4>1. g[n] = f[n] /\ g[n - 1] = f[n - 1]
        BY <3>2
      <4> HIDE DEF g
      <4> QED
        BY <2>1, <3>2, <4>1
    <3>3. CASE n = m + 1
      <4>1. g[n] = next(f[m], m + 1) /\ g[n - 1] = f[m] /\ n - 1 = m /\ n # 0
        BY <3>3
      <4> HIDE DEF g
      <4> QED
        BY <3>3, <4>1
    <3> QED
      BY <3>1, <3>2, <3>3
  <2>3. g = [n \in 0..(m + 1) |-> g[n]]
    OBVIOUS
  <2> HIDE DEF g
  <2>4. g = [n \in 0..(m + 1) |-> IF n = 0 THEN Ru!NoResult ELSE next(g[n - 1], n)]
    BY <2>2, <2>3
  <2> QED
    BY <2>4
<1>3. \E f : follows(f, 0)
  <2> DEFINE f == [n \in 0..0 |-> Ru!NoResult]
  <2>1. \A n \in 0..0 : n = 0
    OBVIOUS
  <2>2. f = [n \in 0..0 |-> IF n = 0 THEN Ru!NoResult ELSE next(f[n - 1], n)]
    BY <2>1
  <2> QED
    BY <2>2
<1> HIDE DEF follows
<1>4. \E f : follows(f, last)
  <2> DEFINE without == {m \in Nat : ~\E f : follows(f, m)}
  <2>1. SUFFICES ASSUME without # {} PROVE FALSE
    BY <1>1
  <2>2. PICK m \in without : \A n \in without : ~(n < m)
    BY <2>1, Least
  <2>3. m \in Nat /\ m # 0
    BY <1>3, <2>2
  <2>4. m - 1 \in Nat /\ m - 1 \notin without /\ (m - 1) + 1 = m
    BY <2>2, <2>3
  <2>5. \E f : follows(f, m - 1)
    BY <2>4
  <2> QED
    BY <1>2, <2>2, <2>4, <2>5
<1> DEFINE chosen == CHOOSE f : follows(f, last)
<1>5. follows(chosen, last)
  BY <1>4
<1>6. Ru!Rounds(t) = chosen
  BY SameCardinality DEF Ru!Rounds, follows, next, last, Count, RuleAt
<1> HIDE DEF chosen
<1>7. chosen = [n \in 0..last |-> IF n = 0 THEN Ru!NoResult ELSE next(chosen[n - 1], n)]
  BY <1>5 DEF follows
<1>8. chosen[0] = Ru!NoResult /\ \A n \in 1..last : chosen[n] = next(chosen[n - 1], n)
  BY <1>1, <1>7
<1> QED
  BY <1>6, <1>8 DEF next, last
\* A field that is set is set once, and the rule at a place is a rule.
LEMMA RulesSet ==
  ASSUME RuleTypes, NEW t \in Txs, NEW k \in 1..Count(t)
  PROVE  /\ RuleAt(t, k) \in Rules /\ RuleAt(t, k) # None
         /\ Ru!Sets(RuleAt(t, k)) \subseteq Ru!Fields
         /\ RuleAt(t, k) \in Matching(t)
              <=> Ru!Holds(Says[rule[RuleAt(t, k)].content].condition, t)
<1>1. RuleAt(t, k) \in Rules /\ RuleAt(t, k) \in Ru!Loaded(t)
  BY RulesOrdered
<1>2. rule[RuleAt(t, k)].content \in Contents
  BY <1>1 DEF RuleTypes, Ru!Rule
<1>3. Ru!Sets(RuleAt(t, k)) \subseteq Ru!Fields
  BY <1>2, RuleAssumption DEF Ru!Sets, Ru!Operations
<1> QED
  BY <1>1, <1>3, RuleAssumption DEF Matching

\* A sequence's elements, with one more.
LEMMA RangeOfAppend ==
  ASSUME NEW E, NEW s \in Seq(E), NEW e \in E
  PROVE  Append(s, e) \in Seq(E) /\ Ru!Range(Append(s, e)) = Ru!Range(s) \cup {e}
<1>1. /\ Append(s, e) \in Seq(E) /\ Len(s) \in Nat
      /\ DOMAIN s = 1..Len(s) /\ DOMAIN Append(s, e) = 1..(Len(s) + 1)
      /\ Append(s, e)[Len(s) + 1] = e
      /\ \A k \in 1..Len(s) : Append(s, e)[k] = s[k]
  OBVIOUS
<1>2. \A k \in 1..(Len(s) + 1) : k \in 1..Len(s) \/ k = Len(s) + 1
  BY <1>1
<1>3. 1..Len(s) \subseteq 1..(Len(s) + 1) /\ Len(s) + 1 \in 1..(Len(s) + 1)
  BY <1>1
<1> QED
  BY <1>1, <1>2, <1>3 DEF Ru!Range

\* A rule that does not match, or comes after a stop, changes nothing.
LEMMA RuleSkipped ==
  ASSUME RuleTypes, NEW t \in Txs, NEW n \in Nat, n < Count(t), NEW result,
         LoopInv(t, n, result),
         result.stoppedBy # None \/ RuleAt(t, n + 1) \notin Matching(t)
  PROVE  LoopInv(t, n + 1, result)
<1>1. ~Reached(t, n + 1)
  BY DEF LoopInv, Stopped, Reached
<1>2. \A k \in 1..(n + 1) : k \in 1..n \/ k = n + 1
  OBVIOUS
<1>3. 1..n \subseteq 1..(n + 1)
  OBVIOUS
<1>4. Stopped(t, n + 1, result)
  BY <1>2, <1>3 DEF LoopInv, Stopped
<1>5. Won(t, n + 1, result)
  BY <1>1, <1>2, <1>3 DEF LoopInv, Won
<1>6. Lost(t, n + 1, result)
  BY <1>1, <1>2, <1>3 DEF LoopInv, Lost
<1>7. Met(t, n + 1, result)
  BY <1>1, <1>2, <1>3 DEF LoopInv, Met
<1> QED
  BY <1>4, <1>5, <1>6, <1>7 DEF LoopInv

\* A rule that matches before any stop wins the fields nobody has won.
LEMMA RuleConsidered ==
  ASSUME RuleTypes, NEW t \in Txs, NEW n \in Nat, n < Count(t), NEW result,
         LoopInv(t, n, result),
         result.stoppedBy = None, RuleAt(t, n + 1) \in Matching(t)
  PROVE  LoopInv(t, n + 1, Ru!Considered(result, RuleAt(t, n + 1), t))
<1> DEFINE r == RuleAt(t, n + 1)
           won == {f \in Ru!Sets(r) : Ru!Accept(result, f)}
           ops == Ru!Operations(r)
           next == Ru!Considered(result, r, t)
           record == [rule |-> r, contributed |-> won # {} \/ "stop" \in DOMAIN ops]
<1>1. /\ n + 1 \in 1..Count(t) /\ 1..n \subseteq 1..(n + 1)
      /\ \A k \in 1..(n + 1) : (k \in 1..n \/ k = n + 1) /\ k \in 1..Count(t)
      /\ Count(t) \in Nat
  BY RulesOrdered
<1>2. r \in Rules /\ r # None /\ Ru!Sets(r) \subseteq Ru!Fields
  BY <1>1, RulesSet
<1>3. Ru!Holds(Says[rule[r].content].condition, t)
  BY <1>1, RulesSet
<1>4. next = [value |-> [f \in Ru!Fields |-> IF f \in won THEN ops[f] ELSE result.value[f]],
              by |-> [f \in Ru!Fields |-> IF f \in won THEN r ELSE result.by[f]],
              conflicts |-> result.conflicts
                              \cup {[field |-> f, loser |-> r, winner |-> result.by[f]] :
                                      f \in {f \in Ru!Sets(r) \ won : ops[f] # result.value[f]}},
              matched |-> Append(result.matched, record),
              stoppedBy |-> IF Ru!Stops(r) THEN r ELSE None]
  BY <1>3 DEF Ru!Considered
<1>5. Reached(t, n + 1)
  BY DEF LoopInv, Stopped, Reached
<1>6. \A f \in Ru!Fields : f \in won <=> f \in Ru!Sets(r) /\ result.by[f] = None
  BY <1>2 DEF Ru!Accept
<1>7. \A f \in Ru!Fields : f \in won <=> First(t, n + 1, f)
  <2> SUFFICES ASSUME NEW f \in Ru!Fields PROVE f \in won <=> First(t, n + 1, f)
    OBVIOUS
  <2>1. \A k \in 1..n : RuleAt(t, k) # None
    BY <1>1, RulesSet
  <2>2. result.by[f] = None <=> \A k \in 1..n : Reached(t, k) => f \notin Ru!Sets(RuleAt(t, k))
    BY <2>1 DEF LoopInv, Won, First
  <2> QED
    BY <1>6, <2>2 DEF First
<1>8. won \subseteq Ru!Fields
  BY <1>2
<1> HIDE DEF won, next
<1>9. Stopped(t, n + 1, next)
  BY <1>1, <1>2, <1>4 DEF LoopInv, Stopped
<1>10. ASSUME NEW f \in Ru!Fields
       PROVE  /\ next.by[f] = IF f \in won THEN r ELSE result.by[f]
              /\ next.value[f] = IF f \in won THEN ops[f] ELSE result.value[f]
  BY <1>4
<1>11. Won(t, n + 1, next)
  <2> SUFFICES ASSUME NEW f \in Ru!Fields
               PROVE  \/ /\ next.by[f] = None
                         /\ \A k \in 1..(n + 1) : Reached(t, k) => f \notin Ru!Sets(RuleAt(t, k))
                      \/ \E k \in 1..(n + 1) : /\ Reached(t, k) /\ First(t, k, f)
                                               /\ next.by[f] = RuleAt(t, k)
                                               /\ next.value[f] = Ru!Operations(RuleAt(t, k))[f]
    BY DEF Won
  <2>1. CASE f \in won
    BY <1>1, <1>5, <1>7, <1>10, <2>1
  <2>2. CASE f \notin won
    BY <1>1, <1>6, <1>10, <2>2 DEF LoopInv, Won
  <2> QED
    BY <2>1, <2>2
<1>12. Lost(t, n + 1, next)
  <2> SUFFICES ASSUME NEW c
               PROVE  c \in next.conflicts <=>
                        \E f \in Ru!Fields, k \in 1..(n + 1) :
                          /\ Reached(t, k) /\ f \in Ru!Sets(RuleAt(t, k))
                          /\ Ru!Operations(RuleAt(t, k))[f] # next.value[f]
                          /\ c = [field |-> f, loser |-> RuleAt(t, k), winner |-> next.by[f]]
    BY DEF Lost
  <2>1. c \in next.conflicts <=>
          \/ c \in result.conflicts
          \/ \E f \in Ru!Sets(r) \ won : /\ ops[f] # result.value[f]
                                         /\ c = [field |-> f, loser |-> r, winner |-> result.by[f]]
    BY <1>4
  <2>2. ASSUME NEW f \in Ru!Fields, NEW k \in 1..n, Reached(t, k), f \in Ru!Sets(RuleAt(t, k))
        PROVE  f \notin won
    BY <1>7, <2>2 DEF First
  <2>3. c \in result.conflicts <=>
          \E f \in Ru!Fields, k \in 1..n :
            /\ Reached(t, k) /\ f \in Ru!Sets(RuleAt(t, k))
            /\ Ru!Operations(RuleAt(t, k))[f] # next.value[f]
            /\ c = [field |-> f, loser |-> RuleAt(t, k), winner |-> next.by[f]]
    BY <1>10, <2>2 DEF LoopInv, Lost
  <2>4. (\E f \in Ru!Sets(r) \ won : /\ ops[f] # result.value[f]
                                     /\ c = [field |-> f, loser |-> r, winner |-> result.by[f]])
          <=> \E f \in Ru!Fields :
                /\ f \in Ru!Sets(r) /\ ops[f] # next.value[f]
                /\ c = [field |-> f, loser |-> r, winner |-> next.by[f]]
    BY <1>2, <1>10
  <2> QED
    BY <1>1, <1>5, <2>1, <2>3, <2>4
<1>13. Met(t, n + 1, next)
  <2>1. record \in [rule : Rules, contributed : BOOLEAN]
    BY <1>2
  <2>2. record = [rule |-> r, contributed |-> Contributed(t, n + 1)]
    BY <1>7, <1>8 DEF Contributed
  <2>3. next.matched = Append(result.matched, record)
    BY <1>4
  <2> HIDE DEF record
  <2>4. /\ next.matched \in Seq([rule : Rules, contributed : BOOLEAN])
        /\ Ru!Range(next.matched) = Ru!Range(result.matched) \cup {record}
    <3>1. result.matched \in Seq([rule : Rules, contributed : BOOLEAN])
      BY DEF LoopInv, Met
    <3> DEFINE E == [rule : Rules, contributed : BOOLEAN]
    <3> HIDE DEF E
    <3>2. result.matched \in Seq(E) /\ record \in E
      BY <2>1, <3>1 DEF E
    <3>3. /\ Append(result.matched, record) \in Seq(E)
          /\ Ru!Range(Append(result.matched, record)) = Ru!Range(result.matched) \cup {record}
      BY <3>2, RangeOfAppend
    <3> QED
      BY <2>3, <3>3 DEF E
  <2>5. \A m : m \in Ru!Range(result.matched) <=>
         \E k \in 1..n : /\ Reached(t, k)
                         /\ m = [rule |-> RuleAt(t, k), contributed |-> Contributed(t, k)]
    BY DEF LoopInv, Met
  <2> QED
    BY <1>1, <1>5, <2>2, <2>4, <2>5 DEF Met
<1> QED
  BY <1>9, <1>11, <1>12, <1>13 DEF LoopInv, next
\* What the loop computes of all the loaded rules.
LEMMA LoopEnds ==
  ASSUME RuleTypes, NEW t \in Txs
  PROVE  LoopInv(t, Count(t), Ru!Evaluation(t))
<1> DEFINE Good(n) == n \in 0..Count(t) => LoopInv(t, n, Ru!Rounds(t)[n])
           without == {n \in Nat : ~Good(n)}
<1>1. Count(t) \in Nat
  BY RulesOrdered
<1>2. Good(0)
  <2>1. /\ 1..0 = {} /\ Ru!NoResult.stoppedBy = None /\ Ru!NoResult.conflicts = {}
        /\ Ru!NoResult.matched = <<>> /\ \A f \in Ru!Fields : Ru!NoResult.by[f] = None
    BY DEF Ru!NoResult
  <2>2. <<>> \in Seq([rule : Rules, contributed : BOOLEAN]) /\ Ru!Range(<<>>) = {}
    BY DEF Ru!Range
  <2> HIDE DEF Good
  <2>3. LoopInv(t, 0, Ru!NoResult)
    BY <2>1, <2>2 DEF LoopInv, Stopped, Won, Lost, Met
  <2> QED
    BY <2>3, RoundsFollow DEF Good
<1>3. ASSUME NEW n \in Nat, Good(n) PROVE Good(n + 1)
  <2> SUFFICES ASSUME n + 1 \in 0..Count(t) PROVE LoopInv(t, n + 1, Ru!Rounds(t)[n + 1])
    OBVIOUS
  <2>1. n < Count(t) /\ n + 1 \in 1..Count(t) /\ n \in 0..Count(t) /\ (n + 1) - 1 = n
    BY <1>1
  <2> DEFINE result == Ru!Rounds(t)[n]
             r == RuleAt(t, n + 1)
  <2>2. LoopInv(t, n, result)
    BY <1>3, <2>1
  <2>3. Ru!Rounds(t)[n + 1] = Ru!Considered(result, r, t)
    BY <2>1, RoundsFollow
  <2>4. r \in Matching(t) <=> Ru!Holds(Says[rule[r].content].condition, t)
    BY <2>1, RulesSet
  <2> HIDE DEF result, Good
  <2>5. CASE result.stoppedBy # None \/ r \notin Matching(t)
    <3>1. Ru!Considered(result, r, t) = result
      BY <2>4, <2>5 DEF Ru!Considered
    <3> QED
      BY <2>1, <2>2, <2>3, <2>5, <3>1, RuleSkipped
  <2>6. CASE result.stoppedBy = None /\ r \in Matching(t)
    BY <2>1, <2>2, <2>3, <2>6, RuleConsidered
  <2> QED
    BY <2>5, <2>6
<1> HIDE DEF Good
<1>4. \A n \in Nat : Good(n)
  <2> SUFFICES ASSUME without # {} PROVE FALSE
    OBVIOUS
  <2>1. PICK n \in without : \A m \in without : ~(m < n)
    BY Least
  <2>2. n \in Nat /\ n # 0
    BY <1>2, <2>1
  <2>3. n - 1 \in Nat /\ n - 1 \notin without /\ (n - 1) + 1 = n
    BY <2>1, <2>2
  <2>4. Good(n - 1)
    BY <2>3
  <2> QED
    BY <1>3, <2>1, <2>3, <2>4
<1>5. Ru!Evaluation(t) = Ru!Rounds(t)[Count(t)]
  BY SameCardinality DEF Ru!Evaluation, Count
<1> QED
  BY <1>1, <1>4, <1>5 DEF Good

\* What the loop knows of the places is what the order of the rules declares.
LEMMA LoopIsDeclared == RuleTypes => Ru!ResultsAreDeclared
<1> SUFFICES ASSUME RuleTypes, NEW t \in Txs
             PROVE  LET matching == {r \in Ru!Loaded(t) : Ru!Holds(Says[rule[r].content].condition, t)}
                        before(r) == {s \in matching : Ru!Precedes(s, r)}
                        considered == {r \in matching : \A s \in before(r) : ~Ru!Stops(s)}
                        wins(r, f) == f \in Ru!Sets(r) /\ \A s \in before(r) : f \notin Ru!Sets(s)
                        result == Ru!Evaluation(t)
                    IN /\ {m.rule : m \in Ru!Matched(t)} = considered
                       /\ \A f \in Ru!Fields, r \in considered :
                            /\ wins(r, f) <=> result.by[f] = r
                            /\ wins(r, f) => result.value[f] = Ru!Operations(r)[f]
                            /\ (f \in Ru!Sets(r) /\ result.value[f] # Ru!Operations(r)[f])
                               <=> [field |-> f, loser |-> r, winner |-> result.by[f]] \in result.conflicts
                       /\ \A m \in Ru!Matched(t) :
                            m.contributed <=> \/ \E f \in Ru!Fields : wins(m.rule, f)
                                              \/ "stop" \in DOMAIN Ru!Operations(m.rule)
  BY DEF Ru!ResultsAreDeclared
<1> DEFINE n == Count(t)
           at(k) == RuleAt(t, k)
           matching == {r \in Ru!Loaded(t) : Ru!Holds(Says[rule[r].content].condition, t)}
           before(r) == {s \in matching : Ru!Precedes(s, r)}
           considered == {r \in matching : \A s \in before(r) : ~Ru!Stops(s)}
           wins(r, f) == f \in Ru!Sets(r) /\ \A s \in before(r) : f \notin Ru!Sets(s)
           result == Ru!Evaluation(t)
<1>1. /\ n \in Nat
      /\ \A k \in 1..n : at(k) \in Ru!Loaded(t)
      /\ \A r \in Ru!Loaded(t) : \E k \in 1..n : at(k) = r
      /\ \A j, k \in 1..n : j < k <=> Ru!Precedes(at(j), at(k))
      /\ \A j, k \in 1..n : at(j) = at(k) => j = k
  BY RulesOrdered
<1>2. LoopInv(t, n, result)
  BY LoopEnds
<1>3. matching = Matching(t)
  BY DEF Matching
<1> HIDE DEF n, at, matching, result
<1>4. ASSUME NEW k \in 1..n
      PROVE  before(at(k)) = {at(j) : j \in {j \in 1..(k - 1) : at(j) \in Matching(t)}}
  <2>1. ASSUME NEW s \in before(at(k))
        PROVE  s \in {at(j) : j \in {j \in 1..(k - 1) : at(j) \in Matching(t)}}
    <3>1. s \in Matching(t) /\ s \in Ru!Loaded(t) /\ Ru!Precedes(s, at(k))
      BY <1>3, <2>1 DEF Matching
    <3>2. PICK j \in 1..n : at(j) = s
      BY <1>1, <3>1
    <3>3. j < k
      BY <1>1, <3>1, <3>2
    <3>4. j \in 1..(k - 1)
      BY <1>1, <3>3
    <3> QED
      BY <3>1, <3>2, <3>4
  <2>2. ASSUME NEW j \in 1..(k - 1), at(j) \in Matching(t)
        PROVE  at(j) \in before(at(k))
    <3>1. j \in 1..n /\ j < k
      BY <1>1
    <3> QED
      BY <1>1, <1>3, <2>2, <3>1
  <2> QED
    BY <2>1, <2>2
<1>5. ASSUME NEW k \in 1..n PROVE Reached(t, k) <=> at(k) \in considered
  BY <1>3, <1>4 DEF Reached, at
<1>6. ASSUME NEW k \in 1..n, Reached(t, k), NEW f PROVE First(t, k, f) <=> wins(at(k), f)
  <2>1. ASSUME NEW j \in 1..(k - 1), at(j) \in Matching(t) PROVE Reached(t, j)
    BY <1>1, <1>6, <2>1 DEF Reached, at
  <2>2. ASSUME NEW j \in 1..(k - 1), Reached(t, j) PROVE at(j) \in Matching(t)
    BY <2>2 DEF Reached, at
  <2> QED
    BY <1>4, <2>1, <2>2 DEF First, at
<1> HIDE DEF wins, before
<1>7. \A r \in considered : \E k \in 1..n : at(k) = r /\ Reached(t, k)
  <2> SUFFICES ASSUME NEW r \in considered PROVE \E k \in 1..n : at(k) = r /\ Reached(t, k)
    OBVIOUS
  <2>1. r \in Ru!Loaded(t)
    BY DEF matching
  <2>2. PICK k \in 1..n : at(k) = r
    BY <1>1, <2>1
  <2> QED
    BY <1>5, <2>2
<1> HIDE DEF considered
<1>8. \A m : m \in Ru!Matched(t) <=>
         \E k \in 1..n : Reached(t, k) /\ m = [rule |-> at(k), contributed |-> Contributed(t, k)]
  BY <1>2 DEF LoopInv, Met, Ru!Matched, result, at
<1>9. {m.rule : m \in Ru!Matched(t)} = considered
  <2>1. ASSUME NEW m \in Ru!Matched(t) PROVE m.rule \in considered
    BY <1>5, <1>8
  <2>2. ASSUME NEW r \in considered PROVE \E m \in Ru!Matched(t) : m.rule = r
    <3>1. PICK k \in 1..n : at(k) = r /\ Reached(t, k)
      BY <1>7
    <3>2. [rule |-> at(k), contributed |-> Contributed(t, k)] \in Ru!Matched(t)
      BY <1>8, <3>1
    <3> QED
      BY <3>1, <3>2
  <2> QED
    BY <2>1, <2>2
<1>10. ASSUME NEW f \in Ru!Fields, NEW r \in considered
       PROVE  /\ wins(r, f) <=> result.by[f] = r
              /\ wins(r, f) => result.value[f] = Ru!Operations(r)[f]
              /\ (f \in Ru!Sets(r) /\ result.value[f] # Ru!Operations(r)[f])
                 <=> [field |-> f, loser |-> r, winner |-> result.by[f]] \in result.conflicts
  <2>1. PICK k \in 1..n : at(k) = r /\ Reached(t, k)
    BY <1>7
  <2>2. r # None
    BY <2>1, RulesSet DEF at, n
  <2>3. wins(r, f) <=> First(t, k, f)
    BY <1>6, <2>1
  <2>4. \/ /\ result.by[f] = None
           /\ \A j \in 1..n : Reached(t, j) => f \notin Ru!Sets(at(j))
        \/ \E j \in 1..n : /\ Reached(t, j) /\ First(t, j, f)
                           /\ result.by[f] = at(j) /\ result.value[f] = Ru!Operations(at(j))[f]
    BY <1>2 DEF LoopInv, Won, at
  <2>5. ASSUME NEW j \in 1..n, Reached(t, j), First(t, j, f), First(t, k, f) PROVE j = k
    <3>1. f \in Ru!Sets(at(j)) /\ f \in Ru!Sets(at(k))
      BY <2>5 DEF First, at
    <3>2. ~(j \in 1..(k - 1)) /\ ~(k \in 1..(j - 1))
      BY <2>1, <2>5, <3>1 DEF First, at
    <3> QED
      BY <1>1, <3>2
  <2>6. wins(r, f) => result.by[f] = r /\ result.value[f] = Ru!Operations(r)[f]
    <3> SUFFICES ASSUME First(t, k, f)
                 PROVE  result.by[f] = r /\ result.value[f] = Ru!Operations(r)[f]
      BY <2>3
    <3>1. f \in Ru!Sets(at(k))
      BY DEF First, at
    <3> QED
      BY <2>1, <2>4, <2>5, <3>1
  <2>7. result.by[f] = r => wins(r, f)
    <3> SUFFICES ASSUME result.by[f] = r PROVE First(t, k, f)
      BY <2>3
    <3>1. PICK j \in 1..n : First(t, j, f) /\ at(j) = r
      BY <2>2, <2>4
    <3> QED
      BY <1>1, <2>1, <3>1
  <2>8. [field |-> f, loser |-> r, winner |-> result.by[f]] \in result.conflicts
          <=> \E g \in Ru!Fields, j \in 1..n :
                /\ Reached(t, j) /\ g \in Ru!Sets(at(j))
                /\ Ru!Operations(at(j))[g] # result.value[g]
                /\ [field |-> f, loser |-> r, winner |-> result.by[f]]
                     = [field |-> g, loser |-> at(j), winner |-> result.by[g]]
    BY <1>2 DEF LoopInv, Lost, at
  <2>9. [field |-> f, loser |-> r, winner |-> result.by[f]] \in result.conflicts
          <=> f \in Ru!Sets(r) /\ result.value[f] # Ru!Operations(r)[f]
    BY <2>1, <2>8
  <2> QED
    BY <2>6, <2>7, <2>9
<1>11. ASSUME NEW m \in Ru!Matched(t)
       PROVE  m.contributed <=> \/ \E f \in Ru!Fields : wins(m.rule, f)
                                \/ "stop" \in DOMAIN Ru!Operations(m.rule)
  <2>1. PICK k \in 1..n : Reached(t, k) /\ m = [rule |-> at(k), contributed |-> Contributed(t, k)]
    BY <1>8
  <2>2. m.rule = at(k) /\ m.contributed = Contributed(t, k)
    BY <2>1
  <2>3. \A f : First(t, k, f) <=> wins(at(k), f)
    BY <1>6, <2>1
  <2> QED
    BY <2>2, <2>3 DEF Contributed, at
<1> QED
  BY <1>9, <1>10, <1>11 DEF considered, wins, before, matching, result
-----------------------------------------------------------------------------
\* A rule matches at most once in an evaluation.
LEMMA MatchedOnce ==
  ASSUME RuleTypes, NEW t \in Txs
  PROVE  /\ \A m \in Ru!Matched(t) : m.rule \in Rules /\ m.contributed \in BOOLEAN
         /\ \A m, o \in Ru!Matched(t) : m.rule = o.rule => m = o
<1>1. \A m : m \in Ru!Matched(t) <=>
         \E k \in 1..Count(t) : /\ Reached(t, k)
                                /\ m = [rule |-> RuleAt(t, k), contributed |-> Contributed(t, k)]
  BY LoopEnds DEF LoopInv, Met, Ru!Matched
<1>2. \A k \in 1..Count(t) : RuleAt(t, k) \in Rules /\ Contributed(t, k) \in BOOLEAN
  BY RulesSet DEF Contributed
<1>3. \A j, k \in 1..Count(t) : RuleAt(t, j) = RuleAt(t, k) => j = k
  BY RulesOrdered
<1> QED
  BY <1>1, <1>2, <1>3

\* At first no rule is active and nothing is decided.
LEMMA RulesInit == Ru!Init => RuleInv
<1> SUFFICES ASSUME Ru!Init PROVE RuleInv
  OBVIOUS
<1>1. ASSUME NEW r \in Rules PROVE rule[r] \in Ru!Rule /\ rule[r].hits = 0
  <2>1. PICK c \in Contents : rule[r] = [active |-> FALSE, content |-> c, edits |-> 0, hits |-> 0]
    BY DEF Ru!Init
  <2> QED
    BY <2>1, RuleAssumption DEF Ru!Rule
<1>2. rule \in [Rules -> Ru!Rule]
  BY <1>1 DEF Ru!Init
<1>3. Ru!TypeOK
  BY <1>2, RuleAssumption DEF Ru!Init, Ru!TypeOK
<1>4. decisions = {}
  BY DEF Ru!Init
<1>5. \A r \in Rules : {d \in decisions : d.rule = r} = {}
  BY <1>4
<1>6. IsFiniteSet({}) /\ Ru!Cardinality({}) = 0
  BY FS_EmptySet, SameCardinality
<1> QED
  BY <1>1, <1>3, <1>4, <1>5, <1>6 DEF RuleInv, Ru!HitsAreDecisions

\* A finished evaluation records a decision for each new match, and counts each once.
LEMMA EvaluationCounted ==
  ASSUME RuleInv, NEW t \in Txs, Ru!Finish(t)
  PROVE  RuleInv'
<1>1. RuleTypes
  BY DEF RuleInv, Ru!TypeOK, RuleTypes
<1> DEFINE new == Ru!NewMatches(t)
           added == {Ru!Decision(t, m) : m \in new}
<1>2. /\ \A m \in new : m.rule \in Rules /\ m.contributed \in BOOLEAN
      /\ \A m, o \in new : m.rule = o.rule => m = o
  BY <1>1, MatchedOnce DEF Ru!NewMatches
<1>3. ASSUME NEW m \in new
      PROVE  /\ Ru!Decision(t, m) \notin decisions
             /\ Ru!Decision(t, m).tx = t /\ Ru!Decision(t, m).rule = m.rule
             /\ Ru!Decision(t, m).selected = m.contributed
  BY DEF Ru!NewMatches, Ru!Recorded, Ru!Decision
<1>4. /\ decisions' = decisions \cup added
      /\ rule' = [r \in Rules |-> IF \E m \in new : m.rule = r
                                    THEN [rule[r] EXCEPT !.hits = rule[r].hits + 1]
                                    ELSE rule[r]]
      /\ loaded' = [loaded EXCEPT ![t] = None]
      /\ DOMAIN applied' = DOMAIN applied
      /\ DOMAIN applied'[t] = Ru!Fields
      /\ \A u \in Txs : u # t => applied'[u] = applied[u]
      /\ UNCHANGED <<facts, imports>>
  BY DEF Ru!Finish, RuleInv, Ru!TypeOK
<1> HIDE DEF new
<1>5. IsFiniteSet(added)
  <2> DEFINE images == {m.rule : m \in new}
             decided == [r \in images |-> Ru!Decision(t, CHOOSE m \in new : m.rule = r)]
  <2>1. IsFiniteSet(images)
    <3>1. images \subseteq Rules
      BY <1>2
    <3> QED
      BY <3>1, RuleAssumption, FS_Subset
  <2>2. ASSUME NEW m \in new PROVE decided[m.rule] = Ru!Decision(t, m)
    <3>1. (CHOOSE o \in new : o.rule = m.rule) = m
      BY <1>2
    <3> QED
      BY <3>1
  <2>3. decided \in Surjection(images, added)
    <3>1. \A r \in images : decided[r] \in added
      BY <2>2
    <3>2. ASSUME NEW d \in added PROVE \E r \in images : decided[r] = d
      <4>1. PICK m \in new : d = Ru!Decision(t, m)
        OBVIOUS
      <4>2. m.rule \in images /\ decided[m.rule] = d
        BY <2>2, <4>1
      <4> QED
        BY <4>2
    <3>3. decided \in [images -> added]
      BY <3>1
    <3> QED
      BY <3>2, <3>3 DEF Surjection
  <2> QED
    BY <2>1, <2>3, FS_Surjection
<1>6. IsFiniteSet(decisions')
  BY <1>4, <1>5, FS_Union DEF RuleInv
<1>7. ASSUME NEW r \in Rules
      PROVE  /\ rule'[r] \in Ru!Rule
             /\ rule'[r].hits = rule[r].hits + (IF \E m \in new : m.rule = r THEN 1 ELSE 0)
  <2>1. rule[r] \in Ru!Rule
    BY <1>1 DEF RuleTypes
  <2>2. [rule[r] EXCEPT !.hits = rule[r].hits + 1] \in Ru!Rule
    BY <2>1 DEF Ru!Rule
  <2>3. [rule[r] EXCEPT !.hits = rule[r].hits + 1].hits = rule[r].hits + 1
    BY <2>1 DEF Ru!Rule
  <2>4. rule[r].hits \in Nat
    BY <2>1 DEF Ru!Rule
  <2> QED
    BY <1>4, <2>1, <2>2, <2>3, <2>4
<1>8. ASSUME NEW d \in decisions' PROVE d.tx \in Txs /\ d.rule \in Rules /\ d.selected \in BOOLEAN
  BY <1>2, <1>3, <1>4 DEF RuleInv, Ru!TypeOK
<1>9. Ru!TypeOK'
  <2>1. rule' \in [Rules -> Ru!Rule]
    BY <1>4, <1>7
  <2>2. loaded' \in [Txs -> (SUBSET Rules) \cup {None}]
    BY <1>1, <1>4 DEF RuleTypes
  <2>3. \A u \in Txs : DOMAIN applied'[u] = Ru!Fields
    BY <1>4 DEF RuleInv, Ru!TypeOK
  <2> QED
    BY <1>4, <1>8, <2>1, <2>2, <2>3 DEF RuleInv, Ru!TypeOK
<1>10. ASSUME NEW r \in Rules
       PROVE  rule'[r].hits = Cardinality({d \in decisions' : d.rule = r})
  <2> DEFINE before == {d \in decisions : d.rule = r}
             after == {d \in decisions' : d.rule = r}
  <2>1. IsFiniteSet(before) /\ rule[r].hits = Cardinality(before)
    <3>1. IsFiniteSet(before)
      BY FS_Subset DEF RuleInv
    <3> QED
      BY <3>1, SameCardinality DEF RuleInv, Ru!HitsAreDecisions
  <2>2. Cardinality(before) \in Nat
    BY <2>1, FS_CardinalityType
  <2>3. CASE \E m \in new : m.rule = r
    <3>1. PICK m \in new : m.rule = r
      BY <2>3
    <3>2. after = before \cup {Ru!Decision(t, m)}
      BY <1>2, <1>3, <1>4, <3>1
    <3>3. Ru!Decision(t, m) \notin before
      BY <1>3
    <3> HIDE DEF before, after
    <3>4. Cardinality(after) = Cardinality(before) + 1
      BY <2>1, <3>2, <3>3, FS_AddElement
    <3> QED
      BY <1>7, <2>1, <2>3, <3>4 DEF after
  <2>4. CASE ~\E m \in new : m.rule = r
    <3>1. after = before
      BY <1>3, <1>4, <2>4
    <3> HIDE DEF before, after
    <3>2. rule'[r].hits = rule[r].hits + 0
      BY <1>7, <2>4
    <3>3. rule'[r].hits = Cardinality(after)
      BY <2>1, <2>2, <3>1, <3>2
    <3> QED
      BY <3>3 DEF after
  <2> QED
    BY <2>3, <2>4
<1> QED
  BY <1>6, <1>9, <1>10, SameCardinality DEF RuleInv, Ru!HitsAreDecisions

\* Every step of the rules keeps RuleInv, and so do the other parts' steps.
LEMMA RuleStep == RuleInv /\ [MCNext]_allVars => RuleInv'
<1> SUFFICES ASSUME RuleInv, [MCNext]_allVars PROVE RuleInv'
  OBVIOUS
<1> USE RuleAssumption
<1>1. CASE UNCHANGED ruleVars
  BY <1>1 DEF ruleVars, RuleInv, Ru!TypeOK, Ru!HitsAreDecisions
<1>2. ASSUME NEW t \in Txs, Ru!Begin(t) PROVE RuleInv'
  <2>1. Ru!ActiveRules \subseteq Rules
    BY DEF Ru!ActiveRules
  <2>2. loaded' \in [Txs -> (SUBSET Rules) \cup {None}]
    BY <1>2, <2>1 DEF Ru!Begin, RuleInv, Ru!TypeOK
  <2>3. Ru!TypeOK'
    BY <1>2, <2>2 DEF Ru!Begin, RuleInv, Ru!TypeOK
  <2> QED
    BY <1>2, <2>3 DEF Ru!Begin, RuleInv, Ru!HitsAreDecisions
<1>3. ASSUME NEW t \in Txs, Ru!Abort(t) PROVE RuleInv'
  <2>1. loaded' \in [Txs -> (SUBSET Rules) \cup {None}]
    BY <1>3 DEF Ru!Abort, RuleInv, Ru!TypeOK
  <2>2. Ru!TypeOK'
    BY <1>3, <2>1 DEF Ru!Abort, RuleInv, Ru!TypeOK
  <2> QED
    BY <1>3, <2>2 DEF Ru!Abort, RuleInv, Ru!HitsAreDecisions
<1>4. ASSUME NEW t \in Txs, Ru!Import(t) PROVE RuleInv'
  <2>1. facts' \in [Txs -> Facts] /\ imports' \in 0..MaxImports
    BY <1>4 DEF Ru!Import, RuleInv, Ru!TypeOK
  <2>2. Ru!TypeOK'
    BY <1>4, <2>1 DEF Ru!Import, RuleInv, Ru!TypeOK
  <2> QED
    BY <1>4, <2>2 DEF Ru!Import, RuleInv, Ru!HitsAreDecisions
<1>5. ASSUME NEW r \in Rules, Ru!EditRule(r) PROVE RuleInv'
  <2>1. PICK c \in Contents, active \in BOOLEAN :
          rule' = [rule EXCEPT ![r] = [active |-> active, content |-> c,
                                       edits |-> rule[r].edits + 1, hits |-> rule[r].hits]]
    BY <1>5 DEF Ru!EditRule
  <2> DEFINE new == [active |-> active, content |-> c,
                     edits |-> rule[r].edits + 1, hits |-> rule[r].hits]
  <2>2. rule[r] \in Ru!Rule /\ rule[r].edits < MaxEdits
    BY <1>5 DEF Ru!EditRule, RuleInv, Ru!TypeOK
  <2>3. new \in Ru!Rule /\ new.hits = rule[r].hits
    BY <2>2 DEF Ru!Rule
  <2> HIDE DEF new
  <2>4. rule' = [rule EXCEPT ![r] = new]
    BY <2>1 DEF new
  <2>5. rule' \in [Rules -> Ru!Rule]
    BY <2>3, <2>4 DEF RuleInv, Ru!TypeOK
  <2>6. \A q \in Rules : rule'[q].hits = rule[q].hits
    BY <2>3, <2>4 DEF RuleInv, Ru!TypeOK
  <2>7. Ru!TypeOK'
    BY <1>5, <2>5 DEF Ru!EditRule, RuleInv, Ru!TypeOK
  <2> QED
    BY <1>5, <2>6, <2>7 DEF Ru!EditRule, RuleInv, Ru!HitsAreDecisions
<1>6. CASE Ru!Next
  BY <1>2, <1>3, <1>4, <1>5, <1>6, EvaluationCounted DEF Ru!Next
<1> QED
  BY <1>1, <1>6 DEF MCNext, allVars

\* Evaluations compute what the rules declare, whatever the rules say and in whatever
\* order they were created, and the hits counted are the decisions recorded, for any
\* transactions, edits and imports.
THEOREM EvaluationsDeclared == MCSpec => []EvaluationsAreSound
<1>1. MCInit => RuleInv
  BY RulesInit DEF MCInit
<1>2. RuleInv => EvaluationsAreSound
  BY LoopIsDeclared DEF RuleInv, RuleTypes, Ru!TypeOK, EvaluationsAreSound, Ru!EvaluationsAreSound
<1> QED
  BY <1>1, <1>2, RuleStep, PTL DEF MCSpec
=============================================================================
