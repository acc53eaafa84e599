SPECIFICATION MCSpec
CONSTANTS
    None = None
    Parts = {"rules"}

    a = a  t1 = t1  t2 = t2  full = full  created = created  deleted = deleted
    Accounts = {a}  Transactions = {t1, t2}  AccountOf <- MCAccountOf  PageOf <- MCPageOf
    LastPage = 1
    Prints = {p, q}  Runs = {full, created, deleted}  KindOf <- MCKindOf
    Locking = {created, deleted}
    MaxPages = 2  MaxChanges = 1  MaxFaults = 1

    b1 = b1  Bills = {b1, b2}  Payments = {p1, p2}  BillOf <- MCBillOf
    Purchases = {e1}  Outflows = {o1, o2}  Values = {0, 3}  Tolerance = 1
    Importers = {j1}  Pages = {g1}  Reviewers = {u1, u2}  ListLimit = 1
    MaxBillChanges = 2  MaxRequests = 4

    c1 = c1  c2 = c2  i1 = i1  i2 = i2  h1 = h1  h2 = h2
    Connections = {c1, c2}  ConnectionOf <- MCConnectionOf  Imports = {i1, i2}
    HistoryRuns = {h1, h2}  Snapshots = {"old", "new"}  LastDay = 2  Window = 2
    MaxAccountChanges = 3

    A = A  B = B  tag = tag
    Rules = {A, B}  CreatedBefore <- MCCreatedBefore  Contents = {"buys", "trips", "tags"}
    Says <- MCSays  Txs = {t, u}  Facts = {0, 1}  ImportedRole = "unknown"  Tags = {tag}
    MaxEdits = 1  MaxImports = 1
INVARIANT AppliedIsRecorded
CHECK_DEADLOCK FALSE
