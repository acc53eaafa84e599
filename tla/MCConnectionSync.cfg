SPECIFICATION MCSpec
CONSTANTS
    Parts = {"table", "connection"}
    deletion = deletion
    update = update
    notice = notice
    page = page
    m1 = m1
    cron = cron
    fullImport = fullImport
    discovery = discovery
    None = None
    Events = {deletion, update, page}
    KindOf <- MCKindOf
    Manuals = {m1}
    Schedulers = {cron}
    Importers = {fullImport}
    Discoverers = {discovery}
    InitialStatus = {"ACTIVE", "DISABLED", "SYNCING", "ABSENT"}
    Budget = 2
    MaxTries = 3
    MaxFaults = 1
    LockLosses = 1

    k1 = k1  c1 = c1
    Requests <- MCQueueRequests  Workers = {w1, w2}  Conns = {c1}  Keys = {k1}
    LeaseDuration = 2  BackoffCap = 3  Instants = {0, 1, 2, 3}  RetryDelays = {1}
    ReclaimLimit = 2  MaxJobs = 2  MaxAttemptCap = 3
INVARIANTS SuccessIsReal ActiveDedupe WaitingIsClaimable LeaseExactlyWhileRunning
PROPERTIES EndsAreFinal NothingPremature NoLeaseTakeover ImplementsLifecycle
CHECK_DEADLOCK FALSE
