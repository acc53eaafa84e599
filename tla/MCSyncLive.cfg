SPECIFICATION MCSpec
CONSTANTS
    None = None
    Parts = {"connection", "locks", "client"}

    notice = notice
    Events = {notice}  KindOf <- MCKindOf
    Manuals = {}  Schedulers = {}  Importers = {}  Discoverers = {}
    InitialStatus = {"ACTIVE"}
    Budget = 2  MaxTries = 2  MaxFaults = 1  LockLosses = 0

    Tasks = {t1, t2, t3}  Trying = {t3}  KeyOf <- MCKeyOf
    PoolSize = 4  MaxQueries <- MCMaxQueries  MaxLockFaults = 1

    Requests = {get, post}  Safe = {get}  MaxRetries = 1  MaxKeys = 2  MaxRevoked = 1
INVARIANTS LocksAreSound RequestsAreSound
PROPERTIES EventsSettle WaitersGoOn NewerKeyIsKept
CHECK_DEADLOCK FALSE
