SPECIFICATION FairWorkerSpec
CONSTANTS
    w1 = w1
    w2 = w2
    k1 = k1
    c1 = c1
    None = None
    Workers = {w1, w2}
    Requests <- MCOneRequest
    Conns = {c1}
    Keys = {k1}
    LeaseDuration = 2
    HeartbeatInterval = 1
    BackoffCap = 2
    Instants = {0}
    RetryDelays = {}
    ReclaimLimit = 2
    Concurrency = 1
    MaxDelay = 3
    MaxFaults = 1
    MaxJobs = 1
    MaxAttemptCap = 2
PROPERTIES EveryJobSettles StopTerminates
INVARIANTS JobsAreSafe
PROPERTIES OnlyTheCurrentAttemptSettles
