SPECIFICATION WorkerSpec
CONSTANTS
    w1 = w1
    w2 = w2
    k1 = k1
    c1 = c1
    None = None
    Workers = {w1}
    Requests <- MCWebhookOnly
    Conns = {}
    Keys = {k1}
    LeaseDuration = 2
    HeartbeatInterval = 1
    BackoffCap = 2
    Instants = {0}
    RetryDelays = {}
    ReclaimLimit = 2
    Concurrency = 2
    MaxDelay = 3
    MaxFaults = 2
    MaxJobs = 1
    MaxAttemptCap = 2
PROPERTIES OnlyTheCurrentAttemptSettles
