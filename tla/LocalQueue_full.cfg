\* Two workers race for two tasks: lapses, late settlements, a crash, a requeue.
CONSTANTS
    Task = {t1, t2}
    Worker = {w1, w2}
    NoTask = NoTask
    NoWorker = NoWorker
    MaxAttempts = 2
    Visibility = 1
    RetryDelay = 1
    MaxCrashes = 1
    MaxRequeues = 1
SPECIFICATION FairSpec
INVARIANTS ExclusiveClaims
PROPERTIES KeepsContract EventuallySettled
CHECK_DEADLOCK FALSE
